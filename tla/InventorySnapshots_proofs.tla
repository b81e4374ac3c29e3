---------------------- MODULE InventorySnapshots_proofs ----------------------
(***************************************************************************)
(* Why uploads, creators of jobs and the retention may meet in any order,  *)
(* for any number of them: whoever holds the lock of the world finds at    *)
(* its commit what it read at its begin.  And why the trend of an item     *)
(* says what the client has seen, who turns the pages of the items sees    *)
(* each once, and no two bases are shown under one name.                   *)
(***************************************************************************)
EXTENDS InventorySnapshots, BreedingJobs_proofs, FiniteSetTheorems, SequenceTheorems,
        WellFoundedInduction

Uploads   == [content : Contents \cup {None}, time : Nat, seen : Nat,
              existing : SnapshotIds \cup {None}]
Creations == [at : {"idle", "read", "insert", "reselect"}, request : Requests \cup {None}]

WorldTypeOK ==
  /\ content \in [SnapshotIds -> Contents \cup {None}]
  /\ purged \subseteq Published
  /\ latest \in SnapshotIds \cup {None}
  /\ sourceTime \in Nat
  /\ upload \in [Publishers -> Uploads]
  /\ creating \in [Creators -> Creations]

\* What an upload has read of the world still holds when it commits.
UploadHolds(u) ==
  /\ u.content # None
  /\ u.seen = sourceTime
  /\ u.existing # None => u.existing \in Readable
  /\ u.existing = None => \A s \in Readable : content[s] # u.content

UploadsHold == \A p \in Publishers : upload[p] # NoUpload => UploadHolds(upload[p])

\* So does what a creator has read: its snapshot can be loaded.
CreationHolds(c) ==
  /\ creating[c].request \in Requests
  /\ SnapshotOf(creating[c].request) \in Readable

CreationsHold == \A c \in Creators : creating[c].at # "idle" => CreationHolds(c)

\* What the retention has selected is still superseded.
DoomedSuperseded == doomed \subseteq Readable \ {latest}

\* The inductive invariant of the world.
WorldInv ==
  /\ WorldTypeOK
  /\ LocksOK
  /\ UploadsHold
  /\ CreationsHold
  /\ DoomedSuperseded
  /\ LatestReadable
  /\ OneCopyPerContent

USE RequestAssumption, TimesAssumption, ClientAssumption

-----------------------------------------------------------------------------
\* While the world is shared nobody has it for update, and the other way round.
LEMMA Locking ==
  ASSUME LocksOK
  PROVE  /\ \A p \in Publishers : upload[p] # NoUpload =>
              /\ locker = p /\ sharers = {} /\ doomed = {}
              /\ \A q \in Publishers \ {p} : upload[q] = NoUpload
              /\ \A c \in Creators : creating[c].at = "idle"
         /\ doomed # {} =>
              /\ locker = Cleaner /\ sharers = {}
              /\ \A p \in Publishers : upload[p] = NoUpload
              /\ \A c \in Creators : creating[c].at = "idle"
  BY DEF LocksOK

LEMMA UploadStarted ==
  ASSUME WorldInv, NEW p \in Publishers, upload[p].content # None
  PROVE  upload[p] # NoUpload /\ UploadHolds(upload[p])
  BY DEF WorldInv, UploadsHold, NoUpload

-----------------------------------------------------------------------------
\* An upload begins: it reads under its lock.
LEMMA BeginPublishStep ==
  ASSUME WorldInv, NEW p \in Publishers, BeginPublish(p)
  PROVE  WorldInv'
  <1>1. PICK c \in Contents, t \in SourceTimes :
          upload' = [upload EXCEPT ![p] =
            [content |-> c, time |-> t, seen |-> sourceTime, existing |-> Existing(c)]]
    BY DEF BeginPublish
  <1> DEFINE u == [content |-> c, time |-> t, seen |-> sourceTime, existing |-> Existing(c)]
  <1>2. /\ Existing(c) # None => Existing(c) \in Readable /\ content[Existing(c)] = c
        /\ Existing(c) = None => \A s \in Readable : content[s] # c
    BY DEF Existing, Readable, Published
  <1>3. Existing(c) \in SnapshotIds \cup {None}
    BY <1>2 DEF Readable, Published
  <1>4. /\ upload'[p] = u /\ \A q \in Publishers \ {p} : upload'[q] = upload[q]
        /\ upload' \in [Publishers -> Uploads]
    BY <1>1, <1>3 DEF WorldInv, WorldTypeOK, Uploads
  <1>5. UploadHolds(upload[p])' /\ upload'[p] # NoUpload
    BY <1>2, <1>4 DEF UploadHolds, BeginPublish, worldVars, Readable, Published, NoUpload
  <1>6. /\ UNCHANGED <<worldVars, creating, doomed, sharers>> /\ locker' = p
        /\ locker = None /\ sharers = {} /\ upload[p] = NoUpload
    BY DEF BeginPublish
  <1>7. LocksOK'
    BY <1>4, <1>5, <1>6 DEF WorldInv, LocksOK
  <1>8. UploadsHold'
    <2>1. \A q \in Publishers \ {p} : upload'[q] = NoUpload
      BY <1>4, <1>6 DEF WorldInv, LocksOK
    <2> QED
      BY <1>5, <2>1 DEF UploadsHold
  <1> QED
    BY <1>4, <1>6, <1>7, <1>8
       DEF WorldInv, WorldTypeOK, worldVars, CreationsHold, CreationHolds, DoomedSuperseded,
           LatestReadable, OneCopyPerContent, Readable, Published

\* An upload ends, whatever it has made the latest snapshot.
LEMMA EndPublishStep ==
  ASSUME WorldInv, NEW p \in Publishers, upload[p] # NoUpload, EndPublish(p),
         content' \in [SnapshotIds -> Contents \cup {None}], sourceTime' \in Nat,
         purged' \subseteq Published', latest' \in SnapshotIds \cup {None},
         LatestReadable', OneCopyPerContent'
  PROVE  WorldInv'
  <1>1. /\ sharers = {} /\ doomed = {} /\ locker = p
        /\ \A q \in Publishers \ {p} : upload[q] = NoUpload
        /\ \A c \in Creators : creating[c].at = "idle"
    BY Locking DEF WorldInv
  <1>2. /\ UNCHANGED <<purged, old, sharers, creating, doomed>> /\ locker' = None
        /\ upload' = [upload EXCEPT ![p] = NoUpload]
    BY <1>1 DEF EndPublish
  <1>3. \A q \in Publishers : upload'[q] = NoUpload
    BY <1>1, <1>2 DEF WorldInv, WorldTypeOK
  <1>4. WorldTypeOK'
    BY <1>2 DEF WorldInv, WorldTypeOK, Uploads, NoUpload
  <1>5. LocksOK'
    BY <1>1, <1>2, <1>3 DEF WorldInv, LocksOK
  <1> QED
    BY <1>1, <1>2, <1>3, <1>4, <1>5
       DEF WorldInv, UploadsHold, CreationsHold, DoomedSuperseded

LEMMA PublishingStep ==
  ASSUME WorldInv, NEW p \in Publishers,
         Republish(p) \/ Publish(p) \/ RejectUpload(p)
  PROVE  WorldInv'
  <1>1. upload[p] \in Uploads
    BY DEF WorldInv, WorldTypeOK
  <1>2. CASE Republish(p)
    <2>1. upload[p] # NoUpload /\ upload[p].existing \in Readable
      BY <1>2 DEF Republish, NoUpload, WorldInv, UploadsHold, UploadHolds
    <2>2. LatestReadable' /\ OneCopyPerContent'
      BY <1>2, <2>1 DEF Republish, EndPublish, WorldInv, LatestReadable, OneCopyPerContent,
                        Readable, Published
    <2>3. /\ UNCHANGED <<content, purged>> /\ EndPublish(p)
          /\ sourceTime' = upload[p].time /\ latest' \in SnapshotIds
          /\ purged' \subseteq Published'
      BY <1>2, <2>1 DEF Republish, EndPublish, WorldInv, WorldTypeOK, Readable, Published
    <2> QED
      BY <1>1, <2>1, <2>2, <2>3, EndPublishStep DEF Uploads, WorldInv, WorldTypeOK
  <1>3. CASE Publish(p)
    <2>1. upload[p] # NoUpload /\ UploadHolds(upload[p])
      BY <1>3, UploadStarted DEF Publish
    <2>2. PICK s \in SnapshotIds \ Published :
            content' = [content EXCEPT ![s] = upload[p].content] /\ latest' = s
      BY <1>3 DEF Publish
    <2>3. /\ content'[s] = upload[p].content
          /\ \A t \in SnapshotIds \ {s} : content'[t] = content[t]
          /\ content' \in [SnapshotIds -> Contents \cup {None}]
      BY <1>1, <2>2 DEF WorldInv, WorldTypeOK, Uploads
    <2>4. purged' = purged /\ sourceTime' = upload[p].time /\ EndPublish(p)
      BY <1>3 DEF Publish, EndPublish
    <2>5. s \notin purged
      BY <2>2 DEF WorldInv, WorldTypeOK
    <2>6. content'[s] # None
      BY <2>1, <2>3 DEF UploadHolds
    <2>7. Readable' = Readable \cup {s}
      BY <2>3, <2>4, <2>5, <2>6 DEF Readable, Published
    <2>8. \A t \in Readable : content[t] # upload[p].content
      BY <1>3, <2>1 DEF Publish, UploadHolds
    <2>9. OneCopyPerContent'
      <3>1. s \notin Readable
        BY <2>2 DEF Readable
      <3>2. \A t \in Readable : content'[t] = content[t]
        BY <2>3, <3>1 DEF Readable, Published
      <3> QED
        BY <2>3, <2>7, <2>8, <3>2 DEF WorldInv, OneCopyPerContent
    <2>10. LatestReadable'
      BY <2>2, <2>7 DEF LatestReadable
    <2>11. purged' \subseteq Published'
      BY <2>3, <2>4, <2>5 DEF WorldInv, WorldTypeOK, Published
    <2> QED
      BY <1>1, <2>1, <2>2, <2>3, <2>4, <2>9, <2>10, <2>11, EndPublishStep DEF Uploads
  <1>4. CASE RejectUpload(p)
    <2>1. upload[p] # NoUpload
      BY <1>4, UploadStarted DEF RejectUpload
    <2>2. /\ UNCHANGED <<content, purged, latest, sourceTime>> /\ EndPublish(p)
      BY <1>4 DEF RejectUpload, EndPublish
    <2>3. LatestReadable' /\ OneCopyPerContent' /\ purged' \subseteq Published'
      BY <2>2 DEF WorldInv, WorldTypeOK, LatestReadable, OneCopyPerContent, Readable, Published
    <2> QED
      BY <2>1, <2>2, <2>3, EndPublishStep DEF WorldInv, WorldTypeOK
  <1> QED
    BY <1>2, <1>3, <1>4

-----------------------------------------------------------------------------
\* A creator begins: it shares the world and pins the latest snapshot.
LEMMA BeginCreateStep ==
  ASSUME WorldInv, NEW c \in Creators, BeginCreate(c)
  PROVE  WorldInv'
  <1>1. PICK u \in Users :
          creating' = [creating EXCEPT ![c] = [at |-> "read", request |-> <<u, latest>>]]
    BY DEF BeginCreate
  <1> DEFINE request == <<u, latest>>
  <1>2. latest \in SnapshotIds /\ latest \in Readable
    BY DEF BeginCreate, WorldInv, WorldTypeOK, LatestReadable
  <1>3. request \in Requests /\ SnapshotOf(request) \in Readable
    BY <1>2 DEF SnapshotOf
  <1> HIDE DEF request
  <1>4. /\ creating'[c] = [at |-> "read", request |-> request]
        /\ \A d \in Creators \ {c} : creating'[d] = creating[d]
        /\ creating' \in [Creators -> Creations]
    BY <1>1, <1>3 DEF request, WorldInv, WorldTypeOK, Creations
  <1>5. /\ UNCHANGED <<worldVars, locker, upload, doomed>>
        /\ sharers' = sharers \cup {c} /\ locker = None
    BY DEF BeginCreate
  <1>6. LocksOK'
    BY <1>4, <1>5 DEF WorldInv, LocksOK
  <1>7. CreationsHold'
    BY <1>3, <1>4, <1>5
       DEF WorldInv, CreationsHold, CreationHolds, worldVars, Readable, Published, SnapshotOf
  <1> QED
    BY <1>4, <1>5, <1>6, <1>7
       DEF WorldInv, WorldTypeOK, worldVars, UploadsHold, UploadHolds, DoomedSuperseded,
           LatestReadable, OneCopyPerContent, Readable, Published

\* A creator goes on: with another step of its transaction, or at its end.
LEMMA CreationStep ==
  ASSUME WorldInv, NEW c \in Creators, creating[c].at # "idle",
         UNCHANGED <<worldVars, locker, upload, doomed>>,
         \/ sharers' = sharers \ {c} /\ creating' = [creating EXCEPT ![c] = NotStarted]
         \/ /\ sharers' = sharers
            /\ \E at \in {"insert", "reselect"} : creating' = [creating EXCEPT ![c].at = at]
  PROVE  WorldInv'
  <1>1. /\ creating' \in [Creators -> Creations]
        /\ \A d \in Creators \ {c} : creating'[d] = creating[d]
        /\ \/ creating'[c].at = "idle" /\ sharers' = sharers \ {c}
           \/ /\ creating'[c].at # "idle" /\ sharers' = sharers
              /\ creating'[c].request = creating[c].request
    BY DEF WorldInv, WorldTypeOK, Creations, NotStarted
  <1>2. LocksOK'
    BY <1>1 DEF WorldInv, LocksOK
  <1>3. CreationsHold'
    BY <1>1 DEF WorldInv, CreationsHold, CreationHolds, worldVars, Readable, Published, SnapshotOf
  <1> QED
    BY <1>1, <1>2, <1>3
       DEF WorldInv, WorldTypeOK, worldVars, UploadsHold, UploadHolds, DoomedSuperseded,
           LatestReadable, OneCopyPerContent, Readable, Published

LEMMA CreatingStep ==
  ASSUME WorldInv, NEW c \in Creators, EndRead(c) \/ EndInsert(c) \/ Reselect(c)
  PROVE  WorldInv'
  <1>1. CASE Miss(c) \/ Conflict(c)
    BY <1>1, CreationStep DEF Miss, Conflict
  <1>2. CASE Reuse(c) \/ InsertJob(c) \/ Reselect(c)
    BY <1>2, CreationStep DEF Reuse, InsertJob, Reselect, EndCreate
  <1> QED
    BY <1>1, <1>2 DEF EndRead, EndInsert

-----------------------------------------------------------------------------
\* The retention selects superseded snapshots under its lock.
LEMMA SelectExpiredStep ==
  ASSUME WorldInv, SelectExpired
  PROVE  WorldInv'
  <1>1. /\ UNCHANGED <<worldVars, sharers, upload, creating>>
        /\ locker = None /\ sharers = {} /\ locker' = Cleaner
        /\ doomed' # {} /\ doomed' \subseteq Readable \ {latest}
    BY DEF SelectExpired
  <1>2. LocksOK'
    BY <1>1 DEF WorldInv, LocksOK
  <1> QED
    BY <1>1, <1>2
       DEF WorldInv, WorldTypeOK, worldVars, UploadsHold, UploadHolds, CreationsHold,
           CreationHolds, DoomedSuperseded, LatestReadable, OneCopyPerContent,
           Readable, Published, SnapshotOf

LEMMA PurgeStep ==
  ASSUME WorldInv, Purge
  PROVE  WorldInv'
  <1>1. /\ locker = Cleaner
        /\ \A p \in Publishers : upload[p] = NoUpload
        /\ \A c \in Creators : creating[c].at = "idle"
    BY Locking DEF Purge, WorldInv
  <1>2. /\ UNCHANGED <<content, old, latest, sourceTime, sharers, upload, creating>>
        /\ purged' = purged \cup doomed /\ doomed' = {} /\ locker' = None
    BY <1>1 DEF Purge
  <1>3. Readable' = Readable \ doomed
    BY <1>2 DEF Readable, Published
  <1>4. WorldTypeOK'
    BY <1>2 DEF WorldInv, WorldTypeOK, DoomedSuperseded, Readable, Published
  <1>5. LocksOK'
    BY <1>1, <1>2 DEF WorldInv, LocksOK
  <1>6. LatestReadable' /\ OneCopyPerContent'
    BY <1>2, <1>3 DEF WorldInv, LatestReadable, OneCopyPerContent, DoomedSuperseded
  <1> QED
    BY <1>1, <1>2, <1>4, <1>5, <1>6 DEF WorldInv, UploadsHold, CreationsHold, DoomedSuperseded

-----------------------------------------------------------------------------
LEMMA WorldInit == Init => WorldInv
  BY DEF Init, WorldInv, WorldTypeOK, LocksOK, UploadsHold, CreationsHold, DoomedSuperseded,
         LatestReadable, OneCopyPerContent, Uploads, Creations, NoUpload, NotStarted,
         Readable, Published

LEMMA WorldStep ==
  ASSUME WorldInv, [Next]_vars
  PROVE  WorldInv'
  <1>1. ASSUME NEW p \in Publishers,
               BeginPublish(p) \/ Republish(p) \/ Publish(p) \/ RejectUpload(p)
        PROVE  WorldInv'
    BY <1>1, BeginPublishStep, PublishingStep
  <1>2. ASSUME NEW c \in Creators,
               BeginCreate(c) \/ EndRead(c) \/ EndInsert(c) \/ Reselect(c)
        PROVE  WorldInv'
    BY <1>2, BeginCreateStep, CreatingStep
  <1>3. CASE SelectExpired \/ Purge
    BY <1>3, SelectExpiredStep, PurgeStep
  <1>4. ASSUME UNCHANGED <<content, purged, latest, sourceTime, txnVars>>
        PROVE  WorldInv'
    BY <1>4
       DEF WorldInv, WorldTypeOK, txnVars, LocksOK, UploadsHold, UploadHolds, CreationsHold,
           CreationHolds, DoomedSuperseded, LatestReadable, OneCopyPerContent,
           Readable, Published, SnapshotOf
  <1>5. CASE QueueStep
    BY <1>4, <1>5 DEF QueueStep, worldVars
  <1>6. ASSUME NEW j \in JobIds, Requeue(j)
        PROVE  WorldInv'
    BY <1>4, <1>6 DEF Requeue, worldVars
  <1>7. ASSUME NEW s \in SnapshotIds, GrowOld(s)
        PROVE  WorldInv'
    BY <1>4, <1>7 DEF GrowOld
  <1>8. CASE UNCHANGED vars
    BY <1>4, <1>8 DEF vars, worldVars
  <1> QED
    BY <1>1, <1>2, <1>3, <1>5, <1>6, <1>7, <1>8 DEF Next

-----------------------------------------------------------------------------
\* Whatever these transactions do to the rows of jobs is a step of the queue.
LEMMA StepUsesQueue ==
  ASSUME JobInv, WorldInv, [Next]_vars
  PROVE  [JobNext]_jobVars
  <1>1. ASSUME NEW c \in Creators, InsertJob(c)
        PROVE  JobNext
    <2>1. creating[c].request \in Requests
      BY <1>1 DEF InsertJob, WorldInv, CreationsHold, CreationHolds
    <2> QED
      BY <1>1, <2>1 DEF InsertJob, JobNext
  <1>2. ASSUME NEW j \in JobIds, NEW w \in Workers, Worked(j, w)
        PROVE  JobNext
    <2> DEFINE t == jobs[j].lease
    <2>1. CASE Claim(j, w)
      BY <2>1 DEF JobNext
    <2>2. CASE Fail(j, w, t, FALSE) \/ Complete(j, w, t) \/ Fail(j, w, t, TRUE)
      <3>1. Owns(j, w, t)
        BY <2>2 DEF Fail, Complete
      <3>2. t \in 1..lastLease
        BY <3>1 DEF JobInv, TypeOK, Rows, Locked, LeasesDrawn, Owns, NoLease
      <3>3. WorkerCall(j, w, t)
        BY <2>2 DEF WorkerCall
      <3> QED
        BY <3>2, <3>3 DEF JobNext
    <2> QED
      BY <1>2, <2>1, <2>2 DEF Worked
  <1>3. CASE QueueStep
    BY <1>2, <1>3 DEF QueueStep
  <1>4. CASE Purge
    BY <1>4 DEF Purge, JobNext
  <1>5. ASSUME NEW j \in JobIds, Requeue(j)
        PROVE  JobNext
    BY <1>5 DEF Requeue, AdminCall, JobNext
  <1>6. ASSUME NEW p \in Publishers,
               BeginPublish(p) \/ Republish(p) \/ Publish(p) \/ RejectUpload(p)
        PROVE  UNCHANGED jobVars
    BY <1>6 DEF BeginPublish, Republish, Publish, RejectUpload, EndPublish
  <1>7. ASSUME NEW c \in Creators,
               BeginCreate(c) \/ EndRead(c) \/ Conflict(c) \/ Reselect(c)
        PROVE  UNCHANGED jobVars
    BY <1>7 DEF BeginCreate, EndRead, Reuse, Miss, Conflict, Reselect
  <1>8. CASE SelectExpired
    BY <1>8 DEF SelectExpired
  <1>9. ASSUME NEW s \in SnapshotIds, GrowOld(s)
        PROVE  UNCHANGED jobVars
    BY <1>9 DEF GrowOld
  <1>10. CASE UNCHANGED vars
    BY <1>10 DEF vars
  <1> QED
    BY <1>1, <1>3, <1>4, <1>5, <1>6, <1>7, <1>8, <1>9, <1>10 DEF Next, EndInsert

-----------------------------------------------------------------------------
\* A step that makes no job live and takes no payload away leaves every live job
\* its inventory.
LEMMA NothingLost ==
  ASSUME LiveJobsCanLoad, Readable \subseteq Readable', requeued \subseteq requeued',
         \A j \in JobIds : Live(j)' /\ j \notin requeued' =>
                            Live(j) /\ jobs'[j].request = jobs[j].request
  PROVE  LiveJobsCanLoad'
  BY DEF LiveJobsCanLoad, SnapshotOf

LEMMA RowsKept ==
  ASSUME UNCHANGED jobVars
  PROVE  \A j \in JobIds : Live(j)' => Live(j) /\ jobs'[j].request = jobs[j].request
  BY DEF jobVars, Live

\* A step changes one job, which was live, and it keeps its request.
OnlyMoves(j) ==
  /\ Live(j) /\ jobs'[j].request = jobs[j].request
  /\ \A k \in JobIds \ {j} : jobs'[k] = jobs[k]

LEMMA LoadStep ==
  ASSUME JobInv, WorldInv, LiveJobsCanLoad, [Next]_vars
  PROVE  LiveJobsCanLoad'
  <1>1. ASSUME UNCHANGED <<jobVars, content, purged, requeued>>
        PROVE  LiveJobsCanLoad'
    BY <1>1, RowsKept, NothingLost DEF Readable, Published
  <1>2. ASSUME NEW p \in Publishers,
               BeginPublish(p) \/ Republish(p) \/ RejectUpload(p)
        PROVE  LiveJobsCanLoad'
    BY <1>1, <1>2 DEF BeginPublish, Republish, RejectUpload, EndPublish, worldVars
  <1>3. ASSUME NEW p \in Publishers, Publish(p)
        PROVE  LiveJobsCanLoad'
    <2>1. UNCHANGED <<jobVars, purged, requeued>>
      BY <1>3 DEF Publish, EndPublish
    <2>2. Readable \subseteq Readable'
      <3>1. PICK s \in SnapshotIds \ Published : content' = [content EXCEPT ![s] = upload[p].content]
        BY <1>3 DEF Publish
      <3>2. \A r \in Readable : content'[r] = content[r]
        BY <3>1 DEF Readable, Published, WorldInv, WorldTypeOK
      <3> QED
        BY <2>1, <3>2 DEF Readable, Published
    <2> QED
      BY <2>1, <2>2, RowsKept, NothingLost
  <1>4. ASSUME NEW c \in Creators,
               BeginCreate(c) \/ EndRead(c) \/ Conflict(c) \/ Reselect(c)
        PROVE  LiveJobsCanLoad'
    BY <1>1, <1>4 DEF BeginCreate, EndRead, Reuse, Miss, Conflict, Reselect, EndCreate, worldVars
  <1>5. ASSUME NEW c \in Creators, InsertJob(c)
        PROVE  LiveJobsCanLoad'
    <2>1. PICK j \in JobIds : Insert(j, creating[c].request)
      BY <1>5 DEF InsertJob
    <2>2. SnapshotOf(creating[c].request) \in Readable
      BY <1>5 DEF InsertJob, WorldInv, CreationsHold, CreationHolds
    <2>3. /\ jobs'[j].request = creating[c].request
          /\ \A k \in JobIds \ {j} : jobs'[k] = jobs[k]
      BY <2>1 DEF Insert, NewRow, JobInv, TypeOK
    <2>4. UNCHANGED <<content, purged, requeued>>
      BY <1>5 DEF InsertJob, EndCreate, worldVars
    <2> QED
      BY <2>2, <2>3, <2>4 DEF LiveJobsCanLoad, Live, SnapshotOf, Readable, Published
  <1>6. CASE SelectExpired
    BY <1>1, <1>6 DEF SelectExpired, worldVars
  <1>7. CASE Purge
    <2>1. Readable' = Readable \ doomed /\ requeued' = requeued
      BY <1>7 DEF Purge, Readable, Published
    <2>2. \A j \in JobIds : Live(j)' =>
            /\ Live(j) /\ jobs'[j] = jobs[j]
            /\ jobs[j].request \in Requests /\ SnapshotOf(jobs[j].request) \notin doomed
      BY <1>7 DEF Purge, ExpireInputs, Unlocked, Live, Queued, Active, JobInv, TypeOK, Rows, Locked
    <2> QED
      BY <2>1, <2>2 DEF LiveJobsCanLoad, SnapshotOf
  <1>8. CASE QueueStep
    <2>1. PICK j \in JobIds, w \in Workers : Worked(j, w)
      BY <1>8 DEF QueueStep
    <2>2. OnlyMoves(j)
      <3>1. CASE Claim(j, w)
        BY <3>1 DEF Claim, Claimable, ClaimedRow, OnlyMoves, Live, JobInv, TypeOK
      <3>2. ASSUME NEW t, Complete(j, w, t)
            PROVE  OnlyMoves(j)
        BY <3>2 DEF Complete, Owns, Unlocked, OnlyMoves, Live, JobInv, TypeOK
      <3>3. ASSUME NEW t, NEW retryable \in BOOLEAN, Fail(j, w, t, retryable)
            PROVE  OnlyMoves(j)
        BY <3>3 DEF Fail, Owns, Unlocked, OnlyMoves, Live, JobInv, TypeOK
      <3> QED
        BY <2>1, <3>1, <3>2, <3>3 DEF Worked
    <2>3. UNCHANGED <<content, purged, requeued>>
      BY <1>8 DEF QueueStep, worldVars
    <2> QED
      BY <2>2, <2>3, NothingLost DEF OnlyMoves, Live, Readable, Published
  <1>9. ASSUME NEW j \in JobIds, Requeue(j)
        PROVE  LiveJobsCanLoad'
    <2>1. /\ UNCHANGED <<content, purged>> /\ requeued' = requeued \cup {j}
          /\ \A k \in JobIds \ {j} : jobs'[k] = jobs[k]
      BY <1>9 DEF Requeue, AdminRetry, worldVars, JobInv, TypeOK
    <2> QED
      BY <2>1, NothingLost DEF Live, Readable, Published
  <1>10. ASSUME NEW s \in SnapshotIds, GrowOld(s)
         PROVE  LiveJobsCanLoad'
    BY <1>1, <1>10 DEF GrowOld
  <1>11. CASE UNCHANGED vars
    BY <1>1, <1>11 DEF vars, worldVars
  <1> QED
    BY <1>2, <1>3, <1>4, <1>5, <1>6, <1>7, <1>8, <1>9, <1>10, <1>11 DEF Next, EndInsert

-----------------------------------------------------------------------------
\* The three kinds of transaction reach the queue only through its operations,
\* and the world keeps its invariant, jobs included.
LEMMA InventoryInv == Spec => []WorldInv /\ []LiveJobsCanLoad
  <1>1. Init => JobInit /\ JobInv /\ WorldInv /\ LiveJobsCanLoad
    <2>1. Init => LiveJobsCanLoad
      BY DEF Init, JobInit, LiveJobsCanLoad, Live, NoRow, Queued, Active
    <2> QED
      BY <2>1, InitInv, WorldInit DEF Init
  <1>2. JobInv /\ WorldInv /\ LiveJobsCanLoad /\ [Next]_vars
          => JobInv' /\ WorldInv' /\ LiveJobsCanLoad'
    BY StepUsesQueue, StepInv, WorldStep, LoadStep
  <1> QED
    BY <1>1, <1>2, PTL DEF Spec

\* However uploads, creators and the retention meet, the latest snapshot and
\* those that live jobs are pinned to keep their payload.
THEOREM NeededIsKept == Spec => []NothingNeededIsPurged
  <1>1. WorldInv /\ LiveJobsCanLoad => NothingNeededIsPurged
    BY DEF WorldInv, NothingNeededIsPurged
  <1> QED
    BY <1>1, InventoryInv, PTL

\* No two snapshots that can be read have one content: an upload finds the
\* other one, for nobody publishes between its look and its insert.
THEOREM ContentsAreDistinct == Spec => []OneCopyPerContent
  <1>1. WorldInv => OneCopyPerContent
    BY DEF WorldInv
  <1> QED
    BY <1>1, InventoryInv, PTL

\* The latest snapshot is replaced only by one of a save that is not older.
THEOREM NewestSaveStays == Spec => NewestSaveWins
  <1>1. WorldInv /\ [Next]_vars => [latest' # latest => sourceTime' >= sourceTime]_vars
    <2> SUFFICES ASSUME WorldInv, Next, latest' # latest
                 PROVE  sourceTime' >= sourceTime
      BY DEF vars
    <2>1. ASSUME NEW p \in Publishers, Republish(p) \/ Publish(p)
          PROVE  sourceTime' >= sourceTime
      <3>1. upload[p] # NoUpload /\ ~IsStale(upload[p]) /\ sourceTime' = upload[p].time
        BY <2>1 DEF Republish, Publish, NoUpload
      <3>2. upload[p] \in Uploads /\ upload[p].seen = sourceTime
        BY <3>1 DEF WorldInv, WorldTypeOK, UploadsHold, UploadHolds
      <3> QED
        BY <3>1, <3>2 DEF IsStale, Uploads
    <2>2. ASSUME NEW p \in Publishers, BeginPublish(p) \/ RejectUpload(p)
          PROVE  FALSE
      BY <2>2 DEF BeginPublish, RejectUpload, worldVars
    <2>3. ASSUME NEW c \in Creators,
                 BeginCreate(c) \/ EndRead(c) \/ EndInsert(c) \/ Reselect(c)
          PROVE  FALSE
      BY <2>3 DEF BeginCreate, EndRead, Reuse, Miss, EndInsert, InsertJob, Conflict,
                  Reselect, EndCreate, worldVars
    <2>4. ~SelectExpired /\ ~Purge /\ ~QueueStep
      BY DEF SelectExpired, Purge, QueueStep, worldVars
    <2>5. /\ \A j \in JobIds : ~Requeue(j)
          /\ \A s \in SnapshotIds : ~GrowOld(s)
      BY DEF Requeue, GrowOld, worldVars
    <2> QED
      BY <2>1, <2>2, <2>3, <2>4, <2>5 DEF Next
  <1> QED
    BY <1>1, InventoryInv, PTL DEF Spec, NewestSaveWins

-----------------------------------------------------------------------------
(* The trend of an item: see ItemTrend. *)

CONSTANTS Quantities, Axis, MaxTrendNow
VARIABLES trendNow, stock, synced, trendLatest, samples, observed, unparsed

Trend == INSTANCE ItemTrend WITH MaxNow <- MaxTrendNow, now <- trendNow, latest <- trendLatest

\* As long as all items could be parsed, the samples are what the client has seen.
TrendInv ==
  /\ stock \in Quantities
  /\ DOMAIN observed \subseteq Nat /\ trendNow \in Nat
  /\ \A b \in DOMAIN observed : observed[b] \in Quantities
  /\ ~unparsed => samples = observed /\ trendLatest = synced

\* It is inductive: a heartbeat samples what was published, which is what it sees.
LEMMA TrendInvHolds ==
  ASSUME Trend!TrendAssumption
  PROVE  Trend!Spec => []TrendInv
  <1>1. Trend!Init => TrendInv
    BY DEF Trend!Init, TrendInv
  <1>2. ASSUME TrendInv, [Trend!Next]_(Trend!vars)
        PROVE  TrendInv'
    <2> USE DEF TrendInv
    <2>1. None \notin Quantities
      <3>1. \A q \in Quantities : q \in Int
        BY DEF Trend!TrendAssumption
      <3> QED
        BY <3>1 DEF Trend!TrendAssumption
    <2>2. CASE Trend!Tick \/ Trend!Play \/ UNCHANGED Trend!vars
      BY <1>2, <2>2 DEF Trend!Tick, Trend!Play, Trend!vars
    <2>3. ASSUME observed' = Trend!Put(observed, trendNow, stock), UNCHANGED <<trendNow, stock>>
          PROVE  /\ DOMAIN observed' \subseteq Nat
                 /\ \A b \in DOMAIN observed' : observed'[b] \in Quantities
      <3> DEFINE f == [x \in DOMAIN observed \cup {trendNow} |->
                         IF x = trendNow THEN stock ELSE observed[x]]
      <3>1. observed' = f
        BY <2>3 DEF Trend!Put
      <3>2. DOMAIN f = DOMAIN observed \cup {trendNow}
        OBVIOUS
      <3>3. \A x \in DOMAIN f : f[x] \in Quantities
        BY <1>2
      <3> QED
        BY <1>2, <3>1, <3>2, <3>3
    <2>4. CASE Trend!Upload
      <3>1. /\ observed' = Trend!Put(observed, trendNow, stock)
            /\ samples' = Trend!Put(samples, trendNow, stock)
            /\ synced' = stock /\ trendLatest' = stock
            /\ UNCHANGED <<trendNow, stock, unparsed>>
        BY <1>2, <2>1, <2>4 DEF Trend!Upload, Trend!Sample
      <3> QED
        BY <1>2, <2>3, <3>1
    <2>5. CASE Trend!UploadWithoutItems
      <3>1. /\ observed' = Trend!Put(observed, trendNow, stock) /\ unparsed' = TRUE
            /\ UNCHANGED <<trendNow, stock>>
        BY <1>2, <2>5 DEF Trend!UploadWithoutItems
      <3> QED
        BY <1>2, <2>3, <3>1
    <2>6. CASE Trend!Heartbeat
      <3>1. /\ observed' = Trend!Put(observed, trendNow, stock) /\ stock = synced
            /\ UNCHANGED <<trendNow, stock, synced, trendLatest, unparsed>>
        BY <1>2, <2>6 DEF Trend!Heartbeat
      <3>2. ~unparsed => samples' = Trend!Put(samples, trendNow, stock)
        BY <1>2, <2>1, <2>6, <3>1 DEF Trend!Heartbeat, Trend!Sample
      <3> QED
        BY <1>2, <2>3, <3>1, <3>2
    <2> QED
      BY <1>2, <2>2, <2>4, <2>5, <2>6 DEF Trend!Next
  <1> QED
    BY <1>1, <1>2, PTL DEF Trend!Spec

\* The largest of some numbers up to a bound.
LEMMA LargestIsOne ==
  ASSUME NEW N \in Nat, NEW S \in SUBSET (1..N), S # {}
  PROVE  Trend!Max(S) \in S
  <1> DEFINE R == OpToRel(<, Nat)
             T == {N - x : x \in S}
  <1>1. IsWellFoundedOn(R, Nat)
    BY NatLessThanWellFounded
  <1>2. \A x, y \in Nat : x < y => <<x, y>> \in R
    BY DEF OpToRel
  <1>3. \A t \in T : t \in Nat
    OBVIOUS
  <1>4. T # {}
    OBVIOUS
  <1> HIDE DEF R, T
  <1>5. PICK t \in T : \A m \in T : ~(<<m, t>> \in R)
    BY <1>1, <1>3, <1>4, WFMin
  <1>6. PICK x \in S : t = N - x
    BY DEF T
  <1>7. ASSUME NEW y \in S
        PROVE  x >= y
    <2>1. ~(<<N - y, N - x>> \in R) /\ x \in 1..N /\ y \in 1..N
      BY <1>5, <1>6 DEF T
    <2> QED
      BY <1>2, <2>1
  <1> QED
    BY <1>7 DEF Trend!Max

\* A change is shown if and only if the client has seen it.
LEMMA SeenIsShown ==
  ASSUME Trend!TrendAssumption, TrendInv
  PROVE  Trend!ChangeIsObserved
  <1> SUFFICES ASSUME ~unparsed
               PROVE  LET seen == Trend!Seen(Trend!Trend(observed))
                          change == {Trend!Trend(observed)[n] - Trend!Trend(observed)[n - 1] :
                                       n \in {k \in seen : k - 1 \in seen /\ k = Trend!Max(seen)}}
                      IN change = {Trend!PeriodChange(Trend!Trend(observed))} \ {None}
    BY DEF TrendInv, Trend!ChangeIsObserved
  <1> DEFINE points == Trend!Trend(observed)
             seen == Trend!Seen(points)
             last == Trend!Max(seen)
             change == {points[n] - points[n - 1] :
                          n \in {k \in seen : k - 1 \in seen /\ k = last}}
  <1>1. DOMAIN points = 1..Axis /\ \A n \in 1..Axis : points[n] \in Quantities \cup {None}
    BY DEF Trend!Trend, TrendInv
  <1> HIDE DEF points
  <1>2. seen \in SUBSET (1..Axis) /\ Axis \in Nat
    BY <1>1 DEF Trend!Seen, Trend!TrendAssumption
  <1>3. \A n \in seen : points[n] \in Int
    <2>1. \A n \in seen : points[n] \in Quantities
      BY <1>1 DEF Trend!Seen
    <2>2. \A q \in Quantities : q \in Int
      BY DEF Trend!TrendAssumption
    <2> QED
      BY <2>1, <2>2
  <1>4. seen # {} => last \in seen
    BY <1>2, LargestIsOne
  <1>5. Trend!PeriodChange(points) =
          IF seen = {} THEN None
          ELSE IF last - 1 \in seen THEN points[last] - points[last - 1] ELSE None
    BY DEF Trend!PeriodChange
  <1> HIDE DEF seen, last
  <1>6. CASE seen # {} /\ last - 1 \in seen
    <2>1. change = {points[last] - points[last - 1]}
      BY <1>4, <1>6
    <2>2. points[last] - points[last - 1] \in Int
      BY <1>3, <1>4, <1>6
    <2> QED
      BY <1>5, <1>6, <2>1, <2>2 DEF Trend!TrendAssumption, seen, last, points
  <1>7. CASE ~(seen # {} /\ last - 1 \in seen)
    <2>1. change = {}
      BY <1>7
    <2> QED
      BY <1>5, <1>7, <2>1 DEF seen, last, points
  <1> QED
    BY <1>6, <1>7

\* Whatever is played, uploaded and synced: a change of the last hour is shown if
\* and only if the client saw the save in the last bucket it was there at all and
\* in the bucket before, and it is what the stock changed by between them.
THEOREM TrendIsSeen ==
  ASSUME Trend!TrendAssumption
  PROVE  Trend!Spec => []Trend!ChangeIsObserved
  <1>1. TrendInv => Trend!ChangeIsObserved
    BY SeenIsShown
  <1> QED
    BY <1>1, TrendInvHolds, PTL

-----------------------------------------------------------------------------
(* The pages of the items: see ItemPages. *)

CONSTANTS Items, Food, Inventories, Made, ItemLimit, PageSizes, Searches, MaxPage, Letters
VARIABLES itemSnapshot, itemQuery, itemPage, itemTour

ItemList == INSTANCE ItemPages WITH
  Limit <- ItemLimit, latest <- itemSnapshot, query <- itemQuery, shown <- itemPage,
  tour <- itemTour

\* A page that is shown is there, as long as anything is.
PageIsThere(page) ==
  /\ page.total \in Nat /\ page.page \in Nat \ {0}
  /\ page.total > 0 => page.page <= page.total
  /\ page.total = 0 => page.page = 1

\* What an address asks for.
Queries ==
  [search : Searches \cup {Items}, kind : ItemList!Kinds, page : Nat \ {0}, size : Nat \ {0}]

\* The inductive invariant of the list of items.
ItemInv ==
  /\ itemQuery \in Queries
  /\ PageIsThere(itemPage)

\* The larger and the smaller of two numbers.
LEMMA LargerOf ==
  ASSUME NEW a \in Int, NEW b \in Int
  PROVE  /\ ItemList!Max({a, b}) = IF a >= b THEN a ELSE b
         /\ ItemList!Min({a, b}) = IF a <= b THEN a ELSE b
  BY DEF ItemList!Max, ItemList!Min

\* The links of the pager, for every number of pages and every one of them.
LEMMA TokensLead ==
  ASSUME NEW total \in Nat, NEW current \in 1..total
  PROVE  LET tokens == ItemList!PageTokens(current, total)
         IN /\ tokens \subseteq 1..total
            /\ \A n \in 1..total : n \in {current - 1, current, current + 1} => n \in tokens
            /\ \A hidden \in 1..total :
                 hidden \notin tokens =>
                   \E other \in {hidden - 1, hidden + 1} : other \in 1..total /\ other \notin tokens
  <1> DEFINE tokens == ItemList!PageTokens(current, total)
             Leads ==
               /\ \A n \in tokens : n \in 1..total
               /\ \A n \in 1..total : n \in {current - 1, current, current + 1} => n \in tokens
               /\ \A hidden \in 1..total :
                    hidden \notin tokens =>
                      \/ hidden - 1 \in 1..total /\ hidden - 1 \notin tokens
                      \/ hidden + 1 \in 1..total /\ hidden + 1 \notin tokens
  <1>1. CASE total <= 7
    BY <1>1 DEF ItemList!PageTokens
  <1>2. CASE total > 7 /\ current <= 4
    <2>1. tokens = 1..5 \cup {total}
      BY <1>2 DEF ItemList!PageTokens
    <2> HIDE DEF tokens
    <2>2. Leads
      BY <1>2, <2>1
    <2> QED
      BY <2>2 DEF tokens
  <1>3. CASE total > 7 /\ current > 4 /\ current >= total - 3
    <2>1. tokens = {1} \cup (total - 4)..total
      BY <1>3 DEF ItemList!PageTokens
    <2> HIDE DEF tokens
    <2>2. Leads
      BY <1>3, <2>1
    <2> QED
      BY <2>2 DEF tokens
  <1>4. CASE total > 7 /\ current > 4 /\ current < total - 3
    <2>1. tokens = {1, current - 1, current, current + 1, total}
      BY <1>4 DEF ItemList!PageTokens
    <2> HIDE DEF tokens
    <2>2. Leads
      BY <1>4, <2>1
    <2> QED
      BY <2>2 DEF tokens
  <1> QED
    BY <1>1, <1>2, <1>3, <1>4

\* So the links of the page that is shown lead to pages.
LEMMA ShownLinksLead ==
  ASSUME PageIsThere(itemPage)
  PROVE  /\ ItemList!LinksLead
         /\ \A page \in ItemList!Links : page \in Nat \ {0}
  <1>1. CASE itemPage.total = 0
    BY <1>1 DEF PageIsThere, ItemList!LinksLead, ItemList!Links, ItemList!PageTokens
  <1>2. CASE itemPage.total > 0
    <2> DEFINE total == itemPage.total
               current == itemPage.page
               tokens == ItemList!PageTokens(current, total)
    <2>1. total \in Nat /\ current \in 1..total
      BY <1>2 DEF PageIsThere
    <2>2. /\ tokens \subseteq 1..total
          /\ \A n \in 1..total : n \in {current - 1, current, current + 1} => n \in tokens
          /\ \A hidden \in 1..total :
               hidden \notin tokens =>
                 \E other \in {hidden - 1, hidden + 1} : other \in 1..total /\ other \notin tokens
      BY <2>1, TokensLead
    <2>3. ItemList!Links \subseteq 1..total
      BY <2>1, <2>2 DEF ItemList!Links
    <2>4. \A n \in (current - 1)..(current + 1) \cap 1..total : n \in tokens
      BY <2>1, <2>2
    <2> QED
      BY <2>1, <2>2, <2>3, <2>4 DEF ItemList!LinksLead
  <1> QED
    BY <1>1, <1>2 DEF PageIsThere

\* Cardinality is that of the instance.
LEMMA SameSize ==
  ASSUME NEW S
  PROVE  ItemList!Cardinality(S) = Cardinality(S)
BY DEF Cardinality, ItemList!Cardinality

\* Induction over the numbers up to a bound.
LEMMA CountUp ==
  ASSUME NEW N \in Nat, NEW M, 0 \in M,
         \A n \in 0..N : n \in M /\ n < N => n + 1 \in M
  PROVE  \A n \in 0..N : n \in M
  <1> DEFINE R == OpToRel(<, Nat)
             Missing == {n \in 0..N : n \notin M}
  <1> SUFFICES ASSUME Missing # {}
               PROVE  FALSE
    OBVIOUS
  <1>1. IsWellFoundedOn(R, Nat)
    BY NatLessThanWellFounded
  <1>2. \A x, y \in Nat : x < y => <<x, y>> \in R
    BY DEF OpToRel
  <1>3. Missing \subseteq Nat
    OBVIOUS
  <1> HIDE DEF R
  <1>4. PICK n \in Missing : \A y \in Missing : ~(<<y, n>> \in R)
    <2> HIDE DEF Missing
    <2> QED
      BY <1>1, <1>3, WFMin
  <1>5. n # 0 /\ n - 1 \in 0..N /\ n - 1 < n /\ n - 1 < N /\ n \in 0..N /\ n \notin M
    OBVIOUS
  <1>6. n - 1 \notin Missing
    <2>1. n - 1 \in Nat /\ n \in Nat
      BY <1>5
    <2>2. <<n - 1, n>> \in R
      BY <1>2, <1>5, <2>1
    <2> HIDE DEF Missing
    <2> QED
      BY <1>4, <2>2
  <1> QED
    BY <1>5, <1>6

\* Multiples of a number grow with what it is multiplied by.
LEMMA MultiplesGrow ==
  ASSUME NEW x \in Int, NEW y \in Int, NEW d \in Nat, x <= y
  PROVE  d * x \in Int /\ d * y \in Int /\ d * x <= d * y
  <1>1. \A a, b \in Nat : a * b \in Nat
    OBVIOUS
  <1>2. y - x \in Nat /\ d * (y - x) \in Nat
    BY <1>1
  <1>3. d * (y - x) = d * y - d * x /\ d * x \in Int /\ d * y \in Int
    OBVIOUS
  <1> QED
    BY <1>2, <1>3

\* There are as many pages as the list needs, and the last is not empty.
LEMMA PagesSuffice ==
  ASSUME NEW length \in Nat, NEW size \in Nat \ {0}, NEW total \in Nat,
         total = (length + size - 1) \div size
  PROVE  /\ length <= size * total
         /\ \A n \in 1..total : size * (n - 1) < length /\ size * (n - 1) \in Nat
  <1>1. /\ size * total \in Int /\ size * total <= length + size - 1
        /\ length + size - 1 < size * total + size
    OBVIOUS
  <1>2. ASSUME NEW n \in 1..total
        PROVE  size * (n - 1) < length /\ size * (n - 1) \in Nat
    <2>1. n - 1 \in Nat /\ total - 1 \in Int /\ n - 1 <= total - 1
      OBVIOUS
    <2>2. /\ size * (n - 1) <= size * (total - 1) /\ size * (n - 1) \in Int
          /\ size * 0 <= size * (n - 1)
      BY <2>1, MultiplesGrow
    <2>3. size * (total - 1) = size * total - size /\ size * 0 = 0
      OBVIOUS
    <2> QED
      BY <1>1, <2>2, <2>3
  <1> QED
    BY <1>1, <1>2

\* Where the part of a list that is on the first pages ends.
EndOf(length, size, n) == IF size * n <= length THEN size * n ELSE length

\* The pages of a list, one after the other, are the list.
LEMMA PagesMakeTheList ==
  ASSUME NEW E, NEW list \in Seq(E), NEW size \in Nat \ {0}, NEW total \in Nat \ {0},
         total = (Len(list) + size - 1) \div size,
         NEW pages, pages \in [1..total -> Seq(E)],
         \A n \in 1..total :
           pages[n] = SubSeq(list, size * (n - 1) + 1, EndOf(Len(list), size, n))
  PROVE  ItemList!FlattenSeq(pages) = list
  <1> DEFINE N == Len(list)
             upto(i) == SubSeq(list, 1, EndOf(N, size, i))
             Flat(f) == f = [i \in 1..total |-> IF i = 1 THEN pages[i] ELSE f[i - 1] \o pages[i]]
  <1>1. N \in Nat
    OBVIOUS
  <1>2. N <= size * total /\ \A n \in 1..total : size * (n - 1) < N /\ size * (n - 1) \in Nat
    BY <1>1, PagesSuffice
  <1>3. \A n \in 1..total : /\ size * n \in Nat /\ size * (n - 1) <= size * n
                            /\ EndOf(N, size, n) \in (size * (n - 1))..N
    <2> SUFFICES ASSUME NEW n \in 1..total
                 PROVE  /\ size * n \in Nat /\ size * (n - 1) <= size * n
                        /\ EndOf(N, size, n) \in (size * (n - 1))..N
      OBVIOUS
    <2>1. size * (n - 1) <= size * n /\ size * n \in Int
      BY MultiplesGrow
    <2>2. size * (n - 1) < N /\ size * (n - 1) \in Nat
      BY <1>2
    <2> HIDE DEF N
    <2> QED
      BY <1>1, <2>1, <2>2 DEF EndOf
  <1>4. pages[1] = upto(1)
    BY <1>2
  <1>5. ASSUME NEW i \in 2..total
        PROVE  upto(i - 1) \o pages[i] = upto(i)
    <2>1. i \in 1..total /\ i - 1 \in 1..total
      OBVIOUS
    <2>2. EndOf(N, size, i - 1) = size * (i - 1)
      BY <1>2, <2>1 DEF EndOf
    <2>3. /\ pages[i] = SubSeq(list, size * (i - 1) + 1, EndOf(N, size, i))
          /\ size * (i - 1) \in 0..N /\ EndOf(N, size, i) \in (size * (i - 1))..N
      BY <1>1, <1>2, <1>3, <2>1
    <2> DEFINE k == size * (i - 1)
               n == EndOf(N, size, i)
    <2>4. k \in 0..N /\ n \in k..N
      BY <2>3
    <2> HIDE DEF k, n
    <2>5. SubSeq(list, 1, k) \o SubSeq(list, k + 1, n) = SubSeq(list, 1, n)
      BY <1>1, <2>4, ConcatAdjacentSubSeq
    <2> QED
      BY <2>2, <2>3, <2>5 DEF k, n
  <1>6. \E f : Flat(f)
    <2> DEFINE g == [i \in 1..total |-> upto(i)]
    <2>1. \A i \in 1..total : g[i] = IF i = 1 THEN pages[i] ELSE g[i - 1] \o pages[i]
      <3> SUFFICES ASSUME NEW i \in 1..total
                   PROVE  g[i] = IF i = 1 THEN pages[i] ELSE g[i - 1] \o pages[i]
        OBVIOUS
      <3>1. CASE i = 1
        BY <1>4, <3>1
      <3>2. CASE i # 1
        <4>1. i \in 2..total /\ i - 1 \in 1..total
          BY <3>2
        <4> HIDE DEF upto
        <4> QED
          BY <1>5, <3>2, <4>1
      <3> QED
        BY <3>1, <3>2
    <2>2. Flat(g)
      <3> HIDE DEF upto
      <3> QED
        BY <2>1
    <2> QED
      BY <2>2
  <1> DEFINE flat == CHOOSE f : Flat(f)
  <1>7. Flat(flat)
    BY <1>6
  <1>8. ItemList!FlattenSeq(pages) = flat[total]
    <2>1. Len(pages) = total /\ total # 0
      OBVIOUS
    <2> QED
      BY <2>1 DEF ItemList!FlattenSeq
  <1>9. \A i \in 1..total : flat[i] = IF i = 1 THEN pages[i] ELSE flat[i - 1] \o pages[i]
    <2> HIDE DEF flat
    <2> QED
      BY <1>7
  <1> DEFINE M == {i \in Nat : i + 1 \in 1..total => flat[i + 1] = upto(i + 1)}
  <1>10. \A i \in 0..total : i \in M
    <2> HIDE DEF flat, upto
    <2>1. 0 \in M
      BY <1>4, <1>9
    <2>2. ASSUME NEW i \in 0..total, i \in M, i < total
          PROVE  i + 1 \in M
      <3> SUFFICES ASSUME i + 2 \in 1..total
                   PROVE  flat[i + 2] = upto(i + 2)
        OBVIOUS
      <3>1. i + 2 \in 2..total /\ (i + 2) - 1 = i + 1 /\ i + 1 \in 1..total /\ i + 2 # 1
        OBVIOUS
      <3>2. upto(i + 1) \o pages[i + 2] = upto(i + 2)
        BY <1>5, <3>1
      <3>3. flat[i + 2] = flat[i + 1] \o pages[i + 2]
        BY <1>9, <3>1
      <3> QED
        BY <2>2, <3>1, <3>2, <3>3
    <2> HIDE DEF M
    <2> QED
      BY <2>1, <2>2, CountUp
  <1>11. flat[total] = upto(total)
    <2>1. total - 1 \in 0..total /\ (total - 1) + 1 = total
      OBVIOUS
    <2>2. total - 1 \in M
      BY <1>10, <2>1
    <2>3. total - 1 + 1 \in 1..total => flat[total - 1 + 1] = upto(total - 1 + 1)
      BY <2>2
    <2>4. total - 1 + 1 = total /\ total \in 1..total
      OBVIOUS
    <2> HIDE DEF flat, upto
    <2> QED
      BY <2>3, <2>4
  <1>12. EndOf(N, size, total) = N
    BY <1>1, <1>2, <1>3 DEF EndOf
  <1> QED
    BY <1>8, <1>11, <1>12, SubSeqFull

\* A guild has finitely many items, in finitely many bases.
LEMMA ItemsAreFinite ==
  ASSUME ItemList!ItemPagesAssumption
  PROVE  /\ IsFiniteSet(Items) /\ Food \subseteq Items
         /\ \A s \in DOMAIN Inventories, i \in Items : IsFiniteSet(Inventories[s][i].bases)
  <1>1. \A S : ItemList!IsFiniteSet(S) <=> IsFiniteSet(S)
    BY DEF IsFiniteSet, ItemList!IsFiniteSet
  <1> QED
    BY <1>1 DEF ItemList!ItemPagesAssumption

\* Where the page that an address asks for is.
LEMMA PageOf ==
  ASSUME ItemList!ItemPagesAssumption, NEW s, NEW q \in Queries
  PROVE  /\ Len(ItemList!Filtered(s, q)) \in Nat
         /\ LET list == ItemList!Filtered(s, q) IN list \in Seq({list[n] : n \in DOMAIN list})
         /\ ItemList!TotalPages(s, q) \in Nat
         /\ ItemList!TotalPages(s, q) = (Len(ItemList!Filtered(s, q)) + q.size - 1) \div q.size
         /\ ItemList!PageNumber(s, q) =
              LET last == IF ItemList!TotalPages(s, q) >= 1 THEN ItemList!TotalPages(s, q) ELSE 1
              IN IF q.page <= last THEN q.page ELSE last
  <1> DEFINE S == ItemList!Listed(s) \cap q.search \cap ItemList!OfKind(q.kind)
             list == ItemList!Filtered(s, q)
             total == ItemList!TotalPages(s, q)
  <1>1. q.page \in Nat \ {0} /\ q.size \in Nat \ {0} /\ q.kind \in ItemList!Kinds
    BY DEF Queries
  <1>2. ItemList!Cardinality(S) \in Nat
    <2>1. ItemList!OfKind(q.kind) \subseteq Items
      BY ItemsAreFinite DEF ItemList!OfKind
    <2>2. IsFiniteSet(S)
      BY <2>1, ItemsAreFinite, FS_Subset
    <2> QED
      BY <2>2, FS_CardinalityType, SameSize
  <1>3. Len(list) \in Nat /\ DOMAIN list = 1..Len(list) /\ list = [n \in 1..Len(list) |-> list[n]]
    <2> DEFINE N == ItemList!Cardinality(S)
               Before(i, j) == \/ Inventories[s][i].quantity > Inventories[s][j].quantity
                               \/ /\ Inventories[s][i].quantity = Inventories[s][j].quantity
                                  /\ i < j
               nth(n) == CHOOSE i \in S : ItemList!Cardinality({j \in S : Before(j, i)}) = n - 1
    <2>1. list = [n \in 1..N |-> nth(n)]
      BY DEF ItemList!Filtered, ItemList!Ordered
    <2> HIDE DEF nth, N, list
    <2>2. N \in Nat
      BY <1>2 DEF N
    <2> QED
      BY <2>1, <2>2
  <1>4. total = (Len(list) + q.size - 1) \div q.size
    BY DEF ItemList!TotalPages
  <1>5. total \in Nat
    BY <1>1, <1>3, <1>4
  <1>6. list \in Seq({list[n] : n \in DOMAIN list})
    <2> HIDE DEF list
    <2>1. \A n \in 1..Len(list) : list[n] \in {list[m] : m \in DOMAIN list}
      BY <1>3
    <2> QED
      BY <1>3, <2>1
  <1>7. ItemList!PageNumber(s, q) =
          IF q.page <= (IF total >= 1 THEN total ELSE 1) THEN q.page
          ELSE IF total >= 1 THEN total ELSE 1
    <2> HIDE DEF total
    <2>1. ItemList!Max({total, 1}) = IF total >= 1 THEN total ELSE 1
      BY <1>5, LargerOf
    <2>2. PICK m \in Int : m = ItemList!Max({total, 1})
      BY <1>5, <2>1
    <2>3. PICK n \in Int : n = q.page
      BY <1>1
    <2>4. ItemList!Min({n, m}) = IF n <= m THEN n ELSE m
      BY LargerOf
    <2>5. ItemList!PageNumber(s, q) = ItemList!Min({n, m})
      BY <2>2, <2>3 DEF ItemList!PageNumber, total
    <2> QED
      BY <2>1, <2>2, <2>3, <2>4, <2>5
  <1> HIDE DEF total, list
  <1> QED
    BY <1>3, <1>4, <1>5, <1>6, <1>7 DEF total, list

\* A list does not depend on the page.
LEMMA SameList ==
  ASSUME NEW s, NEW q \in Queries, NEW r \in Queries, q.search = r.search, q.kind = r.kind
  PROVE  ItemList!Filtered(s, q) = ItemList!Filtered(s, r)
BY DEF ItemList!Filtered

\* What is on a page.
LEMMA ItemsOfPage ==
  ASSUME ItemList!ItemPagesAssumption, NEW s, NEW q \in Queries, NEW n \in Nat \ {0},
         ItemList!PageNumber(s, q) = n
  PROVE  LET list == ItemList!Filtered(s, q)
         IN ItemList!PageItems(s, q) =
              SubSeq(list, q.size * (n - 1) + 1, EndOf(Len(list), q.size, n))
  <1> DEFINE list == ItemList!Filtered(s, q)
  <1>1. Len(list) \in Nat /\ q.size \in Nat \ {0}
    BY PageOf DEF Queries
  <1>2. PICK size \in Nat : size = q.size
    BY <1>1
  <1>3. PICK length \in Nat : length = Len(list)
    BY <1>1
  <1>4. /\ size * (n - 1) \in Int /\ size * n \in Int
        /\ size * n = size * (n - 1) + size /\ (n - 1) * size = size * (n - 1)
    OBVIOUS
  <1>5. ItemList!PageItems(s, q) =
          SubSeq(list, (n - 1) * size + 1, ItemList!Min({(n - 1) * size + size, length}))
    BY <1>2, <1>3 DEF ItemList!PageItems
  <1>6. ItemList!Min({size * n, length}) = EndOf(length, size, n)
    <2>1. \A a, b \in Int : ItemList!Min({a, b}) = IF a <= b THEN a ELSE b
      BY ONLY LargerOf
    <2>2. size * n \in Int /\ length \in Int
      BY <1>4
    <2> QED
      BY ONLY <2>1, <2>2 DEF EndOf
  <1> HIDE DEF list
  <1> QED
    BY <1>2, <1>3, <1>4, <1>5, <1>6 DEF list

\* The number in an address is cut down to a page there is.
LEMMA PagesAreThere ==
  ASSUME ItemList!ItemPagesAssumption, NEW q \in Queries
  PROVE  PageIsThere(ItemList!Rendered(q))
  <1>1. /\ ItemList!Rendered(q).total = ItemList!TotalPages(itemSnapshot, q)
        /\ ItemList!Rendered(q).page = ItemList!PageNumber(itemSnapshot, q)
    BY DEF ItemList!Rendered
  <1>2. q.page \in Nat \ {0}
    BY DEF Queries
  <1> DEFINE total == ItemList!TotalPages(itemSnapshot, q)
             page == ItemList!PageNumber(itemSnapshot, q)
  <1>3. /\ total \in Nat
        /\ page = LET last == IF total >= 1 THEN total ELSE 1
                  IN IF q.page <= last THEN q.page ELSE last
    BY PageOf
  <1> HIDE DEF total, page
  <1>4. /\ page \in Nat \ {0}
        /\ total > 0 => page <= total
        /\ total = 0 => page = 1
    BY <1>2, <1>3
  <1> QED
    BY <1>1, <1>3, <1>4 DEF PageIsThere, total, page

\* It is inductive.
LEMMA ItemInvHolds ==
  ASSUME ItemList!ItemPagesAssumption
  PROVE  ItemList!Spec => []ItemInv
  <1>1. PageSizes[1] \in Nat \ {0} /\ \A size \in ItemList!Range(PageSizes) : size \in Nat \ {0}
    BY DEF ItemList!ItemPagesAssumption, ItemList!Range
  <1>2. ASSUME ItemList!Init PROVE ItemInv
    <2>1. itemQuery \in Queries
      BY <1>1, <1>2 DEF ItemList!Init, ItemList!Kinds, Queries
    <2> QED
      BY <1>2, <2>1, PagesAreThere DEF ItemList!Init, ItemInv
  <1>3. ASSUME ItemInv, [ItemList!Next]_(ItemList!vars) PROVE ItemInv'
    <2>1. ASSUME NEW q \in Queries, ItemList!Show(q)
          PROVE  ItemInv'
      BY <2>1, PagesAreThere DEF ItemList!Show, ItemInv, PageIsThere
    <2>2. CASE ItemList!Apply
      <3>1. PICK search \in Searches, kind \in ItemList!Kinds, size \in ItemList!Range(PageSizes) :
              ItemList!Open([search |-> search, kind |-> kind, page |-> 1, size |-> size])
        BY <2>2 DEF ItemList!Apply
      <3> QED
        BY <1>1, <2>1, <3>1 DEF ItemList!Open, Queries
    <2>3. CASE ItemList!Address
      <3>1. PICK page \in 1..MaxPage : ItemList!Open([itemQuery EXCEPT !.page = page])
        BY <2>3 DEF ItemList!Address
      <3> QED
        <4>1. [itemQuery EXCEPT !.page = page] \in Queries
          BY <1>3 DEF ItemInv, Queries
        <4> QED
          BY <2>1, <3>1, <4>1 DEF ItemList!Open
    <2>4. CASE ItemList!Turn
      <3>1. PICK page \in ItemList!Links : ItemList!Show([itemQuery EXCEPT !.page = page])
        BY <2>4 DEF ItemList!Turn
      <3> QED
        <4>1. page \in Nat \ {0}
          BY <1>3, ShownLinksLead DEF ItemInv
        <4>2. [itemQuery EXCEPT !.page = page] \in Queries
          BY <1>3, <4>1 DEF ItemInv, Queries
        <4> QED
          BY <2>1, <3>1, <4>2
    <2>5. CASE ItemList!Publish \/ UNCHANGED ItemList!vars
      BY <1>3, <2>5 DEF ItemList!Publish, ItemList!vars, ItemInv, PageIsThere
    <2> QED
      BY <1>3, <2>2, <2>3, <2>4, <2>5 DEF ItemList!Next
  <1> QED
    BY <1>2, <1>3, PTL DEF ItemList!Spec

-----------------------------------------------------------------------------
(* A tour of the pages. *)

\* What may be in a tour.
TourPages == [snapshot : Nat, items : {ItemList!PageItems(s, q) : s \in Nat, q \in Queries}]

OfOneSnapshot(tour) == \A n \in DOMAIN tour : tour[n].snapshot = tour[1].snapshot

\* The n-th page of a list.
PageOfList(list, size, n) == SubSeq(list, size * (n - 1) + 1, EndOf(Len(list), size, n))

\* The page that is shown is the one of its query, and a tour of one snapshot ends with it.
TourInv ==
  /\ itemQuery \in Queries
  /\ itemSnapshot \in DOMAIN Inventories
  /\ itemPage.snapshot \in DOMAIN Inventories
  /\ itemPage.page = ItemList!PageNumber(itemPage.snapshot, itemQuery)
  /\ itemPage.total = ItemList!TotalPages(itemPage.snapshot, itemQuery)
  /\ itemPage.names \subseteq ItemList!BaseNames(itemPage.snapshot, itemQuery)
  /\ itemTour \in Seq(TourPages)
  /\ itemTour # <<>> => itemTour[Len(itemTour)].snapshot = itemPage.snapshot
  /\ OfOneSnapshot(itemTour) =>
       \A n \in DOMAIN itemTour :
         itemTour[n].items =
           PageOfList(ItemList!Filtered(itemTour[1].snapshot, itemQuery), itemQuery.size, n)

\* The snapshots are numbered.
LEMMA SnapshotsAreNumbers ==
  ASSUME ItemList!ItemPagesAssumption
  PROVE  DOMAIN Inventories \subseteq Nat /\ DOMAIN Inventories = 1..Len(Inventories)
         /\ Len(Inventories) \in Nat /\ 1 \in DOMAIN Inventories
  BY DEF ItemList!ItemPagesAssumption

\* What is shown after a request.
LEMMA ShownIsOfQuery ==
  ASSUME ItemList!ItemPagesAssumption, itemSnapshot \in DOMAIN Inventories, NEW q \in Queries
  PROVE  LET page == ItemList!Rendered(q)
         IN /\ page.snapshot = itemSnapshot
            /\ page.page = ItemList!PageNumber(itemSnapshot, q)
            /\ page.total = ItemList!TotalPages(itemSnapshot, q)
            /\ page.names \subseteq ItemList!BaseNames(itemSnapshot, q)
            /\ page.items = ItemList!PageItems(itemSnapshot, q)
            /\ ItemList!Start(page) = <<[snapshot |-> itemSnapshot, items |-> page.items]>>
            /\ [snapshot |-> itemSnapshot, items |-> page.items] \in TourPages
  BY SnapshotsAreNumbers DEF ItemList!Rendered, ItemList!Start, TourPages

\* A request starts a tour, or there is none.
LEMMA OpenStarts ==
  ASSUME ItemList!ItemPagesAssumption, itemSnapshot \in DOMAIN Inventories, NEW q \in Queries,
         ItemList!Show(q), itemSnapshot' = itemSnapshot,
         itemTour' = <<>> \/ (itemPage'.page = 1 /\ itemTour' = ItemList!Start(itemPage'))
  PROVE  TourInv'
  <1> DEFINE s == itemSnapshot
             page == ItemList!Rendered(q)
  <1>1. itemPage' = page /\ itemQuery' = q
    BY DEF ItemList!Show
  <1>2. /\ page.snapshot = s /\ page.page = ItemList!PageNumber(s, q)
        /\ page.total = ItemList!TotalPages(s, q) /\ page.names \subseteq ItemList!BaseNames(s, q)
        /\ page.items = ItemList!PageItems(s, q)
        /\ ItemList!Start(page) = <<[snapshot |-> s, items |-> page.items]>>
        /\ [snapshot |-> s, items |-> page.items] \in TourPages
    BY ShownIsOfQuery
  <1> HIDE DEF page
  <1>3. CASE page.page = 1 /\ itemTour' = ItemList!Start(page)
    <2> DEFINE first == [snapshot |-> s, items |-> page.items]
    <2>1. /\ itemTour' = <<first>> /\ first \in TourPages
          /\ first.snapshot = s /\ first.items = page.items
      BY <1>1, <1>2, <1>3
    <2>2. page.items = PageOfList(ItemList!Filtered(s, q), q.size, 1)
      <3>1. ItemList!PageNumber(s, q) = 1
        BY <1>2, <1>3
      <3> QED
        BY <1>2, <3>1, ItemsOfPage DEF PageOfList
    <2> HIDE DEF first
    <2>3. /\ Len(itemTour') = 1 /\ itemTour' \in Seq(TourPages)
          /\ itemTour'[1] = first /\ DOMAIN itemTour' = {1}
      <3>1. \A page1 \in TourPages : /\ Len(<<page1>>) = 1 /\ <<page1>> \in Seq(TourPages)
                                    /\ <<page1>>[1] = page1 /\ DOMAIN <<page1>> = {1}
        OBVIOUS
      <3> QED
        BY <2>1, <3>1
    <2>4. itemTour'[1].snapshot = s /\ itemTour'[Len(itemTour')].snapshot = s
      BY <2>1, <2>3
    <2>5. \A n \in DOMAIN itemTour' :
            itemTour'[n].items =
              PageOfList(ItemList!Filtered(itemTour'[1].snapshot, itemQuery'), itemQuery'.size, n)
      BY <1>1, <2>1, <2>2, <2>3, <2>4
    <2>6. itemPage'.snapshot = s
      BY <1>1, <1>2
    <2> QED
      BY <1>1, <1>2, <2>3, <2>4, <2>5, <2>6 DEF TourInv
  <1>4. CASE itemTour' = <<>>
    BY <1>1, <1>2, <1>4 DEF TourInv
  <1> QED
    BY <1>1, <1>3, <1>4

\* One page more of a tour.
LEMMA OneMore ==
  ASSUME NEW S, NEW seq \in Seq(S), seq # <<>>, NEW e \in S
  PROVE  /\ seq \o <<e>> \in Seq(S) /\ Len(seq \o <<e>>) = Len(seq) + 1
         /\ (seq \o <<e>>)[Len(seq) + 1] = e
         /\ (seq \o <<e>>)[1] = seq[1]
         /\ \A n \in 1..Len(seq) : (seq \o <<e>>)[n] = seq[n]
         /\ DOMAIN (seq \o <<e>>) = 1..(Len(seq) + 1) /\ DOMAIN seq = 1..Len(seq)
  <1>1. Len(seq) \in Nat /\ 1 \in 1..Len(seq)
    OBVIOUS
  <1> QED
    BY <1>1

\* There are no links when nothing is listed.
LEMMA LinksAreThere ==
  ASSUME PageIsThere(itemPage)
  PROVE  ItemList!Links \subseteq 1..itemPage.total
  <1>1. CASE itemPage.total = 0
    BY <1>1 DEF PageIsThere, ItemList!Links, ItemList!PageTokens
  <1>2. CASE itemPage.total > 0
    BY <1>2, ShownLinksLead DEF ItemList!LinksLead
  <1> QED
    BY <1>1, <1>2 DEF PageIsThere

\* Another page of the same list.
LEMMA OtherPage ==
  ASSUME NEW q \in Queries, NEW page \in Nat \ {0}
  PROVE  /\ [q EXCEPT !.page = page] \in Queries
         /\ [q EXCEPT !.page = page].page = page
         /\ [q EXCEPT !.page = page].size = q.size /\ q.size \in Nat \ {0}
         /\ \A s : ItemList!Filtered(s, [q EXCEPT !.page = page]) = ItemList!Filtered(s, q)
         /\ \A s : ItemList!TotalPages(s, [q EXCEPT !.page = page]) = ItemList!TotalPages(s, q)
  <1> DEFINE r == [q EXCEPT !.page = page]
  <1>1. r \in Queries /\ r.page = page /\ r.size = q.size /\ r.search = q.search /\ r.kind = q.kind
        /\ q.size \in Nat \ {0}
    BY DEF Queries
  <1> HIDE DEF r
  <1>2. \A s : ItemList!Filtered(s, r) = ItemList!Filtered(s, q)
    BY <1>1, SameList
  <1>3. \A s : ItemList!TotalPages(s, r) = ItemList!TotalPages(s, q)
    BY <1>1, <1>2 DEF ItemList!TotalPages
  <1> QED
    BY <1>1, <1>2, <1>3 DEF r

\* The page after the last one of a tour.
LEMMA TurnGoesOn ==
  ASSUME ItemList!ItemPagesAssumption, TourInv, PageIsThere(itemPage),
         NEW page \in 1..itemPage.total,
         itemTour # <<>>, page = itemPage.page + 1, Len(itemTour) = itemPage.page,
         ItemList!Show([itemQuery EXCEPT !.page = page]), itemSnapshot' = itemSnapshot,
         itemTour' = itemTour \o ItemList!Start(itemPage')
  PROVE  TourInv'
  <1> DEFINE s == itemSnapshot
             q == [itemQuery EXCEPT !.page = page]
             shown == ItemList!Rendered(q)
             next == [snapshot |-> s, items |-> shown.items]
             length == Len(itemTour)
  <1>1. page \in Nat \ {0} /\ itemQuery \in Queries /\ s \in DOMAIN Inventories
        /\ itemTour \in Seq(TourPages) /\ length \in Nat \ {0} /\ page = length + 1
        /\ itemTour[length].snapshot = itemPage.snapshot
        /\ itemPage.total = ItemList!TotalPages(itemPage.snapshot, itemQuery)
    BY DEF TourInv, PageIsThere
  <1>2. /\ q \in Queries /\ q.page = page /\ q.size = itemQuery.size /\ q.size \in Nat \ {0}
        /\ \A t : ItemList!Filtered(t, q) = ItemList!Filtered(t, itemQuery)
        /\ \A t : ItemList!TotalPages(t, q) = ItemList!TotalPages(t, itemQuery)
    BY <1>1, OtherPage
  <1>3. itemPage' = shown /\ itemQuery' = q
    BY DEF ItemList!Show
  <1> HIDE DEF q
  <1>4. /\ shown.snapshot = s /\ shown.page = ItemList!PageNumber(s, q)
        /\ shown.total = ItemList!TotalPages(s, q) /\ shown.names \subseteq ItemList!BaseNames(s, q)
        /\ shown.items = ItemList!PageItems(s, q)
        /\ ItemList!Start(shown) = <<next>>
        /\ next \in TourPages
    BY <1>1, <1>2, ShownIsOfQuery
  <1>5. next.snapshot = s /\ next.items = shown.items
    OBVIOUS
  <1> HIDE DEF shown, next
  <1>6. /\ itemTour' \in Seq(TourPages)
        /\ Len(itemTour') = length + 1 /\ itemTour'[length + 1] = next
        /\ itemTour'[1] = itemTour[1]
        /\ \A n \in 1..length : itemTour'[n] = itemTour[n]
        /\ DOMAIN itemTour' = 1..(length + 1) /\ DOMAIN itemTour = 1..length
    <2>1. itemTour' = itemTour \o <<next>>
      BY <1>3, <1>4
    <2> HIDE DEF length
    <2>2. /\ itemTour \o <<next>> \in Seq(TourPages)
          /\ Len(itemTour \o <<next>>) = Len(itemTour) + 1
          /\ (itemTour \o <<next>>)[Len(itemTour) + 1] = next
          /\ (itemTour \o <<next>>)[1] = itemTour[1]
          /\ \A n \in 1..Len(itemTour) : (itemTour \o <<next>>)[n] = itemTour[n]
          /\ DOMAIN (itemTour \o <<next>>) = 1..(Len(itemTour) + 1)
          /\ DOMAIN itemTour = 1..Len(itemTour)
      <3>1. itemTour \in Seq(TourPages) /\ itemTour # <<>> /\ next \in TourPages
        BY <1>1, <1>4
      <3> HIDE DEF next
      <3> QED
        BY ONLY <3>1, OneMore
    <2> QED
      BY <2>1, <2>2 DEF length
  <1>7. ASSUME OfOneSnapshot(itemTour')
        PROVE  \A n \in DOMAIN itemTour' :
                 itemTour'[n].items =
                   PageOfList(ItemList!Filtered(itemTour'[1].snapshot, itemQuery'),
                              itemQuery'.size, n)
    <2>1. itemTour'[1].snapshot = s
      <3>1. length + 1 \in DOMAIN itemTour'
        BY <1>1, <1>6
      <3> QED
        BY <1>5, <1>6, <1>7, <3>1 DEF OfOneSnapshot
    <2>2. OfOneSnapshot(itemTour) /\ itemTour[1].snapshot = s
      <3>1. \A n \in 1..length : n \in DOMAIN itemTour'
        BY <1>1, <1>6
      <3> QED
        BY <1>6, <1>7, <2>1, <3>1 DEF OfOneSnapshot
    <2>3. itemPage.snapshot = s
      <3>1. length \in DOMAIN itemTour
        BY <1>1, <1>6
      <3> QED
        BY <1>1, <2>2, <3>1 DEF OfOneSnapshot
    <2>4. ItemList!PageNumber(s, q) = page
      <3>1. ItemList!TotalPages(s, q) = itemPage.total /\ itemPage.total \in Nat
        BY <1>1, <1>2, <2>3 DEF PageIsThere
      <3>2. page <= itemPage.total /\ itemPage.total >= 1
        BY <3>1
      <3> QED
        BY <1>2, <3>1, <3>2, PageOf
    <2>5. next.items = PageOfList(ItemList!Filtered(s, q), q.size, page)
      BY <1>1, <1>2, <1>4, <1>5, <2>4, ItemsOfPage DEF PageOfList
    <2>6. \A n \in 1..length :
            itemTour[n].items = PageOfList(ItemList!Filtered(s, itemQuery), itemQuery.size, n)
      BY <1>6, <2>2 DEF TourInv
    <2> SUFFICES ASSUME NEW n \in 1..(length + 1)
                 PROVE  itemTour'[n].items = PageOfList(ItemList!Filtered(s, q), q.size, n)
      BY <1>3, <1>6, <2>1
    <2>7. CASE n = length + 1
      BY <1>1, <1>6, <2>5, <2>7
    <2>8. CASE n # length + 1
      <3>1. n \in 1..length
        BY <1>1, <2>8
      <3> QED
        BY <1>2, <1>6, <2>6, <3>1
    <2> QED
      BY <2>7, <2>8
  <1>8. itemTour'[Len(itemTour')].snapshot = itemPage'.snapshot
    BY <1>3, <1>4, <1>5, <1>6
  <1>9. /\ itemQuery' \in Queries
        /\ itemSnapshot' \in DOMAIN Inventories
        /\ itemPage'.snapshot \in DOMAIN Inventories
        /\ itemPage'.page = ItemList!PageNumber(itemPage'.snapshot, itemQuery')
        /\ itemPage'.total = ItemList!TotalPages(itemPage'.snapshot, itemQuery')
        /\ itemPage'.names \subseteq ItemList!BaseNames(itemPage'.snapshot, itemQuery')
    BY <1>1, <1>2, <1>3, <1>4
  <1> HIDE DEF length
  <1> QED
    BY <1>6, <1>7, <1>8, <1>9 DEF TourInv

\* It is inductive.
LEMMA TourInvHolds ==
  ASSUME ItemList!ItemPagesAssumption
  PROVE  ItemList!Spec => [](ItemInv /\ TourInv)
  <1>1. PageSizes[1] \in Nat \ {0} /\ \A size \in ItemList!Range(PageSizes) : size \in Nat \ {0}
    BY DEF ItemList!ItemPagesAssumption, ItemList!Range
  <1>2. ASSUME ItemList!Init PROVE TourInv
    <2>1. itemQuery \in Queries
      BY <1>1, <1>2 DEF ItemList!Init, ItemList!Kinds, Queries
    <2>2. itemSnapshot \in DOMAIN Inventories
      BY <1>2, SnapshotsAreNumbers DEF ItemList!Init
    <2> DEFINE page == ItemList!Rendered(itemQuery)
               first == [snapshot |-> itemSnapshot, items |-> page.items]
    <2>3. itemPage = page /\ itemTour = ItemList!Start(page) /\ itemQuery.page = 1
      BY <1>2 DEF ItemList!Init
    <2>4. /\ page.snapshot = itemSnapshot
          /\ page.page = ItemList!PageNumber(itemSnapshot, itemQuery)
          /\ page.total = ItemList!TotalPages(itemSnapshot, itemQuery)
          /\ page.names \subseteq ItemList!BaseNames(itemSnapshot, itemQuery)
          /\ page.items = ItemList!PageItems(itemSnapshot, itemQuery)
          /\ ItemList!Start(page) = <<first>>
          /\ first \in TourPages
      BY <2>1, <2>2, ShownIsOfQuery
    <2>5. first.snapshot = itemSnapshot /\ first.items = page.items
      OBVIOUS
    <2>6. ItemList!PageNumber(itemSnapshot, itemQuery) = 1
      BY <2>1, <2>3, PageOf
    <2>7. page.items = PageOfList(ItemList!Filtered(itemSnapshot, itemQuery), itemQuery.size, 1)
      BY <2>1, <2>4, <2>6, ItemsOfPage DEF PageOfList
    <2> HIDE DEF page, first
    <2>8. /\ Len(itemTour) = 1 /\ itemTour \in Seq(TourPages)
          /\ itemTour[1] = first /\ DOMAIN itemTour = {1}
      <3>1. \A page1 \in TourPages : /\ Len(<<page1>>) = 1 /\ <<page1>> \in Seq(TourPages)
                                    /\ <<page1>>[1] = page1 /\ DOMAIN <<page1>> = {1}
        OBVIOUS
      <3> QED
        BY <2>3, <2>4, <3>1
    <2>9. \A n \in DOMAIN itemTour :
            itemTour[n].items =
              PageOfList(ItemList!Filtered(itemTour[1].snapshot, itemQuery), itemQuery.size, n)
      BY <2>5, <2>7, <2>8
    <2> QED
      BY <2>1, <2>2, <2>3, <2>4, <2>5, <2>8, <2>9 DEF TourInv
  <1>3. ASSUME ItemInv, TourInv, [ItemList!Next]_(ItemList!vars) PROVE TourInv'
    <2>0. itemSnapshot \in DOMAIN Inventories
      BY <1>3 DEF TourInv
    <2>1. CASE ItemList!Apply
      <3>1. PICK search \in Searches, kind \in ItemList!Kinds, size \in ItemList!Range(PageSizes) :
              ItemList!Open([search |-> search, kind |-> kind, page |-> 1, size |-> size])
        BY <2>1 DEF ItemList!Apply
      <3>2. [search |-> search, kind |-> kind, page |-> 1, size |-> size] \in Queries
        BY <1>1 DEF Queries
      <3>3. PICK q \in Queries : ItemList!Open(q)
        BY <3>1, <3>2
      <3> QED
        BY <2>0, <3>3, OpenStarts DEF ItemList!Open
    <2>2. CASE ItemList!Address
      <3>1. PICK page \in 1..MaxPage : ItemList!Open([itemQuery EXCEPT !.page = page])
        BY <2>2 DEF ItemList!Address
      <3>2. [itemQuery EXCEPT !.page = page] \in Queries
        BY <1>3 DEF ItemInv, Queries
      <3>3. PICK q \in Queries : ItemList!Open(q)
        BY <3>1, <3>2
      <3> QED
        BY <2>0, <3>3, OpenStarts DEF ItemList!Open
    <2>3. CASE ItemList!Turn
      <3>1. PICK page \in ItemList!Links :
              /\ ItemList!Show([itemQuery EXCEPT !.page = page])
              /\ itemTour' = IF page = 1 THEN ItemList!Start(itemPage')
                             ELSE IF itemTour # <<>> /\ page = itemPage.page + 1
                                     /\ Len(itemTour) = itemPage.page
                             THEN itemTour \o ItemList!Start(itemPage')
                             ELSE <<>>
              /\ UNCHANGED itemSnapshot
        BY <2>3 DEF ItemList!Turn
      <3>2. page \in 1..itemPage.total
        BY <1>3, LinksAreThere DEF ItemInv
      <3>3. [itemQuery EXCEPT !.page = page] \in Queries
        BY <1>3, <3>2 DEF ItemInv, PageIsThere, Queries
      <3>4. CASE page = 1
        <4>1. /\ itemPage' = ItemList!Rendered([itemQuery EXCEPT !.page = page])
              /\ itemPage'.page =
                   ItemList!PageNumber(itemSnapshot, [itemQuery EXCEPT !.page = page])
          BY <3>1 DEF ItemList!Show, ItemList!Rendered
        <4>2. ItemList!PageNumber(itemSnapshot, [itemQuery EXCEPT !.page = page]) = 1
          <5>1. [itemQuery EXCEPT !.page = page].page = 1
            BY <1>3, <3>4, OtherPage DEF ItemInv
          <5> QED
            BY <3>3, <5>1, PageOf
        <4> QED
          BY <2>0, <3>1, <3>3, <3>4, <4>1, <4>2, OpenStarts
      <3>5. CASE page # 1 /\ itemTour # <<>> /\ page = itemPage.page + 1
                 /\ Len(itemTour) = itemPage.page
        BY <1>3, <3>1, <3>2, <3>5, TurnGoesOn DEF ItemInv
      <3>6. CASE itemTour' = <<>>
        BY <2>0, <3>1, <3>3, <3>6, OpenStarts
      <3> QED
        BY <3>1, <3>4, <3>5, <3>6
    <2>4. CASE ItemList!Publish
      BY <1>3, <2>4, SnapshotsAreNumbers DEF ItemList!Publish, TourInv, OfOneSnapshot
    <2>5. CASE UNCHANGED ItemList!vars
      BY <1>3, <2>5 DEF ItemList!vars, TourInv, OfOneSnapshot
    <2> QED
      BY <1>3, <2>1, <2>2, <2>3, <2>4, <2>5 DEF ItemList!Next
  <1> QED
    BY <1>2, <1>3, ItemInvHolds, PTL DEF ItemList!Spec

\* A tour of one snapshot to the last page has the whole list.
LEMMA TourIsComplete ==
  ASSUME ItemList!ItemPagesAssumption, TourInv
  PROVE  ItemList!TourSeesAllOnce
  <1> SUFFICES ASSUME itemTour # <<>>, Len(itemTour) = itemPage.total, OfOneSnapshot(itemTour)
               PROVE  ItemList!FlattenSeq([n \in DOMAIN itemTour |-> itemTour[n].items])
                        = ItemList!Filtered(itemTour[1].snapshot, itemQuery)
    BY DEF ItemList!TourSeesAllOnce, ItemList!Toured, OfOneSnapshot
  <1> DEFINE s == itemTour[1].snapshot
             list == ItemList!Filtered(s, itemQuery)
             size == itemQuery.size
             total == Len(itemTour)
             E == {list[n] : n \in DOMAIN list}
             pages == [n \in DOMAIN itemTour |-> itemTour[n].items]
  <1>1. itemQuery \in Queries /\ size \in Nat \ {0}
    BY DEF TourInv, Queries
  <1>2. total \in Nat \ {0} /\ DOMAIN itemTour = 1..total /\ 1 \in DOMAIN itemTour
    BY DEF TourInv
  <1>3. itemPage.snapshot = s
    BY <1>2 DEF TourInv, OfOneSnapshot
  <1>4. total = (Len(list) + size - 1) \div size
    BY <1>1, <1>3, PageOf DEF TourInv
  <1>5. list \in Seq(E) /\ Len(list) \in Nat
    BY <1>1, PageOf
  <1>6. \A n \in 1..total : itemTour[n].items = PageOfList(list, size, n)
    BY <1>2 DEF TourInv
  <1> HIDE DEF list, total, size, E
  <1>7. \A n \in 1..total : PageOfList(list, size, n) \in Seq(E)
    <2> SUFFICES ASSUME NEW n \in 1..total
                 PROVE  PageOfList(list, size, n) \in Seq(E)
      OBVIOUS
    <2>1. size * (n - 1) \in Nat /\ size * n \in Int
      <3>1. n \in Nat /\ n - 1 \in Nat
        BY <1>2
      <3>2. \A x, y \in Nat : x * y \in Nat
        OBVIOUS
      <3> QED
        BY <1>1, <3>1, <3>2
    <2>2. EndOf(Len(list), size, n) \in Int /\ EndOf(Len(list), size, n) <= Len(list)
      BY <1>5, <2>1 DEF EndOf
    <2>3. \A m \in Nat \ {0}, k \in Int : k <= Len(list) => SubSeq(list, m, k) \in Seq(E)
      BY <1>5
    <2> QED
      BY <2>1, <2>2, <2>3 DEF PageOfList
  <1>8. pages \in [1..total -> Seq(E)] /\ \A n \in 1..total : pages[n] = PageOfList(list, size, n)
    BY <1>2, <1>6, <1>7
  <1> HIDE DEF pages
  <1>9. ItemList!FlattenSeq(pages) = list
    BY <1>1, <1>2, <1>4, <1>5, <1>8, PagesMakeTheList DEF PageOfList
  <1> QED
    BY <1>9 DEF pages, list

-----------------------------------------------------------------------------
(* The names of the bases. *)

\* Some number of a set is the least: induction over all numbers.
LEMMA Least ==
  ASSUME NEW T, T \subseteq Nat, T # {}
  PROVE  \E n \in T : \A k \in T : n <= k
  <1> DEFINE R == OpToRel(<, Nat)
  <1>1. IsWellFoundedOn(R, Nat)
    BY NatLessThanWellFounded
  <1>2. \A x, y \in Nat : x < y => <<x, y>> \in R
    BY DEF OpToRel
  <1> HIDE DEF R
  <1>3. PICK n \in T : \A y \in T : ~(<<y, n>> \in R)
    BY <1>1, WFMin
  <1>4. ASSUME NEW k \in T
        PROVE  n <= k
    <2>1. n \in Nat /\ k \in Nat /\ ~(k < n)
      BY <1>2, <1>3
    <2> QED
      BY <2>1
  <1> QED
    BY <1>4

\* alphabeticIndex writes the last letter after the name of this number.
Stem(n) == (n - 1) \div Letters

\* The names of the numbers up to N.
NamesUpTo(f, N) ==
  f = [n \in 0..N |-> IF n = 0 THEN <<>> ELSE Append(f[Stem(n)], (n - 1) % Letters)]

\* Division with a remainder.
LEMMA Remainder ==
  ASSUME NEW a \in Int, NEW d \in Int, d > 0
  PROVE  a % d = a - d * (a \div d)
OBVIOUS

LEMMA Divided ==
  ASSUME NEW a \in Nat, NEW d \in Nat \ {0}
  PROVE  /\ a \div d \in Nat /\ a % d \in Nat
         /\ a = d * (a \div d) + (a % d)
         /\ a \div d <= a
  <1>1. a \div d \in Nat /\ a % d \in Nat
    OBVIOUS
  <1>2. a % d = a - d * (a \div d)
    BY Remainder
  <1> DEFINE q == a \div d
  <1>3. q * 1 <= q * d /\ q * d \in Int
    <2>1. q \in Nat /\ 1 <= d /\ d \in Int
      BY <1>1
    <2> HIDE DEF q
    <2> QED
      BY <2>1, MultiplesGrow
  <1>4. q * 1 = q /\ q * d = d * q
    <2>1. \A x \in Nat, y \in Nat : x * 1 = x /\ x * y = y * x
      OBVIOUS
    <2> QED
      BY <1>1, <2>1
  <1>5. q \in Nat /\ a % d = a - d * q /\ d * q \in Int /\ q <= d * q /\ a % d \in Nat
    BY <1>1, <1>2, <1>3, <1>4
  <1> HIDE DEF q
  <1>6. a = d * q + (a % d) /\ q <= a
    BY <1>5
  <1> QED
    BY <1>1, <1>6 DEF q

\* A stem is smaller, and with the last letter it makes the number: alphabeticIndex ends.
LEMMA Stems ==
  ASSUME Letters \in Nat \ {0}, NEW n \in Nat \ {0}
  PROVE  /\ Stem(n) \in Nat /\ Stem(n) < n
         /\ (n - 1) % Letters \in Nat
         /\ n - 1 = Letters * Stem(n) + ((n - 1) % Letters)
  <1>1. n - 1 \in Nat
    OBVIOUS
  <1>2. /\ Stem(n) \in Nat /\ (n - 1) % Letters \in Nat
        /\ n - 1 = Letters * Stem(n) + ((n - 1) % Letters)
        /\ Stem(n) <= n - 1
    BY <1>1, Divided DEF Stem
  <1> QED
    BY <1>2

\* Two lists of names agree as far as both go.
LEMMA NamesAreUnique ==
  ASSUME Letters \in Nat \ {0}, NEW M \in Nat, NEW N \in Nat, NEW f, NEW g,
         NamesUpTo(f, M), NamesUpTo(g, N)
  PROVE  \A n \in Nat : n <= M /\ n <= N => f[n] = g[n]
  <1> DEFINE Differ == {n \in Nat : n <= M /\ n <= N /\ f[n] # g[n]}
  <1> SUFFICES ASSUME Differ # {} PROVE FALSE
    OBVIOUS
  <1>1. PICK n \in Differ : \A k \in Differ : n <= k
    <2> HIDE DEF Differ
    <2>1. Differ \subseteq Nat
      BY DEF Differ
    <2> QED
      BY <2>1, Least
  <1>2. n \in Nat /\ n <= M /\ n <= N /\ f[n] # g[n] /\ n \in 0..M /\ n \in 0..N
    BY <1>1
  <1>3. /\ f[n] = IF n = 0 THEN <<>> ELSE Append(f[Stem(n)], (n - 1) % Letters)
        /\ g[n] = IF n = 0 THEN <<>> ELSE Append(g[Stem(n)], (n - 1) % Letters)
    BY <1>2 DEF NamesUpTo
  <1>4. n # 0
    BY <1>2, <1>3
  <1>5. Stem(n) \in Nat /\ Stem(n) < n
    BY <1>2, <1>4, Stems
  <1>6. Stem(n) \notin Differ
    BY <1>1, <1>2, <1>5
  <1>7. f[Stem(n)] = g[Stem(n)]
    BY <1>2, <1>5, <1>6
  <1> QED
    BY <1>2, <1>3, <1>7

\* There is a list of the names of the numbers up to N.
LEMMA NamesExist ==
  ASSUME Letters \in Nat \ {0}, NEW N \in Nat
  PROVE  \E f : NamesUpTo(f, N)
  <1> DEFINE Without == {n \in Nat : ~ \E f : NamesUpTo(f, n)}
  <1> SUFFICES ASSUME Without # {} PROVE FALSE
    OBVIOUS
  <1>1. PICK n \in Without : \A k \in Without : n <= k
    <2> HIDE DEF Without
    <2>1. Without \subseteq Nat
      BY DEF Without
    <2> QED
      BY <2>1, Least
  <1>2. n \in Nat /\ ~ \E f : NamesUpTo(f, n)
    BY <1>1
  <1>3. CASE n = 0
    <2> DEFINE f == [m \in 0..0 |-> <<>>]
    <2>1. \A m \in 0..0 : m = 0
      OBVIOUS
    <2>2. NamesUpTo(f, 0)
      BY <2>1 DEF NamesUpTo
    <2> QED
      BY <1>2, <1>3, <2>2
  <1>4. CASE n # 0
    <2>1. n - 1 \in Nat /\ n - 1 < n /\ n \in Nat \ {0}
      BY <1>2, <1>4
    <2>2. n - 1 \notin Without
      BY <1>1, <1>2, <2>1
    <2>3. PICK f : NamesUpTo(f, n - 1)
      BY <2>1, <2>2
    <2>4. Stem(n) \in Nat /\ Stem(n) < n /\ Stem(n) \in 0..(n - 1)
      BY <2>1, Stems
    <2> DEFINE last == Append(f[Stem(n)], (n - 1) % Letters)
               g == [m \in 0..n |-> IF m = n THEN last ELSE f[m]]
    <2> HIDE DEF last
    <2>5. \A m \in 0..n : g[m] = IF m = 0 THEN <<>> ELSE Append(g[Stem(m)], (m - 1) % Letters)
      <3> SUFFICES ASSUME NEW m \in 0..n
                   PROVE  g[m] = IF m = 0 THEN <<>> ELSE Append(g[Stem(m)], (m - 1) % Letters)
        OBVIOUS
      <3>1. CASE m = n
        <4>1. g[n] = last /\ g[Stem(n)] = f[Stem(n)]
          BY <1>2, <2>4
        <4> HIDE DEF g
        <4> QED
          BY <1>4, <3>1, <4>1 DEF last
      <3>2. CASE m # n
        <4>1. m \in 0..(n - 1) /\ m \in Nat
          BY <1>2, <3>2
        <4>2. f[m] = IF m = 0 THEN <<>> ELSE Append(f[Stem(m)], (m - 1) % Letters)
          BY <2>3, <4>1 DEF NamesUpTo
        <4>3. g[m] = f[m]
          BY <1>2, <3>2, <4>1
        <4>4. CASE m = 0
          BY <4>2, <4>3, <4>4
        <4>5. CASE m # 0
          <5>1. Stem(m) \in 0..(n - 1) /\ Stem(m) \in 0..n /\ Stem(m) # n
            <6>1. Stem(m) \in Nat /\ Stem(m) < m
              BY <4>1, <4>5, Stems
            <6> QED
              BY <1>2, <4>1, <6>1
          <5>2. g[Stem(m)] = f[Stem(m)]
            BY <5>1
          <5> HIDE DEF g
          <5> QED
            BY <4>2, <4>3, <4>5, <5>2
        <4> QED
          BY <4>4, <4>5
      <3> QED
        BY <3>1, <3>2
    <2>6. NamesUpTo(g, n)
      <3>1. g = [m \in 0..n |-> g[m]]
        OBVIOUS
      <3> HIDE DEF g
      <3> QED
        BY <2>5, <3>1 DEF NamesUpTo
    <2> QED
      BY <1>2, <2>6
  <1> QED
    BY <1>3, <1>4

\* So the names are what their definition says.
LEMMA NameIs ==
  ASSUME Letters \in Nat \ {0}, NEW n \in Nat
  PROVE  ItemList!Name[n] =
           IF n = 0 THEN <<>> ELSE Append(ItemList!Name[Stem(n)], (n - 1) % Letters)
  <1> DEFINE upto(m) == CHOOSE f : NamesUpTo(f, m)
             all == [m \in Nat |-> upto(m)[m]]
             Names(f) == f = [m \in Nat |-> IF m = 0 THEN <<>>
                                            ELSE Append(f[(m - 1) \div Letters], (m - 1) % Letters)]
  <1>1. \A m \in Nat : NamesUpTo(upto(m), m)
    BY NamesExist
  <1>2. \A m \in Nat, k \in Nat : k <= m => upto(m)[k] = all[k]
    <2> SUFFICES ASSUME NEW m \in Nat, NEW k \in Nat, k <= m
                 PROVE  upto(m)[k] = all[k]
      OBVIOUS
    <2>1. NamesUpTo(upto(m), m) /\ NamesUpTo(upto(k), k)
      BY <1>1
    <2>2. all[k] = upto(k)[k]
      OBVIOUS
    <2> HIDE DEF upto
    <2>3. k <= k
      OBVIOUS
    <2>4. upto(m)[k] = upto(k)[k]
      BY <2>1, <2>3, NamesAreUnique
    <2> QED
      BY <2>2, <2>4
  <1>3. \A m \in Nat : all[m] = IF m = 0 THEN <<>> ELSE Append(all[Stem(m)], (m - 1) % Letters)
    <2> SUFFICES ASSUME NEW m \in Nat
                 PROVE  all[m] = IF m = 0 THEN <<>> ELSE Append(all[Stem(m)], (m - 1) % Letters)
      OBVIOUS
    <2> HIDE DEF upto, all
    <2>1. m \in 0..m /\ m <= m
      OBVIOUS
    <2>2. upto(m)[m] = IF m = 0 THEN <<>> ELSE Append(upto(m)[Stem(m)], (m - 1) % Letters)
      BY <1>1, <2>1 DEF NamesUpTo
    <2>3. all[m] = upto(m)[m]
      BY <1>2, <2>1
    <2>4. CASE m = 0
      BY <2>2, <2>3, <2>4
    <2>5. CASE m # 0
      <3>1. Stem(m) \in Nat /\ Stem(m) <= m
        BY <2>5, Stems
      <3>2. upto(m)[Stem(m)] = all[Stem(m)]
        BY <1>2, <3>1
      <3> QED
        BY <2>2, <2>3, <2>5, <3>2
    <2> QED
      BY <2>4, <2>5
  <1>4. Names(all)
    <2>1. all = [m \in Nat |-> all[m]]
      OBVIOUS
    <2> HIDE DEF all
    <2> QED
      BY <1>3, <2>1 DEF Stem
  <1>5. Names(ItemList!Name)
    <2> HIDE DEF all
    <2>1. \E f : Names(f)
      BY <1>4
    <2>2. ItemList!Name = CHOOSE f : Names(f)
      BY DEF ItemList!Name
    <2> HIDE DEF Names
    <2> QED
      BY <2>1, <2>2
  <1> QED
    BY <1>5 DEF Stem

\* They are words of letters.
LEMMA NamesAreWords ==
  ASSUME Letters \in Nat \ {0}
  PROVE  \A n \in Nat : ItemList!Name[n] \in Seq(Nat)
  <1> DEFINE Odd == {n \in Nat : ItemList!Name[n] \notin Seq(Nat)}
  <1> SUFFICES ASSUME Odd # {} PROVE FALSE
    OBVIOUS
  <1>1. PICK n \in Odd : \A k \in Odd : n <= k
    <2> HIDE DEF Odd
    <2>1. Odd \subseteq Nat
      BY DEF Odd
    <2> QED
      BY <2>1, Least
  <1>2. n \in Nat /\ ItemList!Name[n] \notin Seq(Nat)
    BY <1>1
  <1>3. n # 0
    <2>1. 0 \in Nat /\ <<>> \in Seq(Nat)
      OBVIOUS
    <2>2. ItemList!Name[0] = <<>>
      BY <2>1, NameIs
    <2> QED
      BY <1>2, <2>1, <2>2
  <1>4. Stem(n) \in Nat /\ Stem(n) < n /\ (n - 1) % Letters \in Nat
    BY <1>2, <1>3, Stems
  <1>5. ItemList!Name[Stem(n)] \in Seq(Nat)
    BY <1>1, <1>2, <1>4
  <1>6. ItemList!Name[n] = Append(ItemList!Name[Stem(n)], (n - 1) % Letters)
    BY <1>2, <1>3, NameIs
  <1> QED
    BY <1>2, <1>4, <1>5, <1>6, AppendProperties

\* No two numbers have one name.
LEMMA NamesDiffer ==
  ASSUME Letters \in Nat \ {0}, NEW n \in Nat, NEW m \in Nat,
         ItemList!Name[n] = ItemList!Name[m]
  PROVE  n = m
  <1> DEFINE Shared == {k \in Nat : \E l \in Nat : k # l /\ ItemList!Name[k] = ItemList!Name[l]}
  <1> SUFFICES ASSUME Shared # {} PROVE FALSE
    OBVIOUS
  <1>1. PICK k \in Shared : \A j \in Shared : k <= j
    <2> HIDE DEF Shared
    <2>1. Shared \subseteq Nat
      BY DEF Shared
    <2> QED
      BY <2>1, Least
  <1>2. PICK l \in Nat : k \in Nat /\ k # l /\ ItemList!Name[k] = ItemList!Name[l]
    BY <1>1
  <1>3. \A i \in Nat \ {0} :
          /\ ItemList!Name[i] = Append(ItemList!Name[Stem(i)], (i - 1) % Letters)
          /\ ItemList!Name[Stem(i)] \in Seq(Nat) /\ (i - 1) % Letters \in Nat
          /\ ItemList!Name[i] # <<>>
    <2> SUFFICES ASSUME NEW i \in Nat \ {0}
                 PROVE  /\ ItemList!Name[i] = Append(ItemList!Name[Stem(i)], (i - 1) % Letters)
                        /\ ItemList!Name[Stem(i)] \in Seq(Nat) /\ (i - 1) % Letters \in Nat
                        /\ ItemList!Name[i] # <<>>
      OBVIOUS
    <2>1. Stem(i) \in Nat /\ (i - 1) % Letters \in Nat
      BY Stems
    <2>2. ItemList!Name[Stem(i)] \in Seq(Nat)
      BY <2>1, NamesAreWords
    <2>3. ItemList!Name[i] = Append(ItemList!Name[Stem(i)], (i - 1) % Letters)
      BY NameIs
    <2>4. Append(ItemList!Name[Stem(i)], (i - 1) % Letters) # <<>>
      <3>1. ASSUME NEW word \in Seq(Nat), NEW letter \in Nat
            PROVE  Append(word, letter) # <<>>
        BY ONLY word \in Seq(Nat), letter \in Nat, AppendProperties
      <3> QED
        BY <2>1, <2>2, <3>1
    <2> QED
      BY <2>1, <2>2, <2>3, <2>4
  <1>4. ItemList!Name[0] = <<>>
    BY NameIs
  <1>5. k # 0 /\ l # 0
    BY <1>2, <1>3, <1>4
  <1>6. ItemList!Name[Stem(k)] = ItemList!Name[Stem(l)] /\ (k - 1) % Letters = (l - 1) % Letters
    <2>1. /\ Append(ItemList!Name[Stem(k)], (k - 1) % Letters)
               = Append(ItemList!Name[Stem(l)], (l - 1) % Letters)
          /\ ItemList!Name[Stem(k)] \in Seq(Nat) /\ (k - 1) % Letters \in Nat
          /\ ItemList!Name[Stem(l)] \in Seq(Nat) /\ (l - 1) % Letters \in Nat
      BY <1>2, <1>3, <1>5
    <2> DEFINE a == ItemList!Name[Stem(k)]
               b == ItemList!Name[Stem(l)]
               c == (k - 1) % Letters
               d == (l - 1) % Letters
    <2>2. Append(a, c) = Append(b, d) /\ a \in Seq(Nat) /\ c \in Nat /\ b \in Seq(Nat) /\ d \in Nat
      BY <2>1
    <2> HIDE DEF a, b, c, d
    <2>3. a = b /\ c = d
      BY ONLY <2>2, AppendInjective
    <2> QED
      BY <2>3 DEF a, b, c, d
  <1>7. /\ Stem(k) \in Nat /\ Stem(k) < k /\ Stem(l) \in Nat
        /\ k - 1 = Letters * Stem(k) + ((k - 1) % Letters)
        /\ l - 1 = Letters * Stem(l) + ((l - 1) % Letters)
    BY <1>2, <1>5, Stems
  <1>8. Stem(k) = Stem(l)
    <2>1. Stem(k) \notin Shared
      BY <1>1, <1>2, <1>7
    <2> QED
      BY <1>6, <1>7, <2>1
  <1>9. k - 1 = l - 1
    BY <1>6, <1>7, <1>8
  <1> QED
    BY <1>2, <1>9

\* How many numbers of a set are smaller than one of it.
RankIn(S, i) == Cardinality({j \in S : j < i})

\* A finite set of numbers has one number of each rank.
LEMMA RanksOfNumbers ==
  ASSUME NEW S, S \subseteq Int, IsFiniteSet(S)
  PROVE  /\ Cardinality(S) \in Nat
         /\ \A n \in 0..(Cardinality(S) - 1) : \E i \in S : RankIn(S, i) = n
  <1> DEFINE Below(r) == {j \in S : j < r}
             N == Cardinality(S)
             f == [r \in S |-> Cardinality(Below(r))]
  <1>1. N \in Nat
    BY FS_CardinalityType
  <1>2. ASSUME NEW A \in SUBSET S, NEW B \in SUBSET A, A # B
        PROVE  Cardinality(A) \in Nat /\ Cardinality(B) \in Nat /\ Cardinality(B) < Cardinality(A)
    <2>1. IsFiniteSet(A)
      BY FS_Subset
    <2>2. IsFiniteSet(B) /\ Cardinality(B) <= Cardinality(A) /\ Cardinality(A) # Cardinality(B)
      BY <1>2, <2>1, FS_Subset
    <2> QED
      BY <2>1, <2>2, FS_CardinalityType
  <1>3. ASSUME NEW r \in S
        PROVE  Cardinality(Below(r)) \in 0..(N - 1)
    <2>1. Below(r) \in SUBSET S /\ r \notin Below(r)
      OBVIOUS
    <2> HIDE DEF Below
    <2>2. Cardinality(Below(r)) \in Nat /\ Cardinality(Below(r)) < N
      BY <1>2, <2>1
    <2> QED
      BY <1>1, <2>2
  <1>4. ASSUME NEW r \in S, NEW s \in S, r < s
        PROVE  Cardinality(Below(r)) < Cardinality(Below(s))
    <2>1. Below(s) \in SUBSET S /\ Below(r) \in SUBSET Below(s)
      <3>1. \A j \in S : j < r => j < s
        BY <1>4
      <3> QED
        BY <3>1
    <2>2. r \in Below(s) /\ r \notin Below(r)
      BY <1>4
    <2> QED
      BY <1>2, <2>1, <2>2
  <1>5. f \in [S -> 0..(N - 1)] /\ \A r \in S : f[r] = Cardinality(Below(r))
    BY <1>3
  <1> HIDE DEF Below, N, f
  <1>6. ASSUME NEW r \in S, NEW s \in S, f[r] = f[s]
        PROVE  r = s
    <2>1. r < s => f[r] < f[s]
      BY <1>4, <1>5
    <2>2. s < r => f[s] < f[r]
      BY <1>4, <1>5
    <2>3. f[r] \in Int /\ r \in Int /\ s \in Int
      BY <1>1, <1>5
    <2> QED
      BY <1>6, <2>1, <2>2, <2>3
  <1>7. f \in Injection(S, 0..(N - 1))
    BY <1>5, <1>6 DEF Injection, IsInjective
  <1>8. IsFiniteSet(0..(N - 1)) /\ Cardinality(0..(N - 1)) = N
    BY <1>1, FS_Interval
  <1>9. f \in Surjection(S, 0..(N - 1))
    BY <1>7, <1>8, FS_Injection DEF N
  <1>10. \A n \in 0..(N - 1) : \E i \in S : Cardinality(Below(i)) = n
    BY <1>5, <1>9 DEF Surjection
  <1> QED
    BY <1>1, <1>10 DEF N, Below, RankIn

\* So a finite set of numbers can be put in order.
LEMMA InOrder ==
  ASSUME NEW S, S \subseteq Int, IsFiniteSet(S)
  PROVE  LET order == ItemList!Ordered(S, <)
         IN /\ Cardinality(S) \in Nat
            /\ order \in [1..Cardinality(S) -> S]
            /\ \A n \in 1..Cardinality(S), m \in 1..Cardinality(S) : order[n] = order[m] => n = m
  <1> DEFINE order == ItemList!Ordered(S, <)
             N == Cardinality(S)
  <1>1. N \in Nat /\ \A n \in 0..(N - 1) : \E i \in S : RankIn(S, i) = n
    BY RanksOfNumbers
  <1>2. order = [n \in 1..N |-> CHOOSE i \in S : RankIn(S, i) = n - 1]
    BY DEF ItemList!Ordered, ItemList!Cardinality, Cardinality, RankIn
  <1> HIDE DEF order, N
  <1>3. \A n \in 1..N : order[n] \in S /\ RankIn(S, order[n]) = n - 1
    <2> SUFFICES ASSUME NEW n \in 1..N
                 PROVE  order[n] \in S /\ RankIn(S, order[n]) = n - 1
      OBVIOUS
    <2>1. n - 1 \in 0..(N - 1)
      BY <1>1
    <2>2. \E i \in S : RankIn(S, i) = n - 1
      BY <1>1, <2>1
    <2>3. order[n] = CHOOSE i \in S : RankIn(S, i) = n - 1
      BY <1>2
    <2> QED
      BY <2>2, <2>3
  <1>4. order \in [1..N -> S]
    BY <1>2, <1>3
  <1>5. \A n \in 1..N, m \in 1..N : order[n] = order[m] => n = m
    <2> SUFFICES ASSUME NEW n \in 1..N, NEW m \in 1..N, order[n] = order[m]
                 PROVE  n = m
      OBVIOUS
    <2>1. n - 1 = m - 1
      BY <1>3
    <2> QED
      BY <1>1, <2>1
  <1> QED
    BY <1>1, <1>4, <1>5 DEF order, N

\* The bases that the listed items are in.
BasesOf(s) == UNION {Inventories[s][i].bases : i \in ItemList!Listed(s)}

\* What is listed are items, so there are finitely many of them.
LEMMA BasesAreFinite ==
  ASSUME ItemList!ItemPagesAssumption, NEW s \in DOMAIN Inventories
  PROVE  BasesOf(s) \subseteq Int /\ IsFiniteSet(BasesOf(s))
  <1>1. Items \subseteq Int /\ IsFiniteSet(Items) /\ ItemLimit \in Nat
    BY ItemsAreFinite DEF ItemList!ItemPagesAssumption
  <1>2. \A i \in Items :
          Inventories[s][i].bases \subseteq Nat /\ IsFiniteSet(Inventories[s][i].bases)
    <2>1. Inventories[s] \in [Items -> [quantity : Nat, craftable : Nat, bases : SUBSET Nat]]
      BY DEF ItemList!ItemPagesAssumption
    <2>2. \A i \in Items :
            Inventories[s][i] \in [quantity : Nat, craftable : Nat, bases : SUBSET Nat]
      BY <2>1
    <2> QED
      BY <2>2, ItemsAreFinite
  <1>3. ItemList!Listed(s) \subseteq Items
    <2> DEFINE K == {i \in Items : Inventories[s][i].quantity > 0 \/ i \in Made}
               known == ItemList!Ordered(K, <)
               k == ItemList!Min({ItemLimit, Len(known)})
    <2>1. K \subseteq Items /\ K \subseteq Int /\ IsFiniteSet(K)
      BY <1>1, FS_Subset
    <2> HIDE DEF K
    <2>2. Cardinality(K) \in Nat /\ known \in [1..Cardinality(K) -> K]
      BY <2>1, InOrder
    <2>3. ItemList!Candidates(s) = ItemList!Range(SubSeq(known, 1, k))
      BY DEF ItemList!Candidates, K
    <2> HIDE DEF known
    <2>4. Len(known) = Cardinality(K) /\ known \in Seq(K)
      BY <2>2
    <2>5. k \in 0..Len(known)
      <3>1. \A length \in Nat : ItemList!Min({ItemLimit, length}) \in 0..length
        <4> SUFFICES ASSUME NEW length \in Nat
                     PROVE  ItemList!Min({ItemLimit, length}) \in 0..length
          OBVIOUS
        <4>1. ItemList!Min({ItemLimit, length}) = IF ItemLimit <= length THEN ItemLimit ELSE length
          <5>1. ItemLimit \in Int /\ length \in Int
            BY <1>1
          <5> QED
            BY ONLY <5>1, LargerOf
        <4>2. ItemLimit \in Nat
          BY <1>1
        <4> QED
          BY <4>1, <4>2
      <3> QED
        BY <2>2, <2>4, <3>1
    <2> HIDE DEF k
    <2>6. \A x \in ItemList!Range(SubSeq(known, 1, k)) : x \in K
      BY <2>4, <2>5 DEF ItemList!Range
    <2> QED
      BY <2>1, <2>3, <2>6 DEF ItemList!Listed
  <1> DEFINE f == [i \in ItemList!Listed(s) |-> Inventories[s][i].bases]
             T == {Inventories[s][i].bases : i \in ItemList!Listed(s)}
  <1>4. f \in Surjection(ItemList!Listed(s), T)
    BY DEF Surjection
  <1>5. IsFiniteSet(T)
    <2>1. IsFiniteSet(ItemList!Listed(s))
      BY <1>1, <1>3, FS_Subset
    <2> HIDE DEF f, T
    <2> QED
      BY <1>4, <2>1, FS_Surjection
  <1>6. \A B \in T : IsFiniteSet(B) /\ B \subseteq Nat
    BY <1>2, <1>3
  <1>7. IsFiniteSet(UNION T) /\ UNION T \subseteq Int
    <2> HIDE DEF T
    <2> QED
      BY <1>5, <1>6, FS_UNION
  <1> QED
    BY <1>7 DEF BasesOf

\* Every base of a snapshot has a name, and no two bases have one name.
LEMMA BasesAreTold ==
  ASSUME ItemList!ItemPagesAssumption, NEW s \in DOMAIN Inventories, NEW q, NEW r,
         NEW before \in ItemList!BaseNames(s, q), NEW after \in ItemList!BaseNames(s, r)
  PROVE  before[1] = after[1] <=> before[2] = after[2]
  <1> DEFINE order == ItemList!Ordered(BasesOf(s), <)
             N == Cardinality(BasesOf(s))
  <1>1. Letters \in Nat \ {0}
    BY DEF ItemList!ItemPagesAssumption
  <1>2. /\ N \in Nat /\ order \in [1..N -> BasesOf(s)]
        /\ \A n \in 1..N, m \in 1..N : order[n] = order[m] => n = m
    BY BasesAreFinite, InOrder
  <1>3. /\ ItemList!BaseNames(s, q) = {<<order[n], ItemList!Name[n]>> : n \in DOMAIN order}
        /\ ItemList!BaseNames(s, r) = {<<order[n], ItemList!Name[n]>> : n \in DOMAIN order}
    BY DEF ItemList!BaseNames, BasesOf
  <1> HIDE DEF order, N
  <1>4. PICK n \in 1..N : before = <<order[n], ItemList!Name[n]>>
    BY <1>2, <1>3
  <1>5. PICK m \in 1..N : after = <<order[m], ItemList!Name[m]>>
    BY <1>2, <1>3
  <1>6. n \in Nat /\ m \in Nat
    BY <1>2
  <1>7. ItemList!Name[n] = ItemList!Name[m] => n = m
    BY <1>1, <1>6, NamesDiffer
  <1> QED
    BY <1>2, <1>4, <1>5, <1>7

\* A step from one page of a snapshot to another keeps the names.
LEMMA StepsKeepNames ==
  ASSUME ItemList!ItemPagesAssumption, TourInv, TourInv'
  PROVE  ItemList!NamesStay
  <1> SUFFICES ASSUME itemPage'.snapshot = itemPage.snapshot
               PROVE  \A before \in itemPage.names, after \in itemPage'.names :
                        before[1] = after[1] <=> before[2] = after[2]
    BY DEF ItemList!NamesStay
  <1>1. /\ itemPage.snapshot \in DOMAIN Inventories
        /\ itemPage.names \subseteq ItemList!BaseNames(itemPage.snapshot, itemQuery)
        /\ itemPage'.names \subseteq ItemList!BaseNames(itemPage.snapshot, itemQuery')
    BY DEF TourInv
  <1> QED
    BY <1>1, BasesAreTold

\* Whatever is filtered, linked to, published and asked for in an address: who follows
\* "next" from page one to the last page of one snapshot has seen everything that matches
\* exactly once and in order; the pager links to the neighbours of the page that is shown
\* and to no page there is not; and a base keeps its name on all pages of a snapshot, and
\* no two bases share one.
THEOREM PagesAddUp ==
  ASSUME ItemList!ItemPagesAssumption
  PROVE  /\ ItemList!Spec => [](ItemList!TourSeesAllOnce /\ ItemList!LinksLead)
         /\ ItemList!Spec => ItemList!NamesAgree
  <1>1. ItemInv /\ TourInv => ItemList!TourSeesAllOnce /\ ItemList!LinksLead
    BY TourIsComplete, ShownLinksLead DEF ItemInv
  <1>2. (ItemInv /\ TourInv) /\ (ItemInv /\ TourInv)' =>
          [ItemList!NamesStay]_(ItemList!vars)
    BY StepsKeepNames
  <1> QED
    BY <1>1, <1>2, TourInvHolds, PTL DEF ItemList!NamesAgree
=============================================================================
