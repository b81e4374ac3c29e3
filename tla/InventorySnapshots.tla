------------------------- MODULE InventorySnapshots -------------------------
(***************************************************************************)
(* The inventory snapshots of one world, and the three kinds of database   *)
(* transaction that meet on them: an upload publishes a snapshot, a player *)
(* creates a breeding job pinned to the latest one, and the retention      *)
(* purges the contents of superseded ones.                                 *)
(*                                                                         *)
(* What keeps them apart is the row lock on the world: a creator shares    *)
(* it, a publisher and the retention exclude everybody, and the retention  *)
(* passes over a world that is locked.  A transaction is therefore more    *)
(* than one step here: it takes its lock and reads, and a later step       *)
(* writes and commits.  A statement that waits for a lock is an action     *)
(* that is not enabled.                                                    *)
(*                                                                         *)
(* The rows of jobs are those of BreedingJobs; a request is a user and the *)
(* snapshot its job is pinned to (the fingerprint covers the snapshot; the *)
(* rest of it, the target and the options, is one choice per user).        *)
(***************************************************************************)
EXTENDS BreedingJobs

CONSTANTS Users,         \* players who create jobs
          SnapshotIds,   \* primary keys of inventory_snapshots
          Contents,      \* save hash and parser version of an upload
          SourceTimes,   \* when the game wrote a save
          Publishers,    \* concurrent uploads
          Creators,      \* concurrent calls that create a job
          Cleaner        \* the retention call

ASSUME RequestAssumption == Requests = Users \X SnapshotIds
ASSUME TimesAssumption == SourceTimes \subseteq Nat
ASSUME ClientAssumption ==
  /\ None \notin SnapshotIds \cup Contents \cup Publishers \cup Creators \cup {Cleaner}
  /\ Cleaner \notin Publishers

SnapshotOf(request) == request[2]

VARIABLES content,    \* what each published snapshot holds, None before
          purged,     \* snapshots whose payload is deleted
          old,        \* snapshots older than 30 minutes
          latest,     \* worlds.latest_snapshot_id
          sourceTime, \* worlds.inventory_source_modified_at
          sharers,    \* creators that hold the world row FOR SHARE
          locker,     \* the transaction that holds it FOR UPDATE
          upload,     \* what each publisher is at
          creating,   \* what each creator is at
          doomed,     \* what the retention has selected
          requeued    \* history: jobs an administrator queued again

worldVars == <<content, purged, old, latest, sourceTime>>
txnVars == <<sharers, locker, upload, creating, doomed>>
vars == <<jobVars, worldVars, txnVars, requeued>>

NoUpload   == [content |-> None, time |-> 0, seen |-> 0, existing |-> None]
NotStarted == [at |-> "idle", request |-> None]

Init ==
  /\ JobInit
  /\ content = [s \in SnapshotIds |-> None]
  /\ purged = {} /\ old = {}
  /\ latest = None /\ sourceTime = 0
  /\ sharers = {} /\ locker = None
  /\ upload = [p \in Publishers |-> NoUpload]
  /\ creating = [c \in Creators |-> NotStarted]
  /\ doomed = {}
  /\ requeued = {}

-----------------------------------------------------------------------------
\* private.publish_inventory_snapshot
Published == {s \in SnapshotIds : content[s] # None}
Readable == Published \ purged

\* The unpurged snapshot with this content, if there is one.
Existing(c) == IF \E s \in Readable : content[s] = c
               THEN CHOOSE s \in Readable : content[s] = c ELSE None

\* Mutation: the world is read without FOR UPDATE.
BeginPublishUnlocked(p) ==
  /\ upload[p] = NoUpload
  /\ \E c \in Contents, t \in SourceTimes :
       upload' = [upload EXCEPT ![p] =
         [content |-> c, time |-> t, seen |-> sourceTime, existing |-> Existing(c)]]
  /\ UNCHANGED <<jobVars, worldVars, sharers, locker, creating, doomed, requeued>>

\* The world is locked and read; nothing that is read later changes before
\* the commit.
BeginPublish(p) ==
  /\ upload[p] = NoUpload
  /\ locker = None /\ sharers = {}
  /\ locker' = p
  /\ \E c \in Contents, t \in SourceTimes :
       upload' = [upload EXCEPT ![p] =
         [content |-> c, time |-> t, seen |-> sourceTime, existing |-> Existing(c)]]
  /\ UNCHANGED <<jobVars, worldVars, sharers, creating, doomed, requeued>>

IsStale(u) == u.time < u.seen   \* INVENTORY_SNAPSHOT_STALE

EndPublish(p) ==
  /\ upload' = [upload EXCEPT ![p] = NoUpload]
  /\ locker' = IF locker = p THEN None ELSE locker
  /\ UNCHANGED <<jobVars, purged, old, sharers, creating, doomed, requeued>>

\* Mutation: known contents are recognised before the age of the save is looked at.
RepublishAnyAge(p) ==
  /\ upload[p].existing # None
  /\ latest' = upload[p].existing
  /\ sourceTime' = upload[p].time
  /\ UNCHANGED content
  /\ EndPublish(p)

\* A content that is known already becomes the latest snapshot again.
Republish(p) ==
  /\ upload[p].existing # None
  /\ ~IsStale(upload[p])
  /\ latest' = upload[p].existing
  /\ sourceTime' = upload[p].time
  /\ UNCHANGED content
  /\ EndPublish(p)

Publish(p) ==
  /\ upload[p].content # None
  /\ upload[p].existing = None
  /\ ~IsStale(upload[p])
  /\ \E s \in SnapshotIds \ Published :
       /\ content' = [content EXCEPT ![s] = upload[p].content]
       /\ latest' = s
  /\ sourceTime' = upload[p].time
  /\ EndPublish(p)

\* The save is stale, its drop in numbers needs a review, or a check fails.
RejectUpload(p) ==
  /\ upload[p].content # None
  /\ UNCHANGED <<content, latest, sourceTime>>
  /\ EndPublish(p)

-----------------------------------------------------------------------------
\* create_breeding_job_v2

\* The world is locked FOR SHARE and the latest snapshot pinned; without one
\* the call fails at once.
BeginCreate(c) ==
  /\ creating[c] = NotStarted
  /\ locker = None
  /\ latest # None
  /\ sharers' = sharers \cup {c}
  /\ \E u \in Users :
       creating' = [creating EXCEPT ![c] = [at |-> "read", request |-> <<u, latest>>]]
  /\ UNCHANGED <<jobVars, worldVars, locker, upload, doomed, requeued>>

EndCreate(c) ==
  /\ creating' = [creating EXCEPT ![c] = NotStarted]
  /\ sharers' = sharers \ {c}
  /\ UNCHANGED <<worldVars, locker, upload, doomed, requeued>>

\* A live job for the request is found and returned.
Reuse(c) ==
  /\ creating[c].at = "read"
  /\ HasLiveJob(creating[c].request)
  /\ UNCHANGED jobVars
  /\ EndCreate(c)

Miss(c) ==
  /\ creating[c].at = "read"
  /\ ~HasLiveJob(creating[c].request)
  /\ creating' = [creating EXCEPT ![c].at = "insert"]
  /\ UNCHANGED <<jobVars, worldVars, sharers, locker, upload, doomed, requeued>>

\* The insert waits for another insert of the same request, so inserting and
\* committing are one step.
InsertJob(c) ==
  /\ creating[c].at = "insert"
  /\ \E j \in JobIds : Insert(j, creating[c].request)
  /\ EndCreate(c)

\* on conflict do nothing
Conflict(c) ==
  /\ creating[c].at = "insert"
  /\ HasLiveJob(creating[c].request)
  /\ creating' = [creating EXCEPT ![c].at = "reselect"]
  /\ UNCHANGED <<jobVars, worldVars, sharers, locker, upload, doomed, requeued>>

\* The other job is returned, or JOB_CREATE_CONFLICT if it has ended meanwhile.
Reselect(c) ==
  /\ creating[c].at = "reselect"
  /\ UNCHANGED jobVars
  /\ EndCreate(c)

-----------------------------------------------------------------------------
\* cleanup_expired_inventory_snapshot_payloads

\* Mutation: only the snapshots are locked, not the world.
SelectExpiredUnlocked ==
  /\ doomed = {}
  /\ \E S \in SUBSET ((Readable \cap old) \ {latest}) : S # {} /\ doomed' = S
  /\ UNCHANGED <<jobVars, worldVars, sharers, locker, upload, creating, requeued>>

\* A batch of superseded snapshots is selected; skip locked: not while any
\* other transaction has the world.
SelectExpired ==
  /\ doomed = {}
  /\ locker = None /\ sharers = {}
  /\ \E S \in SUBSET ((Readable \cap old) \ {latest}) : S # {} /\ doomed' = S
  /\ locker' = Cleaner
  /\ UNCHANGED <<jobVars, worldVars, sharers, upload, creating, requeued>>

\* Mutation: the jobs are left to find out.
PurgeOnly ==
  /\ doomed # {}
  /\ purged' = purged \cup doomed
  /\ doomed' = {}
  /\ locker' = IF locker = Cleaner THEN None ELSE locker
  /\ UNCHANGED <<jobVars, content, old, latest, sourceTime, sharers, upload, creating, requeued>>

\* Its jobs are failed, its payload is deleted, the transaction commits.
Purge ==
  /\ doomed # {}
  /\ ExpireInputs({r \in Requests : SnapshotOf(r) \in doomed})
  /\ purged' = purged \cup doomed
  /\ doomed' = {}
  /\ locker' = IF locker = Cleaner THEN None ELSE locker
  /\ UNCHANGED <<content, old, latest, sourceTime, sharers, upload, creating, requeued>>

-----------------------------------------------------------------------------
\* The rest of the queue, as far as it matters here: jobs are claimed and end.
\* get_breeding_inventory_for_agent refuses a purged snapshot for good.
Worked(j, w) ==
  LET t == jobs[j].lease
  IN  \/ Claim(j, w)
      \/ Fail(j, w, t, FALSE)
      \/ /\ Live(j)
         /\ SnapshotOf(jobs[j].request) \notin purged
         /\ Complete(j, w, t) \/ Fail(j, w, t, TRUE)

QueueStep ==
  /\ \E j \in JobIds, w \in Workers : Worked(j, w)
  /\ UNCHANGED <<worldVars, txnVars, requeued>>

\* An administrator retries a failed job, even one whose snapshot is gone.
Requeue(j) ==
  /\ AdminRetry(j)
  /\ requeued' = requeued \cup {j}
  /\ UNCHANGED <<worldVars, txnVars>>

\* Thirty minutes have passed since s was created.
GrowOld(s) ==
  /\ s \in Published \ old
  /\ old' = old \cup {s}
  /\ UNCHANGED <<jobVars, content, purged, latest, sourceTime, txnVars, requeued>>

EndRead(c) == Reuse(c) \/ Miss(c)
EndInsert(c) == InsertJob(c) \/ Conflict(c)

Next ==
  \/ \E p \in Publishers : BeginPublish(p) \/ Republish(p) \/ Publish(p) \/ RejectUpload(p)
  \/ \E c \in Creators : BeginCreate(c) \/ EndRead(c) \/ EndInsert(c) \/ Reselect(c)
  \/ SelectExpired \/ Purge
  \/ QueueStep
  \/ \E j \in JobIds : Requeue(j)
  \/ \E s \in SnapshotIds : GrowOld(s)

Spec == Init /\ [][Next]_vars

-----------------------------------------------------------------------------
\* The lock of the world row, and who is inside.
LocksOK ==
  /\ sharers \subseteq Creators
  /\ locker \in Publishers \cup {Cleaner, None}
  /\ locker # None => sharers = {}
  /\ \A c \in Creators : c \in sharers <=> creating[c].at # "idle"
  /\ \A p \in Publishers : locker = p <=> upload[p] # NoUpload
  /\ locker = Cleaner <=> doomed # {}

\* The latest snapshot of the world is always there to be read, whatever is
\* published again or purged at the same time.
LatestReadable == latest # None => latest \in Readable

\* A live job can load the inventory it is pinned to: no job is created on a
\* snapshot that is being purged, and no purge leaves one behind.  The only
\* exception is a job an administrator queues again after its inventory expired.
LiveJobsCanLoad ==
  \A j \in JobIds : Live(j) /\ j \notin requeued => SnapshotOf(jobs[j].request) \in Readable

\* Whatever order the row lock lets uploads, creators and the retention in,
\* the retention removes nothing that the site or a worker still reads.
NothingNeededIsPurged == LatestReadable /\ LiveJobsCanLoad

\* No content is kept twice, so the unique index never rejects an upload.
OneCopyPerContent ==
  \A s, t \in Readable : s # t => content[s] # content[t]

\* An upload that was delayed never replaces the inventory of a later save.
NewestSaveWins == [][latest' # latest => sourceTime' >= sourceTime]_vars
=============================================================================
