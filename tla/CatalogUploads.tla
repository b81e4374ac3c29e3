--------------------------- MODULE CatalogUploads ---------------------------
(***************************************************************************)
(* Catalog packages on their way from an administrator's browser to the    *)
(* active catalog of a world: the upload form, the queue of validate and   *)
(* stage operations, the command workers that run them, and the actions on *)
(* the staged versions.  The buttons are those of a page that may be old.  *)
(***************************************************************************)
EXTENDS Naturals

CONSTANTS Uploads, Versions, Workers, None,
          Content,  \* Content[u]: the version the package of u holds, None if it is invalid
          MaxCrash  \* bound: crashes of workers

ContentAssumption == Content \in [Uploads -> Versions \cup {None}]

VARIABLES upload,  \* admin_catalog_uploads: status, stored object, staged_version_id
          op,      \* admin_catalog_operations: the last one of each upload
          version, \* game_data_versions: status
          imported,\* the versions whose import run is finalized
          active,  \* the world's active_game_data_version_id
          form,    \* what CatalogUploadGuard is doing for each upload
          worker,  \* what each worker is doing
          page,    \* the statuses the page of the administrator shows
          crashes
data == <<upload, op, version, imported, active>>
vars == <<upload, op, version, imported, active, form, worker, page, crashes>>

Live == {"pending", "processing"}
NoOp == [type |-> None, status |-> "none", by |-> None]
Idle == [step |-> "idle", u |-> None]

Init ==
  /\ upload = [u \in Uploads |-> [status |-> "none", stored |-> FALSE, version |-> None]]
  /\ op = [u \in Uploads |-> NoOp]
  /\ version = [v \in Versions |-> "none"] /\ imported = {} /\ active = None
  /\ form = [u \in Uploads |-> "initial"] /\ worker = [w \in Workers |-> Idle]
  /\ page = [upload |-> [u \in Uploads |-> "none"], version |-> version]
  /\ crashes = 0

-----------------------------------------------------------------------------
(* CatalogUploadGuard: a ticket, the object, then "ready".  Every request  *)
(* of the form has a fresh key, so that a form that fails starts again     *)
(* with another upload, and leaves this one behind.                        *)

Form(u, from, to) == form[u] = from /\ form' = [form EXCEPT ![u] = to]

CreateUpload(u) ==
  /\ Form(u, "initial", "ticket")
  /\ upload' = [upload EXCEPT ![u].status = "pending_upload"]
  /\ UNCHANGED <<op, version, imported, active, worker, page, crashes>>

\* Allowed by the storage policy while the upload is pending.
StoreObject(u) ==
  /\ Form(u, "ticket", "stored")
  /\ upload[u].status = "pending_upload"
  /\ upload' = [upload EXCEPT ![u].stored = TRUE]
  /\ UNCHANGED <<op, version, imported, active, worker, page, crashes>>

\* A status other than pending_upload is left as it is and reported as success.
MarkReady(u) ==
  /\ Form(u, "stored", "complete")
  /\ upload' = [upload EXCEPT ![u].status =
       IF @ = "pending_upload" /\ upload[u].stored THEN "uploaded" ELSE @]
  /\ UNCHANGED <<op, version, imported, active, worker, page, crashes>>

GiveUp(u) ==
  /\ form[u] \in {"ticket", "stored"} /\ form' = [form EXCEPT ![u] = "failed"]
  /\ UNCHANGED <<data, worker, page, crashes>>

-----------------------------------------------------------------------------
(* The page: the rows of one load of the workspace, and the buttons that   *)
(* follow from their statuses.                                             *)

Rows == [upload |-> [u \in Uploads |-> upload[u].status], version |-> version]

LoadPage ==
  /\ page' = Rows
  /\ UNCHANGED <<data, form, worker, crashes>>

ValidateShown(u) == page.upload[u] \in {"uploaded", "failed"}

StageShown(u) == page.upload[u] = "validated"

RejectShown(u) == page.upload[u] \notin {"none", "staging", "staged", "rejected"}

PublishShown(v) == page.version[v] = "validated"

RollbackShown(v) == page.version[v] = "published"

RejectVersionShown(v) == page.version[v] \in {"staging", "validated"}

-----------------------------------------------------------------------------
(* The actions of the route; the row of the upload or version is locked.   *)

\* Mutation: an operation is queued for what the page showed.
QueueOperationAsShown(u, type) ==
  /\ op' = [op EXCEPT ![u] = [type |-> type, status |-> "pending", by |-> None]]
  /\ upload' = [upload EXCEPT ![u].status = IF type = "validate" THEN "validating" ELSE "staging"]
  /\ UNCHANGED <<version, imported, active, form, worker, page, crashes>>

QueueOperation(u, type) ==
  /\ upload[u].status \in (IF type = "validate" THEN {"uploaded", "failed"} ELSE {"validated"})
  /\ op[u].status \notin Live
  /\ op' = [op EXCEPT ![u] = [type |-> type, status |-> "pending", by |-> None]]
  /\ upload' = [upload EXCEPT ![u].status = IF type = "validate" THEN "validating" ELSE "staging"]
  /\ UNCHANGED <<version, imported, active, form, worker, page, crashes>>

RejectUpload(u) ==
  /\ RejectShown(u) /\ upload[u].status \notin {"staging", "staged"}
  /\ upload' = [upload EXCEPT ![u].status = "rejected"]
  /\ UNCHANGED <<op, version, imported, active, form, worker, page, crashes>>

Publish(v) ==
  /\ PublishShown(v) /\ version[v] \in {"validated", "published"}
  /\ version' = [version EXCEPT ![v] = "published"] /\ active' = v
  /\ UNCHANGED <<upload, op, imported, form, worker, page, crashes>>

Rollback(v) ==
  /\ RollbackShown(v) /\ version[v] = "published" /\ active' = v
  /\ UNCHANGED <<upload, op, version, imported, form, worker, page, crashes>>

\* Mutation: a version is rejected for what the page showed of it.
RejectVersionAsShown(v) ==
  /\ RejectVersionShown(v)
  /\ version' = [version EXCEPT ![v] = "rejected"]
  /\ UNCHANGED <<upload, op, imported, active, form, worker, page, crashes>>

RejectVersion(v) ==
  /\ RejectVersionShown(v) /\ version[v] \in {"staging", "validated"} /\ active # v
  /\ version' = [version EXCEPT ![v] = "rejected"]
  /\ UNCHANGED <<upload, op, imported, active, form, worker, page, crashes>>

-----------------------------------------------------------------------------
(* The worker.  An operation claimed more than two minutes ago may be      *)
(* claimed again, whatever became of the worker that has it.               *)

Step(w, step) == worker' = [worker EXCEPT ![w].step = step]

\* Mutation: only pending operations are claimed.
ClaimPending(w, u) ==
  /\ worker[w] = Idle /\ op[u].status = "pending"
  /\ op' = [op EXCEPT ![u].status = "processing", ![u].by = w]
  /\ worker' = [worker EXCEPT ![w] = [step |-> "check", u |-> u]]
  /\ UNCHANGED <<upload, version, imported, active, form, page, crashes>>

Claim(w, u) ==
  /\ worker[w] = Idle /\ op[u].status \in Live
  /\ op' = [op EXCEPT ![u].status = "processing", ![u].by = w]
  /\ worker' = [worker EXCEPT ![w] = [step |-> "check", u |-> u]]
  /\ UNCHANGED <<upload, version, imported, active, form, page, crashes>>

\* The object is read, its hash compared and the catalog validated.
CheckPackage(w) ==
  /\ worker[w].step = "check"
  /\ LET u == worker[w].u IN
     Step(w, IF ~upload[u].stored \/ Content[u] = None THEN "fail"
             ELSE IF op[u].type = "stage" THEN "stage" ELSE "complete")
  /\ UNCHANGED <<data, form, page, crashes>>

\* Mutation: the import is not finalized.
BeginImportOnly(w) ==
  LET v == Content[worker[w].u] IN
  /\ worker[w].step = "stage"
  /\ version' = [version EXCEPT ![v] = IF @ = "none" THEN "staging" ELSE @]
  /\ Step(w, IF version[v] = "rejected" THEN "fail" ELSE "complete")
  /\ UNCHANGED <<upload, op, imported, active, form, page, crashes>>

\* begin_game_data_import and the batches.
BeginImport(w) ==
  LET v == Content[worker[w].u] IN
  /\ worker[w].step = "stage"
  /\ version' = [version EXCEPT ![v] = IF @ = "none" THEN "staging" ELSE @]
  /\ Step(w, IF version[v] = "rejected" THEN "fail" ELSE "finalize")
  /\ UNCHANGED <<upload, op, imported, active, form, page, crashes>>

\* Mutation: the import is finalized into whatever became of the version.
FinalizeAnything(w) ==
  LET v == Content[worker[w].u] IN
  /\ worker[w].step = "finalize"
  /\ version' = [version EXCEPT ![v] = IF v \in imported THEN @ ELSE "validated"]
  /\ imported' = imported \cup {v} /\ Step(w, "complete")
  /\ UNCHANGED <<upload, op, active, form, page, crashes>>

\* finalize_catalog_import: a run that is finalized already is left alone,
\* also when its version was rejected since.
FinalizeImport(w) ==
  LET v == Content[worker[w].u]  ok == v \in imported \/ version[v] = "staging" IN
  /\ worker[w].step = "finalize"
  /\ version' = [version EXCEPT ![v] = IF @ = "staging" THEN "validated" ELSE @]
  /\ imported' = IF ok THEN imported \cup {v} ELSE imported
  /\ Step(w, IF ok THEN "complete" ELSE "fail")
  /\ UNCHANGED <<upload, op, active, form, page, crashes>>

\* Mutation: who finishes the operation is not compared with who claimed it.
MineAnyway(w) == op[worker[w].u].status = "processing"

Mine(w) == op[worker[w].u].status = "processing" /\ op[worker[w].u].by = w

\* Mutation: a failed operation leaves the status of the upload.
FailOperationOnly(w) ==
  LET u == worker[w].u IN
  /\ worker[w].step = "fail"
  /\ op' = IF Mine(w) THEN [op EXCEPT ![u].status = "failed"] ELSE op
  /\ worker' = [worker EXCEPT ![w] = Idle]
  /\ UNCHANGED <<upload, version, imported, active, form, page, crashes>>

\* Not the claimant any more: CATALOG_OPERATION_CONFLICT, and the worker goes on.
Complete(w) ==
  LET u == worker[w].u  staging == op[u].type = "stage" IN
  /\ worker[w].step = "complete"
  /\ IF Mine(w)
     THEN /\ op' = [op EXCEPT ![u].status = "succeeded"]
          /\ upload' = [upload EXCEPT ![u].status = IF staging THEN "staged" ELSE "validated",
                                      ![u].version = IF staging THEN Content[u] ELSE @]
     ELSE UNCHANGED <<op, upload>>
  /\ worker' = [worker EXCEPT ![w] = Idle]
  /\ UNCHANGED <<version, imported, active, form, page, crashes>>

\* An upload whose staging failed can be staged again, one whose validation
\* failed can be validated again.
Fail(w) ==
  LET u == worker[w].u IN
  /\ worker[w].step = "fail"
  /\ IF Mine(w)
     THEN /\ op' = [op EXCEPT ![u].status = "failed"]
          /\ upload' = [upload EXCEPT ![u].status = IF op[u].type = "stage" THEN "validated" ELSE "failed"]
     ELSE UNCHANGED <<op, upload>>
  /\ worker' = [worker EXCEPT ![w] = Idle]
  /\ UNCHANGED <<version, imported, active, form, page, crashes>>

Crash(w) ==
  /\ worker[w] # Idle /\ crashes < MaxCrash
  /\ worker' = [worker EXCEPT ![w] = Idle] /\ crashes' = crashes + 1
  /\ UNCHANGED <<data, form, page>>

-----------------------------------------------------------------------------
WorkerStep(w) ==
  \/ CheckPackage(w) \/ BeginImport(w) \/ FinalizeImport(w) \/ Complete(w) \/ Fail(w)

AdminStep ==
  \/ LoadPage
  \/ \E u \in Uploads :
       \/ CreateUpload(u) \/ StoreObject(u) \/ MarkReady(u) \/ GiveUp(u)
       \/ ValidateShown(u) /\ QueueOperation(u, "validate")
       \/ StageShown(u) /\ QueueOperation(u, "stage")
       \/ RejectUpload(u)
  \/ \E v \in Versions : Publish(v) \/ Rollback(v) \/ RejectVersion(v)

Next ==
  \/ AdminStep
  \/ \E w \in Workers : WorkerStep(w) \/ Crash(w) \/ \E u \in Uploads : Claim(w, u)

Spec == Init /\ [][Next]_vars

\* The workers' loops go on.  The oldest operation is claimed first, once it
\* is pending or stale, so that none is passed over for ever.
Fairness ==
  \A w \in Workers : WF_vars(WorkerStep(w)) /\ \A u \in Uploads : SF_vars(Claim(w, u))

FairSpec == Spec /\ Fairness

-----------------------------------------------------------------------------
\* The variables keep their types, and a live operation is of an upload
\* that is in the storage.
TypeOK ==
  /\ \A u \in Uploads : upload[u].status \in
       {"none", "pending_upload", "uploaded", "validating", "validated", "staging", "staged", "failed", "rejected"}
  /\ \A u \in Uploads : op[u].status # "none" => upload[u].stored
  /\ active \in Versions \cup {None}

\* What a world uses is a published version and stays one: it is never
\* rejected, however old the page whose button was pressed.
ActiveIsPublished == active # None => version[active] = "published"

\* An upload that reads "staged" names a version whose import is complete.
StagedWasImported ==
  \A u \in Uploads : upload[u].status = "staged" => upload[u].version \in imported

\* "validating" and "staging" have an operation that will end: an upload
\* never waits for a worker that has nothing to do for it.
WaitsForAnOperation ==
  \A u \in Uploads :
    /\ upload[u].status = "validating" => op[u].status \in Live /\ op[u].type = "validate"
    /\ upload[u].status = "staging" => op[u].status \in Live /\ op[u].type = "stage"

\* A rejected version is never brought back by an import of the same content.
RejectedVersionStays ==
  [][\A v \in Versions : version[v] = "rejected" => version'[v] = "rejected"]_vars

\* The outcome of an operation is written by the worker that claimed it last.
OutcomeOfTheClaimant ==
  [][\A u \in Uploads : op[u].status = "processing" /\ op'[u].status \in {"succeeded", "failed"}
       => worker[op[u].by].u = u /\ worker'[op[u].by] = Idle]_vars

\* A rejected upload comes back in one way only: its rejection is undone by
\* the operation that was under way, whose outcome overwrites the status.
RejectionUndoneByItsOperation ==
  [][\A u \in Uploads : upload[u].status = "rejected" /\ upload'[u].status # "rejected"
       => op[u] = [type |-> "validate", status |-> "processing", by |-> op[u].by]
          /\ op'[u].status \in {"succeeded", "failed"}]_vars

\* Whatever administrators decide while an operation runs or after its worker
\* died: what worlds use stays published, what reads staged was imported, what
\* waits is waited for, and only its claimant ends an operation.
CatalogIsSound ==
  /\ [](ActiveIsPublished /\ StagedWasImported /\ WaitsForAnOperation)
  /\ RejectedVersionStays /\ OutcomeOfTheClaimant /\ RejectionUndoneByItsOperation

\* Every operation ends although workers crash with it.
OperationsEnd == \A u \in Uploads : op[u].status \in Live ~> op[u].status \notin Live
=============================================================================
