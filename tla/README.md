# A verification of PalHatchHelper

PalHatchHelper plans breeding in Palworld: it reads the saves of a game server,
keeps the inventory of its players, and calculates breeding routes for them.
This directory holds TLA+ models of the parts of it where several actors meet,
the TLC configurations that check them on small instances, and proofs, checked
by TLAPS, of what the models promise for every instance.

Contents: [the system](#the-system), [modules](#modules), [runs](#runs),
[bounds](#bounds), [fairness](#fairness), [proofs](#proofs),
[what does not hold](#what-does-not-hold), [not modelled](#not-modelled),
[running it](#running-it).

## The system

All lasting state is in a PostgreSQL database (Supabase). Almost every change
goes through a `security definer` function in `supabase/migrations/`; such a
call is one transaction. The functions are called by

- the **Agent** (`apps/agent`, Python), which runs as four processes under
  docker: an API, a *job worker*, a *save worker* and a *command worker*;
- the **web application** (`apps/web`, Next.js), for players and
  administrators, whose pages are state of their own: they may be old, and
  their requests are answered late, in any order or not at all;
- the **sync CLI** (`apps/sync`, TypeScript), through the web application, for
  servers that upload their saves from outside.

| Component | State it keeps | What is hard | What makes it correct | Modules |
|---|---|---|---|---|
| Breeding job queue | `breeding_jobs` (status, holder, lease token, heartbeat, attempts), `breeding_plans` | calls of holders that lost their lease, reaping, retries against the unique index, attempt limits | only the present lease writes; a queued row can be claimed; one live job per request; finished rows stay | `FencedLease`, `BreedingJobs` |
| Job worker | the outstanding call, heartbeat task, handler, stop event | timers against the lease, answers lost or late, SIGTERM, crashes, several workers in one process | the handler stops before its lease can be taken; a completed job has the results of one attempt; every job ends | `JobWorkers` |
| Inventory snapshots | `worlds.latest_snapshot_id`, `inventory_snapshots` | row locks FOR SHARE and FOR UPDATE, SKIP LOCKED | what the site and live jobs read is never purged; one copy per content; the newest save wins | `InventorySnapshots` |
| Public sync | `sync_pairing_codes`, `sync_devices`, `worlds` | codes used twice, two first uploads, revocation during an upload | requests take effect at once; one device per code; one owner per world; a revoked device is silent | `SyncServer`, `PublicSync` |
| Sync CLI | the configuration file, the copy of a save, the parser's process | retries of what was done, a save that is being written, a parser that hangs, a file two processes share | what is not sent again is what the server has; a copy is one moment of the save; one outcome per parse; nothing is shared that nobody can explain | `SyncClient`, `SaveSnapshot`, `ParserProcess`, `PublishPayload` |
| World transition | the UIDs in seven tables, a backup of them | devices, uploads, players and preferences that come between the move and the way back | all players of a world have UIDs of one form, keep their row and their choices | `WorldTransition` |
| Bindings and invitations | `player_bindings`, invitations, devices | two users and one player, a link that is replaced, an administrator with an old page | a player has one user; one link can be used; a withdrawn link binds nobody | `PlayerBindings`, `DeviceCard` |
| Steam sign-in | auth users, profiles, identities, cookies | an account made by three calls to two services, each of which may fail after it was executed | a Steam account leads to one user, who is not cleaned away | `SteamSignIn` |
| Runtime settings | `runtime_settings_versions` | requests of old pages, the wait for a lock that shows an old row | each version is one change of the one before it | `RuntimeSettings` |
| Administrator commands | `agent_commands`, their results | a lease nobody renews, no token, action and report are two calls | what is reported is so and stays so | `AgentCommands` |
| Game catalog | versions, uploads, operations, the active version | operations claimed again after a crash, decisions of administrators meanwhile | what worlds use stays published; an upload waits only for what will end | `CatalogUploads`, `Transactions` |
| The way in | the cookies and the address of a window, sessions, the confirmation mail | middleware and layouts that look at different moments and read a failed call differently, a destination carried over forms, cookies and mails | redirects end; who comes in gets the page that was asked for; nobody sees a page of another's | `Entrance` |
| Tables | 60 tables and their foreign keys | inserts and deletions in the right order, a retention over ten tables | no statement is refused; nothing that should go stays, nothing saved goes | `Schema`, `Transactions` |
| Breeder pages | the form, the page of a job, the tree of a route, the saved plans | answers out of order, two tabs, lists that change between their pages | what opens is what was asked for; the page comes to the job's status | `BreederForm`, `JobView`, `BreedingTree`, `RouteSaves`, `PlanPages` |
| Pals and items | lists, filters, switches, samples, the crafting search | snapshots published between two requests, a search over a function that is not monotone | every list is whole, no value is shown that never was, plans balance | `PalPages`, `PalFilterForm`, `ItemPages`, `ItemTrend`, `ItemCapacity` |
| Save worker, breeding engine, parser, extractor, AI providers, contracts | | | | [not modelled](#not-modelled) |

How they interact: the web application creates jobs (rows), the job worker
polls for them; the save worker and the sync CLI publish snapshots, which jobs
pin at creation; the retention fails the jobs of the snapshots it purges;
administrators reach into all of it by commands and operations, which the
command worker polls for. Nobody calls a worker: rows, locks and leases are the
only means of coordination, and that is what the models are about.
`PROJECT.json` lists the hazards of this, each at its line, with the properties
that would catch it.

## Modules

### The queue and its users

**`FencedLease`** is the abstract specification. A resource is held by at most
one lease, leases are tokens that only grow, only the holder writes results, and
a sealed resource does not change.

**`BreedingJobs`** has one action per database function. `jobs[j]` is the row,
`plans[j][r]` the lease that last wrote result `r` of job `j`. `Owns` is the
guard `locked_by = ... and lease_token = ... and status in (...)` that all calls
of a worker share. Lease tokens, random UUIDs in the code, are the number of the
claim that drew them: both are fresh, and the code only compares them for
equality. `heartbeat_at` is kept as the age of the last heartbeat, `Tick` makes
it older. Who calls is left open: any worker may call on any job with any token
ever drawn, which includes every late or repeated call. `FencedQueue` is the
refinement of `FencedLease`.

**`JobWorkers`** extends it with the Agent's side: `doing` is where
`JobWorker.run` and the Phase 6 handler are, `call` the outstanding request,
`beat` the heartbeat task. Completing a job that is completed already succeeds
(`EndedAlready`), and a plan whose routes differ from those that an earlier attempt
left at their ranks is refused by the unique constraint on plan and rank
(`MayMisfit`). A call is sent, executed and answered in separate
steps; a client gives up at the latest after `RequestTimeout`, and what it leaves
behind (`strays`) is executed later or never. The workers of a host are tasks
of one `asyncio.TaskGroup`, so a refused report, which `run` raises, ends all of
them (`HostDies`), and docker starts the process again. `TimePasses` is one
tick; it does not happen while a timer is due, because the event loop runs what
is ready first.

**`InventorySnapshots`** composes the queue with the transactions that meet on
the row of a world. A transaction is split where it waits for or holds the row
lock: `BeginPublish`, `BeginCreate` and `SelectExpired` take it and read,
`Publish`, `Republish`, `InsertJob`, `Purge` and so on write and commit.

**`AgentCommands`** composes the queue with `agent_commands` and the command
worker. Several processes may have one name, because a new deployment has the
`WORKER_ID` of the old one. The retry, cancel and reap commands act on the queue
through `AdminRetry`, `AdminCancel` and `AdminReap`.

### Public synchronization

**`SyncServer`** states what the API promises as if every request were carried
out at once. **`PublicSync`** has the transactions statement by statement, with
the row locks on codes, devices and worlds, and the insert of a world that waits
for another one that is not committed; it implements `ServerSpec`.
**`SyncClient`** is the command line client (`init`, `run`, `sync --once`,
`logout`) over `SyncServer`: processes that share a configuration file, and send
a request up to three times; one that is given up may still be carried out later.
`accepted` is an auxiliary variable, what the server has accepted of whom.

**`SaveSnapshot`** is the listing of a save, file by file, and its copy by three
looks at what `lstat` tells, with a game that writes, renames, creates and deletes
meanwhile and a clock that is coarser than the writes. The looks are at what was
listed: a player file that is created after the listing is neither copied nor
noticed. The copy is of one moment (`ConsistentCut`), and what it lacks was not
there all the time since the listing began (`LeftOutIsNew`). **`ParserProcess`** is
the child process with its timer, its pipe and a helper that may hold it.
**`PublishPayload`** is what the client makes of a parsed save, and what the server
accepts: a shared pal has its guild and owner published with it, an unshared one
says why, and no uid of the save is left where `assertPublicSyncPayload` looks for
one. Owners of pals that are not shared, bases and stacks that were not found may
refer to what is not published, as in the code.

**`WorldTransition`** moves a world from raw to redacted UIDs and back. A UID is
a pair of what it names and its form. Refusals for reasons outside the module
(processing jobs, a recent heartbeat of the save worker) are steps that are not
taken; players stand for guilds, which are treated alike.

### Accounts

**`PlayerBindings`**: the owner of a device claims a player, a guest accepts an
invitation, administrators create, change and delete. Each transaction is cut
where it takes or waits for a lock: the creation of a link locks the row of the
device (`FindDevice`), withdraws the links that it sees, waiting for theirs
(`WithdrawOlder`), and inserts its own; without the first lock two creations
would both leave a link. **`DeviceCard`** is the account page of all
this, with requests that are answered in any order. **`SteamSignIn`** has the
state cookie and the calls that make, link and clean up an account. `via`,
`started`, `left` and `unsure` are auxiliary: what a session was opened with, why
a start was made, and which users were left over because a call was not answered
or the clean-up failed.

**`Entrance`** follows one window: `middleware.ts`, the layouts of the workspace and
of the administration, the forms for signing in and registering, the confirmation
mail. Other windows, which share the cookies, and other devices are sessions that
open and end at any moment (`Elsewhere`). A destination is a page and the locales
its path begins with: `SafeNextPath`, `LoginDestination` and `Localized` are the
three functions that look at it on its way. The middleware takes a failed call of
the accounts for no user, the layouts for an error. `hops`, `trouble`, `wanted`,
`switched` and `entered` of the window are auxiliary. Of `SteamSignIn` only where it
leads to is here.

### Administration

**`RuntimeSettings`**: pages, the switch, the rollback and the requests they
send. The inputs of the form are uncontrolled, so a refresh changes only those
that were not touched. **`CatalogUploads`**: the upload form, the operations and
the workers that claim them, the buttons of a page that may be old.

**`Schema`** lists the tables, what a row of each requires, and what the statements
do under the foreign keys: an `INSERT` of a row, a `DELETE` of all rows of a table
with given numbers (cascades included), an `UPDATE` of a key. **`Transactions`** has
the functions that insert and delete, one transaction each.

### Pages

**`BreederForm`** (form, route, `create_breeding_job_v2` and the trigger by which
the runtime settings refuse a job, which the form knows nothing of), **`JobView`**
(the poll every two seconds, of a job that is tried again and whose plan is replaced
as far as the unique constraint on plan and rank allows), **`BreedingTree`**
(`buildBreedingTree` and the layout), **`RouteSaves`** and **`PlanPages`** (saving
plans and listing them by cursor), **`PalPages`** and **`PalFilterForm`** (the list
of pals, its switches, filters and links), **`ItemPages`**, **`ItemTrend`** and
**`ItemCapacity`** (the list of items, the samples of the last hour, what can be
crafted). The pure algorithms among them are operators over bounded inputs
(`BreedingTree`, `ItemCapacity`, `PageTokens`), run step by step where the code
keeps state between the steps. `RouteSaves` takes the answers to come in the order
of execution; the order in which requests are executed is free.

### Composition

**`MC*`** modules give the bounds and the instances. `MCSync`, `MCAccounts`,
`MCAdministration`, `MCInventorySnapshots`, `MCPages` and `MCProgress` each hold
several modules: the variable `part` says which of them a behaviour is of, and the
others stay at their initial states. Modules that do interact share their
variables: in `MCSync` the codes, devices and worlds of `PublicSync` and of
`SyncClient` are one server, whose `ServerPromises` both must keep;
`AgentCommands` and `InventorySnapshots` extend the queue. The proof modules
`PublicSync_proofs`, `PlayerBindings_proofs`, `Administration_proofs` and
`Pages_proofs` extend the MC module of their run, so that a theorem is about the
instances, and names the properties, that the run has; of its constants and its
`MCNext` they use nothing.

Each of the specification modules also defines a few operators marked
`Mutation`. None of them is part of the specification. Each is what a definition
would be after a plausible bug, and shows that a property can fail: put in the
place of the definition it varies, it makes TLC report the property that
`PROJECT.json` names with it. A property that is a conjunction has one for each
conjunct.

## Runs

| Run | Instance | What it shows |
|---|---|---|
| `breeding_jobs` | 2 jobs, 2 workers, 2 requests, 2 attempts, ages to 2, 5 claims | Whatever its callers do, the rows are consistent (`RowsAreConsistent`), no call turns a job back (`GoesForward`), and the queue implements `FencedLease`. |
| `worker_timing` | 2 hosts with a reaper each, 1 job, 2 attempts; interval 1, timeout 1, margin 2, lease 5; a stray; a crash or an intervention | Handlers stop in time, never collide (`NoCollision`) while no administrator reaches in, and complete only what their own attempt wrote (`CompletedIsWhole`). |
| `worker_liveness` | 1 host with 2 workers, 2 attempts, a crash or a SIGTERM | Jobs end, and processes stop. |
| `inventory_snapshots` | 3 snapshots of 2 contents and 2 times, 2 uploads, 2 creators, 2 users, 2 jobs, 2 claims; parts: snapshots, items, trend, capacity | The row lock keeps uploads, creators and the retention apart (`NothingNeededIsPurged`, `OneCopyPerContent`, `NewestSaveWins`); `ItemsAddUp` of the pages of items. |
| `sync` | parts: transition, server, client, copy, parser, redaction | `OneForm`, `ChoicesComeAlong`, `PlayersKeepTheirRow` of the transition; `ServerPromises`, also as the refinement; `UnchangedIsTrue` of the client; `SnapshotIsWhole`, `ParserOutcome`, `PayloadAgrees`. |
| `accounts` | parts: links, administrators, card, steam, entrance | The four properties of bindings; `CardIsTrue`; `AccountsHold`; `EntranceHolds`. |
| `administration` | parts: settings, commands, catalog, tables | `SettingsAreSerial`, `CommandsAreTrue`, `CatalogIsSound`, `TablesHold`. |
| `pages` | parts: two tabs, one tab, tree, view, saves, plans, pals, switches, filters, scrolling | `FormIsServed`, `TreeIsTrue`, `JobPageAgrees`, `ListsAreWhole`. |
| `progress` | parts: client, parser, card, view, form, catalog, commands | `ClientProgresses`, `PagesSettle`, `WorkersEnd`: what must happen does. |
| `slow_reply`, `command_restart`, `sync_client_shared` | as small as shows it | [what does not hold](#what-does-not-hold) |

A property of these that is a conjunction is defined, with its conjuncts and what
each says, at the end of the module it is about.

Deadlock is not checked: an idle system with nothing to claim, or whose bounds
are used up, may stop.

## Bounds

Every constant named `Max...` is a bound of the model and not of the code, except
`MaxAttempts`, the column `max_attempts` of the jobs, and `MaxPolls`,
`MaxBatches`, `MaxNodes`, `MaxSkills`, which are limits of the code with smaller
values. The MC modules name the bounds they add.

*Queue*: a second job and request are needed for the unique index, a second
worker for a stale holder; five claims let one job be claimed again after its
attempts were given back and fail for good while another goes on. Ages to 2 put
a row on either side of both thresholds (the reaper's, any, and the
administrator's, 1).

*Workers*: what matters of the times is their order, and `worker_timing` takes
the smallest ones with timeout < margin and interval + timeout + margin < lease.
A stray and a mishap meet every state there is; `OneMishap` leaves out that a
process dies *and* an administrator intervenes. One job suffices because workers
meet only on a job.

*Snapshots*: three are one being replaced, one replacing and one purged; two of
everything that can race with its own kind. Items: nine in two stocks, on pages
of one and of four; five recipe books (shared parts, alternatives, denied
ingredients, cycles, chains) with stocks to three.

*Public sync*: two codes, two devices, two worlds and two requests in the server,
the fewest for every pair of transactions to meet on every kind of row, also
when one device sends twice. A client has two saves, two versions of the parser,
one lost or delayed request and times 1 and 2; restoring a backup needs no more.
A copy has three files, two of which any write may create, two writes and a clock
that ticks twice. The transition has two players, two pals and one device.

*Accounts*: two users and two players, two links, and two administrators; an
administrator's form needs one link beside it. Steam: two accounts, two browsers,
two users to be made and two failures, so that a clean-up may fail after the call
it cleans up for. The way in: two sessions, an administrator and a newcomer, one
failed call; a window may be sent to and fro by any of them, and every address there
is can be visited.

*Administration*: three versions of the settings by two pages, the second of
which is the switch; two commands, because claiming one expires another, and two
processes, because one may come back to what the other took over; two uploads of
one content, so that they meet on one version (invalid packages are in `progress`);
two snapshots and their numbers in all tables.

*Pages*: two tabs with one pal, or one tab with all values of the fields; routes
of three steps; plans of up to two routes that are ready or not, two attempts, two
polls per timer, two answers under way and one reload, so that an answer of the
first attempt can arrive after the end of the second; three saved plans on pages of
one;
two catalogues and two snapshots of five pals on pages of two.

## Fairness

`Fairness` of `JobWorkers` assumes weak fairness of the clock, of what the event
loop has ready, of the end of every call (answer or timeout: `httpx` and
`asyncio.wait_for` see to it), and of docker's restart (`restart:
unless-stopped`). It assumes strong fairness of two things: the execution of a
claim, and the reaper's. Both are tried again at every poll, so this says that
the database is not unreachable at every single try for ever. Nothing is
assumed of any other call: each may be lost each time. Creating jobs, signals,
crashes, administrators and the search's result are free.

`progress` takes the fairness each module states for its part:

- *client*: a process goes on (`Step`), requests are answered or given up. The
  faults that the server and the network have are bounded, so a call that is
  tried again in every cycle succeeds in the end.
- *parser*: the client's own steps. Of the child nothing is assumed, which is
  why `HangEnds` excludes a forked helper on Windows.
- *card*: a request is served or fails, and a reply is taken by the page.
- *view*: the interval of the browser fires and every request ends. Nothing is
  assumed of the job. Of a job that failed the page keeps what it last had; the
  code does not watch it any more.
- *form*: the server's steps for a submission.
- *catalog*: a worker goes on with what it has (weak), and claims (strong: its
  claims compete with those of other workers and it tries again at every poll).
- *commands*: a running process polls, carries out and reports; docker starts
  one that ended; time passes.

No liveness is claimed of `InventorySnapshots`: creators share the lock of the
world and the retention passes over a locked one, so it may be kept waiting.

## Proofs

The theorems hold for all values of the constants, however many jobs, workers,
tabs, players, files or versions there are.

| Module | Theorem | States |
|---|---|---|
| `BreedingJobs_proofs` | `TypeCorrect` | `[]TypeOK`, with the lock and lease constraints of the table |
| | `RowsStayConsistent` | `[]RowsAreConsistent` |
| | `JobsGoForward` | `GoesForward` |
| | `QueueIsFenced` | `FencedQueue`: the queue implements `FencedLease` |
| | `LeasesAreFenced`, `ResultsGrow`, `SealsStay` | what the abstract specification is for: no two resources under one lease, no result newer than the holder's, results never replaced by older ones, sealed resources left alone |
| | `QueueLeasesFence`, `QueueResultsGrow` | what follows of the queue by the refinement |
| `JobWorkers_proofs` | `WorkersAreFenced` | `FencedQueue`, of the whole system: with its workers it implements `FencedLease` |
| | `HandlersWatchTheirLease` | a handler runs under a lease no longer than the safe window, one request and the grace, whatever the times |
| | `HandlersStopInTime`, `HandlersDoNotCollide` | `[]HandlerStopsBeforeLease`, `[]NoCollision`, each under a condition on the times |
| | `CompletedJobsAreWhole` | `CompletedIsWhole` |
| `InventorySnapshots_proofs` | `NeededIsKept`, `ContentsAreDistinct`, `NewestSaveStays` | `[]NothingNeededIsPurged`, `[]OneCopyPerContent`, `NewestSaveWins` |
| | `TrendIsSeen`, `PagesAddUp` | `[]ChangeIsObserved` of `ItemTrend`; `[](TourSeesAllOnce /\ LinksLead)` and `NamesAgree` of `ItemPages`: the parts of `ItemsAddUp` but `PlansAreSound` |
| `AgentCommands_proofs` | `CommandsStayTrue` | `CommandsAreTrue` |
| `PublicSync_proofs` | `PromisesAreKept` | what `SyncServer` promises of a world's owner, a code's device and a revoked device |
| | `LocksAreHeld`, `RequestsAreAtomic` | a transaction writes to what it has read or locked, so the transactions of `PublicSync` implement `SyncServer` |
| | `ServerKeepsPromises` | `ServerPromises`, of the transactions |
| | `RememberedIsAccepted`, `ClientsUseTheServer` | `[]UnchangedIsTrue`, and a client's requests are steps of `SyncServer` |
| | `PlayersMoveTogether`, `PlayersKeepRow`, `ChoicesMoveToo` | `[]OneForm`, `PlayersKeepTheirRow`, `[]ChoicesComeAlong` |
| | `SnapshotsAreWhole`, `ParserEndsClean`, `PayloadsAgree` | `SnapshotIsWhole`, `ParserOutcome`, `[]PayloadAgrees` |
| | `PartsAreSound` | `[]PartsOK`, of all parts that `MCSync` puts together |
| `PlayerBindings_proofs` | `PlayersHaveOneUser`, `WithdrawnLinksBindNobody`, `AdministratorsAreFresh`, `OneLinkIsGood` | `[]PlayerHasOneUser`, `WithdrawnBindsNobody`, `UncutAdminIsFresh`, `[]OneLiveInvitation` |
| | `AccountsStayTrue` | `[]AccountsHold`, of a Steam sign-in |
| | `CardStaysTrue` | `CardIsTrue` |
| `Administration_proofs` | `SettingsStaySerial` | `[]SettingsAreSerial` |
| | `CatalogStaysSound` | `CatalogIsSound` |
| | `TablesStay` | `[]TablesHold`: no foreign key refuses a statement, a purge is complete, saved plans stay |
| `Pages_proofs` | `FormServes` | `[]FormIsServed` |
| | `ShownResultIsFinal`, `SavedIsShown`, `ToursAreWhole`, `JobPageStaysTrue` | `[]JobPageAgrees`: the page of a job, its saved routes, and the list of plans |
| | `TreeStaysTrue` | `[]TreeIsTrue`, for routes of any number of steps |
| | `FiltersAreAQuery`, `PalsAreWhole`, `ListsStayWhole` | `ListsAreWhole`: the list of pals, its switches, its filters and its links |

*Queue.* None of its invariants is inductive by itself. `StageTellsResults` says
a fresh claim has a lease above what its plan was written by, which needs that no
plan, and no row, has a lease above `lastLease`; `QueuedIsClaimable` needs that a
row given back was on a counted attempt, or giving one back could leave it at the
limit; all of them need that exactly the rows being processed have a lease.
`JobInv` is the conjunction of `TypeOK`, `QueuedIsClaimable`,
`HeldOnACountedAttempt`, `LeasesDrawn` (that bound) and `StageTellsResults`, with
one lemma per action or group of actions that treat a row alike.
`OneLiveJobPerRequest` is about pairs of rows and has its own step lemma: only an
insert and the administrator's retry make a row live. In the refinement a claim
maps to `Grant`, the two persist functions to `Write`, complete and cancel to
`Seal`, whatever ends an attempt to `Free`, and the rest to stutters.

*Workers.* `ClaimsInv`: a worker that calls on a job, or whose heartbeat task
runs, has claimed one, and every request still on its way names a worker and a
job. `LeaseInv` compares clocks: what a worker counts since its last answer
against the age of the row in the database. The row's age is at most what the
worker counts plus what the answered request took (`Recent`, in `OwnOK`); no two
workers have one lease (`Apart`); and what a worker has given up under the lease it
still has is a heartbeat, or the call whose failure it reports (`StrayOK`). From
that:

- `HandlersWatchTheirLease` needs no condition;
- `HandlersStopInTime` needs `RequestTimeout + Slack + Skew <= Margin`: an answer
  may be as old as the timeout when the window starts;
- `HandlersDoNotCollide` needs `2 * RequestTimeout + Slack + Skew <= Margin`:
  after the handler its report is under way for as long as the timeout, and no
  lease may be taken before that either (`HoldInv`).

The conditions are not a formality. `validate_worker_timing` does not require
them, and the defaults (interval, timeout and margin of 10, 10 and 5 seconds, a
lease of 30) do not meet them: that is what `slow_reply` shows. `worker_timing`
has times that meet both.
`CompletedIsWhole` holds whatever the times: a request to complete a job is sent
only when both results were written under the lease that it names.

*Inventory.* That a purge takes nothing that is needed depends on what other
transactions have read and not yet used. `WorldInv` says of each that it still
holds: the snapshot an upload has found with its content is readable and, if it
found none, there is none (`UploadsHold`); the one a creator pins is readable
(`CreationsHold`); what the retention selected is not the latest
(`DoomedSuperseded`). None of them survives without `LocksOK`: an upload is
alone, creators are only with creators, and the retention with nobody. A live
job then loses its inventory only by a purge, which fails it in the same step.

*Commands.* `CommandInv`: what a process has, or a report on its way is of, was
claimed; a process that is done with a command has had its effect; and a command
that was not claimed has had none.

*Public sync.* `ServerInv` types the rows and has `WorldHasOneOwner` and
`OneDevicePerCode`. Only the first upload of a device looks for another owner of
the world, so that a revoked device publishes nothing and a world keeps its owner
depend on each other.
`LocksInv` says of each transaction between two statements that what it read
still holds (`PairingHolds`, `UploadHolds`, `CheckHolds`); with it every commit is
one step of `SyncServer`, and every other statement none. For the client,
`RowOK` says of each process that what its configuration remembers was accepted
of its device, and what a process that is about to save it has just had accepted
too; the file of several processes then only ever has what is true.

*World transition.* `OneForm` is inductive by itself. That no step takes a
player's row away or adds a second one (`OneRow`) is not: a payload finds a
player's row by the UID it has, so the row is missed, and made again, unless the
UIDs of the world are of the form of the payload's. `ChoicesComeAlong` is about
pals that the latest snapshot has; `Follows` says it of all, which a snapshot that
brings a pal back needs, and `NothingRedactedYet` that the move finds no old rows.

*Copy and parser.* `SnapshotInv`: while the second look goes on, every modification
time that the first look saw is in the past, because of the pause between the two;
what was there since the listing began was listed; inodes are used once; and so a
file that changed after it was looked at the second time never looks the same again
(`Moved`). A copy whose third look finds nothing changed is then the save as it was
when the second look was complete (`cut`). `ParserInv`: the promise is not settled
before the first event, it is settled well only with nobody left at the pipe and by
a parser that ended by itself, and such a parser has written all of its output.

*Payload.* `PayloadInv`: what is uploaded is the redaction of a save, whatever the
save contains. `PayloadAgrees` follows from what the redaction does, without
induction.

*All parts of public sync.* `PartsInv` joins what the proofs of the parts need:
the transactions and their locks, the client, the copy, the parser, and the move
of a world. For the move `DomainsTrue` says whose pals and players there are rows
and choices of, and `MoveHolds` that nobody but the mover has its lock.

*Bindings.* One creation of a link at most has the row of the device, and the links
it withdraws are then all there are (`OneLinkIsGood`). `Inv` adds to
`PlayerHasOneUser` that the version of a binding is 0 exactly while there is none
(`BoundOnce`), that the link a page is about to bind through is not withdrawn, and
by no transaction about to be (`LinkHeld`), and that, unless a binding was deleted
since an administrator read it, its version has not gone back, and is the same only
if the binding is (`ReadEarlier`).

*Steam.* `SteamInv` follows an attempt through its calls (`AttemptTrue`): until
the identity is saved, a user it made is nobody else's, unless the answer that
saved it was lost (`unsure`). Only the attempt that made a user cleans that user up
(`OneMaker`), because ids are drawn once (`Drawn`); a cookie has the intent of the
start that wrote it (`CookieTrue`).

*Card.* `CardInv`: of the requests under way at most one is a change
(`OneChange`), and the card is pending exactly then (`PendingTrue`); each code
later than the one shown is in an answer on its way or lost (`CodesTrue`); the
user has one player at most (`OnePlayer`).

*Settings.* `Standing` says of every version what `SettingsAreSerial` does, and
that its number is its place. A new version has it only if its request was made
from the version it expects (`Sound`), hence the page from the version it shows
(`Faithful`): both stay true because versions are only added.

*Catalog.* `CatalogInv` adds that the upload of a live operation waits for it, or
was rejected while it was validated (`OperationTrue`), and that a worker which is
about to report a staging that is still its own has imported the version
(`TaskTrue`): a worker whose operation was claimed again may report what it likes.

*Tables.* Nothing is assumed here, the schema is what it is. `KeysInOrder` goes
through its sixty tables: a key refers to a table that is deleted from only where the
deletions expect it.
`Whole` says of a database that nothing was refused and no link hangs. An `INSERT`
whose required rows are there keeps it so and adds what it says (`InsertAdds`), a
`DELETE` that nobody restricts takes what it says (`DeleteDrops`); of a list of
statements the same holds if parents come first (`InsertAllAdds`), or children do
(`DeleteAllDrops`), by counting up the list (`CountUp`). The order within each
transaction is then a fact about its list (`ItemsInOrder` and so on), but whether
the rows it starts from are there depends on all the others: `TablesInv` says which
rows the states of a snapshot, its items, its job and of a catalog version imply
and exclude (`OfPals`, `OfItems`, `OfJob`, `OfCatalog`), and that the world refers
only to what is published (`Pointing`). So a failed snapshot may be deleted because
no items and no job are ever made of one, and the payload of items because all that
refers to it is in the list. What a purge leaves needs only tables in `Kept`, which
is closed under `Required` (`KeptIsClosed`).

*Form.* `Inv`: a submission that has a job has one for its own request; the
unique index keeps one live job per request. `FormInv` adds that the target and the
passives of a form, and of a request the server has not looked at yet, are of the
catalogue that the form shows, so that the checks of the function can refuse it only
for another one, or because what the page asked for is missing now. The trigger looks
at the settings only when the row is inserted.

*Page of a job.* The plan of a job may be another one after every attempt, so an
answer that is late may tell of a plan there no longer is. `ViewInv`: but an answer
that says completed or cancelled tells what the job is for good, because nothing
leaves these two; a failed job may be tried again. With it a result shown as final is
final, whatever arrives after it.
`SavesInv`: of the replies on their way that are about one route, the last tells
whether it is saved; if there is none, the page is right already, unless an answer
was lost. `PlansInv` (`Listed`): a plan that stays was seen or comes after the
cursor, and never both, and what was seen is in order. It rests on `Ranked`: a
finite set under a strict linear order has exactly one element of each rank, which
is what a page is cut from.

*Tree.* `TreeInv` says that cards, arrows and pals are what the steps so far make
of them: the cards are the child of each step and those of its parents that no
step makes, one column before it; a parent that a step makes is of an earlier
generation; and the pal of a card has the species that was named. That two cards
never share a cell is arithmetic: the cards of a column have different ranks
(`Ranked` again), `QuotientGrows` says that the rounded quotients of different
ranks differ as long as a column has no more cards than the grid has rows, and the
grid has as many as the longest column.

*List of pals.* `PalInv`: every page after the first is asked for with the context
of the tour (`PinnedInv`), so that it is of the same snapshot or refused; what was
seen is then the user's pals from the first to the last place that the pages have
shown (`Among`, in `TourInv`), and at the last page these are all, because the
pages are enough for the list. Only the scope of the user's own pals is a list of
that kind: what others share changes between two pages. A switch that has its
answer shows what was written, and the page that waits for the answer has been
there since the request was sent (`FlightInv`). `FilterInv`: the chosen passives
are in order, each once and not too many; such a list is left as it is by
parsing (`OrderedIsAscending`), which is why a link may parse it again.

*Items.* `TrendInv`: as long as all items could be parsed, the samples are what the
client has observed, and the last published quantity is that of the save it
uploaded last; a heartbeat, which samples what was published, then samples what it
sees. `ItemInv`: the page that is shown is one there is, because the number in an
address is cut down to the last page (`PagesAreThere`), and the links of any page
there is lead to pages (`TokensLead`), so that following one keeps it so.
`TourInv`: the page that is shown is the one that its snapshot has for the query, a
tour ends with it, and while a tour is of one snapshot its n-th page is the n-th part
of the list; a link that was cut down to another page would break the tour, but then
its last page is of a newer snapshot (`TurnGoesOn`). The parts, one after the other,
are the list (`PagesMakeTheList`). The names are told apart because `alphabeticIndex`
can be undone: the last letter and the number that the rest stands for make the number
(`Stems`, `NamesDiffer`), and because the bases of a snapshot, which are numbered in
their order (`InOrder`), do not depend on the query (`BasesAreTold`). `NameIs` is that
the recursive function is what its definition says, for all numbers.

Assumptions, all on constants and named. They are in the modules that they are about
and evaluated by TLC in the runs: `AttemptsAssumption` (`max_attempts` in 1..20, a
check of the table), `AgeAssumption`, `NullAssumption`, `TimingAssumption`
(`validate_worker_timing`), `BoundsAssumption`, `HostAssumption`, `DelayAssumption`
(the looks at a save are a tick of the file system's clock apart; the code waits two
seconds), `TreeAssumption` (steps are counted from 0 and generations from 1, and a
parent has one of three sources: `phase6-breeder.schema.json`), `JobViewAssumption`,
`PlanPagesAssumption` (routes are told apart by their keys, and a page has room for
a plan), `PalPagesAssumption` and `FilterAssumption` (a snapshot has finitely many
pals; pals and passives are numbers in the order of the list), `LockAssumption` (the
holders of the locks of a move are told apart), `TrendAssumption` (quantities are
numbers, null is none) and `ItemPagesAssumption` (there are finitely many items,
which are numbers in the order of their names, in finitely many bases; page sizes
are at least 1, the alphabet has a letter, and there is a first snapshot), and for
the others (`UidsAssumption`, `NobodyAssumption`, those of the form) that the values
that stand for nothing are not among the values, that catalogues hold known pals,
and that the sets of users of a module are apart. Stated with the theorems of
modules that are instanced there: `Assumed` and `ClientAssumed` (the value for
nothing is no user, code, device, world, request or save, and the bounds are at
least 1), `SteamAssumed` (a new user's id is not that of the user with a password)
and `ContentAssumption` of the catalog.

Only model-checked are `EntranceHolds` and, of `ItemsAddUp`, the part
`PlansAreSound`. It is about `ItemCapacity`, which alone declares recursive
operators; no module with theorems reaches it. Beyond the prover, and so for TLC
only, are liveness, ENABLED and induction over data in general: the induction
theorems of the library take an operator as their parameter, which the provers
cannot instantiate. Where the induction is over numbers, `CountUp` and `Least` take
a set in its place, from `WFMin`.

## What does not hold

Statements of the repository that do not hold of the code. Three are runs:

- **A slow answer outlives the lease** (`slow_reply`). `_heartbeat_loop` counts
  its safe window from the *answer* of the last heartbeat
  (`job_worker.py:251`), the database counts from its execution. The answer may
  take `DATABASE_REQUEST_TIMEOUT_SECONDS` (10 s), which is more than the safety
  margin (5 s): the handler may run 10 + 25 s after a heartbeat whose lease ends
  after 30 s. `phase-2-agent.md:27` says it is stopped before the margin.
  `worker_timing` shows the promise holds when the timeout is below the margin.
  The queue is not touched, the late worker is fenced off; the cost is a second
  calculation and, as its report is refused, the end of the process with all its
  workers.
- **A command may stay in processing for ever** (`command_restart`). Only
  pending commands expire (`20260717010000_phase8_admin_foundation.sql:889`), and
  an overdue one is not claimed again. `phase-8-admin-review.md:79` says that a
  restart can recover.
- **A logged out client comes back** (`sync_client_shared`). `run` keeps the
  configuration it read at its start and writes all of it after every cycle, over
  a logout or a new pairing of another process.

The others are definitions of their modules, each with the line it is from in its
comment. To see the behaviour, alias the definition in the root module
and put it into the `.cfg` in the place of the properties there:

| Definition | Module | The code |
|---|---|---|
| `FailureHadNoEffect` | `AgentCommands` | after a restart an action that took effect is executed again, refused and reported as failed (`worker.py:101`) |
| `RevokedStaysGone` | `DeviceCard` | the reply of a refresh from before a revocation shows the device again (`sync-device-card.tsx:404`) |
| `RevokedBindsNobody`, `LinkIsUsedOnce` | `PlayerBindings` | accepting reads the device without a lock, and does not consume the link (`20260804010000...sql:189`, `:222`) |
| `AdminIsFresh` | `PlayerBindings` | versions restart when a binding is deleted and made again (`20260717010000...sql:657`) |
| `ProfileIsReused` | `SteamSignIn` | an account with a profile and no identity is not found again (`steam-account.ts:186`) |
| `SaveChangesWhatWasEdited` | `RuntimeSettings` | inputs touched before a refresh are saved over the new version (`admin-actions.tsx:325`) |
| `NoPalSeenTwice` | `PalPages` | pages are cut by offset from what is shared at the moment (`20260721030000...sql:258`) |
| `ApplyUntouchedKeeps`, `FloatsWhileListVisible` | `PalFilterForm` | fields keep their values when the filters are cleared (`pal-filters.tsx:190`); the observer keeps watching the old list (`pal-pagination.tsx:199`) |
| `MaximumAdditional`, `PlanYieldsThePromise` | `ItemCapacity` | the search takes feasibility to be monotone, and the total counts stock that the plan consumes (`item-capacity.ts:176`, `:160`) |
| `TourOfOneSnapshot`, `StockIsListed` | `ItemPages` | pages carry no snapshot (`server.ts:38`); only the first 300 candidates are listed |
| `NoInventedPoint`, `SampleIsObserved` | `ItemTrend` | missing samples are drawn as the first one; a heartbeat samples the last stock that could be parsed |
| `PausedIsPaused` | `JobView` | a late answer starts the interval again after it was given up (`breeding-job-view.tsx:141`) |
| `PinnedAsShown` | `BreederForm` | a job pins what is current when it is created, not what the form showed |
| `ChoicesHold`, `RolledBackIsUnbound` | `WorldTransition` | preferences have the new UIDs before the items have; the rollback looks for devices before it locks the world |

Seen while modelling, without a statement to hold them against:

- After a language switch, registering without a confirmation leads to an address
  with two locales (`/en/zh/...`), a page that does not exist: `switched` in
  `ComesInSomewhere` of `Entrance`.
- `/items` is not among the prefixes that the middleware protects, so its
  destination is lost on the way through the login page; a failed Steam sign-in
  loses `next` as well; and one failed call in the middleware sends a user who is
  signed in to the login page and from there to the overview.
- A refusal by the settings (`JOB_CREATION_DISABLED`, `MAX_GENERATIONS_EXCEEDED`) is
  not among the codes that `features/breeder/server.ts` passes on; the form says that
  data is unavailable.

Besides, within the grace after SIGTERM only the handler is waited for
(`job_worker.py:156`): a lost lease no longer cancels it, and
`HandlerStopsBeforeLease` fails with a SIGTERM and a grace as long as the lease.

## Not modelled

- *Save worker*: the Python predecessor of the sync client for a server on the
  same host. What it publishes is in `InventorySnapshots`, its copy follows the
  rules of `SaveSnapshot`; its retention of files on disk is left out (a crash
  between the removal of a snapshot's directory and that of its state file is
  the case a model of it should have).
- *Breeding engine*: a pure search over probabilities in fractions, which its
  tests compare with an exhaustive oracle; a model small enough for TLC would
  leave out the pruning that could be wrong.
- *Parser and extractor*: file formats, sequential and without state.
- *Row level security, read models*: who may read what, no state of their own.
- *AI providers*: external; the worker falls back to a template.
- *What Supabase does with passwords and mails, dashboards, the landing page, UI
  packages, generated and vendored code, scripts of the build*: no state that several
  actors change.

Within the modelled components: contents of plans, routes, snapshots and
commands; error codes and texts; the validation of arguments (an invalid call
changes nothing); poll and back-off intervals, which only delay; `httpx`'
separate timeouts, which are one timeout of the whole request; the order in
which queued rows are claimed; rate limits, secrets and their hashes; the
hourly and daily roll-ups of items; failed and rejected snapshots; how a catalog
package is read.

Hazards without a property, and why: a failed job of a purged snapshot that an
administrator queues again fails again, which is what it should do; a retention
that is starved by creators, because nothing in the code prevents it; a pairing
that is sent again after its answer was lost, which needs a new code by design;
the language of a job that is reused; a rollback that is refused by preferences
with raw UIDs.

## Running it

    tlc -workers 2 -config MCBreedingJobs.cfg MCBreedingJobs
    tlapm BreedingJobs_proofs.tla

The longest runs, `worker_liveness`, `progress` and `worker_timing`, take two to
three minutes; a run of one part of a composed module is `Parts = {...}` in its
`.cfg`.
