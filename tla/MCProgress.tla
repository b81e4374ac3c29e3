------------------------------ MODULE MCProgress ------------------------------
(***************************************************************************)
(* What must happen eventually, for TLC: the client of the public          *)
(* synchronization (SyncClient), its parser (ParserProcess), the pages for *)
(* devices, jobs and the search (DeviceCard, JobView, BreederForm), and    *)
(* the two workers of the administration (CatalogUploads, AgentCommands).  *)
(*                                                                         *)
(* A behaviour is of one of the Parts, and the others stay at their        *)
(* initial states.  The fairness of a part is the one its module states.   *)
(***************************************************************************)
EXTENDS SyncClient

CONSTANTS Parts,
          CardDevices, Players, Slots, MaxCodes,
          Plans, MaxPolls, MaxAttempts, MaxReloads, Requesting,
          Tabs, Targets, Passives, Options, Typed, PassiveLimit, Catalogs,
          Prerequisites, Limits, MaxSubmits, MaxPublished,
          Uploads, CatalogVersions, CatalogWorkers, Content, MaxCrash, v1,
          JobIds, JobWorkers, Requests, AgeCap, AdminStaleAge,
          Commands, CommandProcesses, MaxCrashes, MaxLost, MaxLeases, MaxEffects

OnePlan == {<<[key |-> "a", ready |-> TRUE], [key |-> "b", ready |-> FALSE]>>}
Emptied == <<Targets, {}>>   \* the second catalogue has no pal any more
OneInvalid == [u \in Uploads |-> IF u = CHOOSE x \in Uploads : TRUE THEN None ELSE v1]
OneName == [p \in CommandProcesses |-> "command"]

VARIABLES part,
          platform, forks, parserAt, alive, exitCode, pipeTimer, output, dir, settled, result,
          active, revoked, synced, bound, issued, lost, requests, page,
          job, shown, selected, timer, paused, answers, reloads,
          formWorld, service, formJobs, form, call, opened, submits,
          upload, op, catalog, imported, activeVersion, guard, importer, catalogPage, crashes,
          jobs, plans, lastLease,
          command, overdue, unattended, process, onTheWay, effects, budget

Pipe == INSTANCE ParserProcess WITH at <- parserAt, code <- exitCode, timer <- pipeTimer
Card == INSTANCE DeviceCard WITH Devices <- CardDevices
View == INSTANCE JobView WITH Slots <- Requesting
Form == INSTANCE BreederForm WITH world <- formWorld, jobs <- formJobs
Catalog == INSTANCE CatalogUploads WITH
  Workers <- CatalogWorkers, Versions <- CatalogVersions, version <- catalog,
  active <- activeVersion, form <- guard, worker <- importer, page <- catalogPage
Agent == INSTANCE AgentCommands WITH
  Workers <- JobWorkers, NameOf <- OneName, worker <- process, Processes <- CommandProcesses

ASSUME ProgressAssumption ==
  /\ TimeAssumption /\ AbsentAssumption /\ ClientAssumption
  /\ View!JobViewAssumption /\ Catalog!ContentAssumption
  /\ Agent!NameAssumption /\ Agent!NoneAssumption

pipeVars == <<platform, forks, parserAt, alive, exitCode, pipeTimer, output, dir, settled, result>>
cardVars == <<active, revoked, synced, bound, issued, lost, requests, page>>
viewVars == <<job, shown, selected, timer, paused, answers, reloads>>
formVars == <<formWorld, service, formJobs, form, call, opened, submits>>
catalogVars == <<upload, op, catalog, imported, activeVersion, guard, importer, catalogPage, crashes>>
agentVars == <<jobs, plans, lastLease, command, overdue, unattended, process, onTheWay,
               effects, budget>>
mcVars == <<part, vars, pipeVars, cardVars, viewVars, formVars, catalogVars, agentVars>>

\* Where a part has several initial states, they matter only when it moves.
MCInit ==
  /\ part \in Parts
  /\ Init /\ Pipe!Init /\ Card!Init /\ View!Init /\ Form!Init /\ Catalog!Init /\ Agent!Init
  /\ part # "parser" => platform = "linux-x64" /\ ~forks

\* Bounds: a code is created only while there is a device left for it, ...
DeviceLeft == \A c \in Codes : code[c].state = "new" /\ code'[c].state # "new"
                                 => \E d \in Devices : device[d].state = "none"

\* ... and claims and effects are few.
FewClaims == lastLease' <= MaxLeases /\ \A c \in Commands : effects'[c] <= MaxEffects

MCNext ==
  \/ part = "client" /\ Next /\ DeviceLeft
       /\ UNCHANGED <<part, pipeVars, cardVars, viewVars, formVars, catalogVars, agentVars>>
  \/ part = "parser" /\ Pipe!Next
       /\ UNCHANGED <<part, vars, cardVars, viewVars, formVars, catalogVars, agentVars>>
  \/ part = "card" /\ Card!Next
       /\ UNCHANGED <<part, vars, pipeVars, viewVars, formVars, catalogVars, agentVars>>
  \/ part = "view" /\ View!Next
       /\ UNCHANGED <<part, vars, pipeVars, cardVars, formVars, catalogVars, agentVars>>
  \/ part = "form" /\ Form!Next
       /\ UNCHANGED <<part, vars, pipeVars, cardVars, viewVars, catalogVars, agentVars>>
  \/ part = "catalog" /\ Catalog!Next
       /\ UNCHANGED <<part, vars, pipeVars, cardVars, viewVars, formVars, agentVars>>
  \/ part = "commands" /\ Agent!Next /\ FewClaims
       /\ UNCHANGED <<part, vars, pipeVars, cardVars, viewVars, formVars, catalogVars>>

\* The client's processes run; the parser's process is only waited for.
ClientProgress ==
  /\ \A p \in Processes : WF_vars(part = "client" /\ Step(p))
  /\ WF_pipeVars(part = "parser" /\ Pipe!Client)

\* A request of a page is answered or fails, and the browser runs what waits for it.
PageProgress ==
  /\ \A s \in Slots :
       /\ WF_cardVars(part = "card" /\ (Card!Serve(s) \/ Card!Lose(s)) /\ UNCHANGED page)
       /\ WF_cardVars(part = "card" /\ Card!Receive(s))
  /\ WF_viewVars(part = "view" /\ View!Poll)
  /\ \A s \in Requesting : WF_viewVars(part = "view" /\ (View!Arrive(s) \/ View!Lose(s)))
  /\ \A t \in Tabs : WF_formVars(part = "form" /\ Form!Served(t))

\* The workers' loops go on, and time passes.
WorkerProgress ==
  /\ \A w \in CatalogWorkers :
       /\ WF_catalogVars(part = "catalog" /\ Catalog!WorkerStep(w))
       /\ \A u \in Uploads : SF_catalogVars(part = "catalog" /\ Catalog!Claim(w, u))
  /\ \A p \in CommandProcesses :
       /\ WF_agentVars(part = "commands" /\ (Agent!ClaimCommand(p) \/ Agent!ExpirePending(p)))
       /\ WF_agentVars(part = "commands" /\ (Agent!ActionDone(p) \/ Agent!ActionRefused(p)))
       /\ WF_agentVars(part = "commands" /\ Agent!Report(p))
       /\ WF_agentVars(part = "commands" /\ Agent!Start(p))
  /\ \A c \in Commands :
       /\ WF_agentVars(part = "commands" /\ Agent!Expire(c))
       /\ WF_agentVars(part = "commands" /\ Agent!GoStale(c))

MCFairSpec ==
  MCInit /\ [][MCNext]_mcVars /\ ClientProgress /\ PageProgress /\ WorkerProgress

-----------------------------------------------------------------------------
\* The client and its parser come to an end: see SyncClient and ParserProcess.
ClientProgresses ==
  /\ RevokedRunEnds /\ SaveArrives
  /\ part = "parser" => Pipe!HangEnds

\* The buttons come back and the page of a job comes to its status: see
\* DeviceCard, JobView and BreederForm.
PagesSettle == Card!PendingEnds /\ View!ViewSettles /\ Form!SubmissionEnds

\* The statement about commands on its own: see AgentCommands.
CommandsEnd == Agent!CommandsEnd

\* Catalog operations and commands end: see CatalogUploads and AgentCommands.
WorkersEnd == Catalog!OperationsEnd /\ CommandsEnd
=============================================================================
