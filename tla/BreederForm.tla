---------------------------- MODULE BreederForm ----------------------------
(***************************************************************************)
(* The form that creates a breeding job, in the tabs of one player, the    *)
(* route that it posts to and the database function behind it, which looks *)
(* for a live job of the same request before it inserts one.               *)
(*                                                                         *)
(* The form shows the inventory and the catalogue that were current when   *)
(* the page was loaded; the job pins those that are current when it is     *)
(* created.  The function holds a share lock on the world, which whoever   *)
(* publishes an inventory or a catalogue waits for.  Nothing holds the     *)
(* runtime settings, which a trigger reads when the job is inserted, and   *)
(* what else the function asks for: that the player is bound, that the     *)
(* world has an inventory and compatible versions of the catalogue, and    *)
(* that a scoring profile is active.                                       *)
(*                                                                         *)
(* The order of the passives is left out, the form sorts them;             *)
(* optimization mode and guild sharing are one field, options, that        *)
(* nothing checks.                                                         *)
(***************************************************************************)
EXTENDS Integers, Sequences, FiniteSets

CONSTANTS
  Tabs,
  Targets, Passives, Options,
  Typed,         \* what is typed as the maximal number of generations
  PassiveLimit,  \* 4 in the code
  Catalogs,      \* the targets and passives that each version of the catalogue has
  Prerequisites, \* what the page and the function ask for, besides the request
  Limits,        \* bound: what is set as the greatest number of generations
  MaxSubmits,    \* bound: requests of all tabs
  MaxPublished,  \* bound: inventories and catalogues published
  None

ASSUME TargetsAssumption == None \notin Targets
ASSUME CatalogsAssumption == \A v \in DOMAIN Catalogs : Catalogs[v] \subseteq Targets \cup Passives
ASSUME FirstCatalogAssumption == 1 \in DOMAIN Catalogs
ASSUME OptionsAssumption == Options # {}
ASSUME PassivesAssumption == IsFiniteSet(Passives) /\ PassiveLimit \in Nat

VARIABLES
  world,     \* latest_snapshot_id and active_game_data_version_id
  service,   \* the prerequisites that are missing, and the newest runtime settings
  jobs,      \* the rows of breeding_jobs of the player
  form,      \* the fields of each tab, and the versions it shows
  call,      \* the submission of each tab: its request and how far it is
  opened,    \* the job page that each tab went to last, 0 for none
  submits    \* bound

vars == <<world, service, jobs, form, call, opened, submits>>

\* Where a submission is: the browser waits in all but the first.
Submitting == {"lookup", "insert", "reselect", "status", "answer"}
NoCall == [pc |-> "none", request |-> None, pinned |-> None, job |-> 0, error |-> None]

Fresh(shown) ==
  [target |-> None, passives |-> {}, generations |-> 5, options |-> CHOOSE o \in Options : TRUE,
   shown |-> shown]

Init ==
  /\ world = [snapshot |-> 1, version |-> 1]
  /\ service = [missing |-> {}, creation |-> TRUE, limit |-> 5]
  /\ jobs = <<>>
  /\ form = [t \in Tabs |-> Fresh(world)]
  /\ call = [t \in Tabs |-> NoCall]
  /\ opened = [t \in Tabs |-> 0]
  /\ submits = 0

-----------------------------------------------------------------------------
(* The fields, which stay open to changes while a request is under way. *)

\* The combobox gives the id of a pal of the catalogue that is shown.
ChooseTarget(t) ==
  /\ \E p \in Catalogs[form[t].shown.version] \cap Targets :
       form' = [form EXCEPT ![t].target = p]
  /\ call' = [call EXCEPT ![t].error = None]

\* togglePassive, of the passives of the catalogue that is shown.
TogglePassive(t) ==
  \E p \in Catalogs[form[t].shown.version] \cap Passives :
    LET chosen == form[t].passives
    IN  IF p \notin chosen /\ Cardinality(chosen) >= PassiveLimit
          THEN /\ call' = [call EXCEPT ![t].error = "max_four"]
               /\ UNCHANGED form
          ELSE /\ call' = [call EXCEPT ![t].error = None]
               /\ form' = [form EXCEPT ![t].passives = IF p \in chosen THEN @ \ {p} ELSE @ \cup {p}]

Configure(t) ==
  /\ \E g \in Typed, o \in Options : form' = [form EXCEPT ![t].generations = g, ![t].options = o]
  /\ UNCHANGED call

\* Going back from the page of the job, or to the form from anywhere else: the page
\* shows the form only when nothing is missing.
Reload(t) ==
  /\ call[t].pc \notin Submitting /\ service.missing = {}
  /\ form' = [form EXCEPT ![t] = Fresh(world)]
  /\ call' = [call EXCEPT ![t] = NoCall]

Edit(t) ==
  /\ ChooseTarget(t) \/ TogglePassive(t) \/ Configure(t) \/ Reload(t)
  /\ UNCHANGED <<world, service, jobs, opened, submits>>

Request(t) == [target |-> form[t].target, passives |-> form[t].passives,
               generations |-> form[t].generations, options |-> form[t].options]

\* Mutation: the bounds are off by one.
BuildableFromZero(request) ==
  /\ request.target # None
  /\ Cardinality(request.passives) <= PassiveLimit
  /\ request.generations \in 0..5

\* selectedPal and buildCreateRequest
Buildable(request) ==
  /\ request.target # None
  /\ Cardinality(request.passives) <= PassiveLimit
  /\ request.generations \in 1..5

\* The button is disabled while a request is under way.
Submit(t) ==
  /\ call[t].pc \notin Submitting
  /\ IF Buildable(Request(t))
       THEN /\ submits < MaxSubmits /\ submits' = submits + 1
            /\ call' = [call EXCEPT ![t] = [NoCall EXCEPT !.pc = "lookup", !.request = Request(t)]]
       ELSE /\ call' = [call EXCEPT ![t].error = "invalid"]
            /\ UNCHANGED submits
  /\ UNCHANGED <<world, service, jobs, form, opened>>
-----------------------------------------------------------------------------
(* The route and create_breeding_job_v2. *)

\* Mutation: an error leaves the form as it is.
EndOfSuccess(t, job, error) ==
  call' = IF error = None
            THEN [call EXCEPT ![t].pc = "none", ![t].job = job, ![t].error = None]
            ELSE call

\* The submission ends with a job or an error; either way the button is enabled.
End(t, job, error) ==
  call' = [call EXCEPT ![t].pc = "none", ![t].job = job, ![t].error = error]

\* The schema of the request, then the checks of the function.
Refused(request) ==
  \/ request.generations \notin 1..5
  \/ Cardinality(request.passives) > PassiveLimit
  \/ service.missing # {}
  \/ ~ (request.passives \cup {request.target} \subseteq Catalogs[world.version])

\* breeding_jobs_runtime_settings_guard: JOB_CREATION_DISABLED, MAX_GENERATIONS_EXCEEDED.
RefusedBySettings(request) == ~service.creation \/ request.generations > service.limit

\* Mutation: the number of generations is not part of the fingerprint.
SameRequest(request, other) ==
  [request EXCEPT !.generations = 0] = [other EXCEPT !.generations = 0]

\* request_fingerprint covers the request and what is pinned.
Same(request, other) == request = other

LiveJobs(request, pinned) ==
  {j \in DOMAIN jobs : jobs[j].live /\ Same(jobs[j].request, request) /\ jobs[j].pinned = pinned}

Goto(t, pc, job) == call' = [call EXCEPT ![t].pc = pc, ![t].pinned = world, ![t].job = job]

\* Everything up to the first search for a live job.
Lookup(t) ==
  /\ call[t].pc = "lookup"
  /\ LET request == call[t].request
         live == LiveJobs(request, world)
     IN  CASE Refused(request) -> End(t, 0, "refused")
           [] ~Refused(request) /\ live = {} -> Goto(t, "insert", 0)
           [] ~Refused(request) /\ live # {} -> \E j \in live : Goto(t, "status", j)
  /\ UNCHANGED <<world, service, jobs, form, opened, submits>>

InsertNew(t) ==
  /\ jobs' = Append(jobs, [request |-> call[t].request, pinned |-> call[t].pinned, live |-> TRUE])
  /\ Goto(t, "status", Len(jobs'))

\* Mutation: nothing conflicts.
InsertAlways(t) ==
  /\ call[t].pc = "insert"
  /\ InsertNew(t)
  /\ UNCHANGED <<world, service, form, opened, submits>>

\* The trigger, then the unique index of live jobs: a conflict waits for the other
\* transaction.
Insert(t) ==
  /\ call[t].pc = "insert"
  /\ \/ /\ RefusedBySettings(call[t].request)
        /\ End(t, 0, "settings")
        /\ UNCHANGED jobs
     \/ /\ ~RefusedBySettings(call[t].request)
        /\ IF LiveJobs(call[t].request, call[t].pinned) = {}
             THEN InsertNew(t)
             ELSE Goto(t, "reselect", 0) /\ UNCHANGED jobs
  /\ UNCHANGED <<world, service, form, opened, submits>>

\* The job of the conflict may have ended meanwhile: JOB_CREATE_CONFLICT.
Reselect(t) ==
  /\ call[t].pc = "reselect"
  /\ LET live == LiveJobs(call[t].request, call[t].pinned)
     IN  IF live = {} THEN End(t, 0, "conflict") ELSE \E j \in live : Goto(t, "status", j)
  /\ UNCHANGED <<world, service, jobs, form, opened, submits>>

\* The status of the job is selected by a second statement, which may fail.
Status(t) ==
  /\ call[t].pc = "status"
  /\ \/ call' = [call EXCEPT ![t].pc = "answer"]
     \/ End(t, 0, "unavailable")
  /\ UNCHANGED <<world, service, jobs, form, opened, submits>>

\* router.push
Answer(t) ==
  /\ call[t].pc = "answer"
  /\ End(t, call[t].job, None)
  /\ opened' = [opened EXCEPT ![t] = call[t].job]
  /\ UNCHANGED <<world, service, jobs, form, submits>>

LoseAnswer(t) ==
  /\ call[t].pc = "answer"
  /\ End(t, 0, "unavailable")
  /\ UNCHANGED <<world, service, jobs, form, opened, submits>>
-----------------------------------------------------------------------------
(* The rest of the system. *)

\* A worker or an administrator ends a job.
EndJob ==
  /\ \E j \in DOMAIN jobs : jobs[j].live /\ jobs' = [jobs EXCEPT ![j].live = FALSE]
  /\ UNCHANGED <<world, service, form, call, opened, submits>>

Publish ==
  /\ \A t \in Tabs : call[t].pc \notin {"insert", "reselect"}   \* for share of world
  /\ world.snapshot + world.version < MaxPublished + 2
  /\ \/ world' = [world EXCEPT !.snapshot = @ + 1]
     \/ world.version + 1 \in DOMAIN Catalogs /\ world' = [world EXCEPT !.version = @ + 1]
  /\ UNCHANGED <<service, jobs, form, call, opened, submits>>

\* An administrator saves other settings or takes the player's binding away, ...
Administer ==
  /\ service' \in [missing : SUBSET Prerequisites, creation : BOOLEAN, limit : Limits]
  /\ UNCHANGED <<world, jobs, form, call, opened, submits>>

Served(t) == Lookup(t) \/ Insert(t) \/ Reselect(t) \/ Status(t) \/ Answer(t) \/ LoseAnswer(t)

Next ==
  \/ \E t \in Tabs : Edit(t) \/ Submit(t) \/ Served(t)
  \/ EndJob \/ Publish \/ Administer

Spec == Init /\ [][Next]_vars
FairSpec == Spec /\ \A t \in Tabs : WF_vars(Served(t))
-----------------------------------------------------------------------------
\* The page that a submission opens is that of a job for the request as it was
\* submitted, whatever was edited or submitted in another tab meanwhile.
OpenedIsAsked ==
  \A t \in Tabs :
    call[t].job # 0 => jobs[call[t].job].request = call[t].request

\* However often a request is sent again, and from however many tabs, it has one
\* live job per inventory and catalogue.
OneLiveJob ==
  \A j, k \in DOMAIN jobs :
    jobs[j].live /\ jobs[k].live /\ jobs[j].request = jobs[k].request
      /\ jobs[j].pinned = jobs[k].pinned => j = k

\* What the form lets through passes the schema of the route and the checks of the
\* function, unless something has changed since the form was loaded: the catalogue, or
\* what the page asked for is missing now.  The settings may still refuse the insert:
\* the form offers five generations whatever they are.
RefusedIsStale ==
  \A t \in Tabs :
    call[t].pc = "lookup" /\ Refused(call[t].request) =>
      world.version # form[t].shown.version \/ service.missing # {}

\* Whatever is edited, sent again, ended, published or set while a request is under
\* way: it has one live job, what opens is what was asked, and only the settings refuse
\* a request of a form that is up to date.
FormIsServed == OpenedIsAsked /\ OneLiveJob /\ RefusedIsStale

\* Every submission ends: the button of the form is enabled again.
SubmissionEnds == \A t \in Tabs : call[t].pc \in Submitting ~> call[t].pc \notin Submitting

\* messages/en.json:1148, shown with the ids of the form: "The current inventory and
\* game data are pinned, so the result will not change when data updates."
PinnedAsShown ==
  [][\A t \in Tabs : opened'[t] # opened[t] => jobs[opened'[t]].pinned = form[t].shown]_vars
=============================================================================
