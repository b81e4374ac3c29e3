---------------------------- MODULE AgentCommands ----------------------------
(***************************************************************************)
(* The queue of administrator commands (public.agent_commands) and the     *)
(* command worker of the Agent.                                            *)
(*                                                                         *)
(* A command is claimed under a lease that nobody renews: it may be        *)
(* claimed again once claimed_at is stale.  There is no lease token; every *)
(* process that runs under one WORKER_ID is the same holder to the         *)
(* database, a restarted one too.  The action of a command and the report  *)
(* of its result are separate calls, and a process may die, or a call go   *)
(* unanswered, between and during them.                                    *)
(*                                                                         *)
(* Three kinds of command act on a breeding job, in the database; the      *)
(* others ("other": a save is parsed again, a cache is warmed) act         *)
(* elsewhere and only their outcome is kept.  A command stands for its     *)
(* (created_by, idempotency_key); creating it again changes nothing.       *)
(***************************************************************************)
EXTENDS BreedingJobs

CONSTANTS Commands,    \* the commands administrators give
          Processes,   \* command workers, one of them after a restart or a
                       \* deployment perhaps beside its predecessor
          NameOf,      \* WORKER_ID of each
          MaxCrashes,  \* bound: processes that die on their own
          MaxLost      \* bound: calls that are not answered

NameAssumption == \A p \in Processes : NameOf[p] # None
NoneAssumption == None \notin Commands /\ None \notin JobIds

JobKinds == {"retry", "cancel", "reap"}
Kinds == JobKinds \cup {"other"}
Ended == {"succeeded", "failed", "rejected", "expired"}

VARIABLES command,    \* the row of each command
          overdue,    \* commands whose expires_at has passed
          unattended, \* commands whose claimed_at is older than stale_before
          worker,     \* what each process is at
          onTheWay,   \* commands whose action was sent and given up
          effects,    \* history: how often each command took effect
          budget      \* what the bounds have left

commandVars == <<command, overdue, unattended, worker, onTheWay, effects, budget>>
vars == <<jobVars, commandVars>>

NoCommand == [status |-> "none", kind |-> "other", job |-> None, by |-> None]
Idle == [at |-> "idle", has |-> None]
Off  == [at |-> "off", has |-> None]

Init ==
  /\ JobInit
  /\ command = [c \in Commands |-> NoCommand]
  /\ overdue = {} /\ unattended = {}
  /\ worker = [p \in Processes |-> Idle]
  /\ onTheWay = {}
  /\ effects = [c \in Commands |-> 0]
  /\ budget = [crashes |-> MaxCrashes, lost |-> MaxLost]

-----------------------------------------------------------------------------
\* create_agent_command
Create(c) ==
  /\ command[c].status = "none"
  /\ \/ \E k \in JobKinds, j \in JobIds :
          /\ jobs[j].status # "none"
          /\ command' = [command EXCEPT ![c] =
                          [status |-> "pending", kind |-> k, job |-> j, by |-> None]]
     \/ command' = [command EXCEPT ![c] =
                     [status |-> "pending", kind |-> "other", job |-> None, by |-> None]]
  /\ UNCHANGED <<jobVars, overdue, unattended, worker, onTheWay, effects, budget>>

\* Mutation: what is overdue is left as it is.
AfterExpiryForgotten(row, c) == row

\* Mutation: expiry does not spare what is being processed.
AfterExpiryOfAll(row, c) ==
  IF row.status \in {"pending", "processing"} /\ c \in overdue
  THEN [row EXCEPT !.status = "expired"] ELSE row

\* claim_agent_command first expires what is pending and overdue ...
AfterExpiry(row, c) ==
  IF row.status = "pending" /\ c \in overdue THEN [row EXCEPT !.status = "expired"] ELSE row

\* ... and then claims the oldest command, one nobody has attended to for long
\* included, but never one that is overdue.
CanClaim(c) ==
  /\ c \notin overdue
  /\ command[c].status = "pending" \/ (command[c].status = "processing" /\ c \in unattended)

ClaimedAnonymously(row, p) == [row EXCEPT !.status = "processing"]   \* Mutation

Claimed(row, p) == [row EXCEPT !.status = "processing", !.by = NameOf[p]]

ClaimCommand(p) ==
  /\ worker[p] = Idle
  /\ \E c \in Commands :
       /\ CanClaim(c)
       /\ command' = [d \in Commands |-> IF d = c THEN Claimed(command[d], p)
                                                  ELSE AfterExpiry(command[d], d)]
       /\ worker' = [worker EXCEPT ![p] = [at |-> "claimed", has |-> c]]
       /\ unattended' = unattended \ {c}
  /\ UNCHANGED <<jobVars, overdue, onTheWay, effects, budget>>

\* There is nothing to claim, but something to expire.
ExpirePending(p) ==
  /\ worker[p] = Idle
  /\ \A c \in Commands : ~CanClaim(c)
  /\ command' = [c \in Commands |-> AfterExpiry(command[c], c)]
  /\ command' # command
  /\ UNCHANGED <<jobVars, overdue, unattended, worker, onTheWay, effects, budget>>

-----------------------------------------------------------------------------
\* execute_agent_command_database_action asks that somebody is processing the
\* command, not who.
ActOnJob(c) ==
  /\ command[c].status = "processing"
  /\ \/ command[c].kind = "retry"  /\ AdminRetry(command[c].job)
     \/ command[c].kind = "cancel" /\ AdminCancel(command[c].job)
     \/ command[c].kind = "reap"   /\ AdminReap(command[c].job)

\* The other kinds are carried out by the Agent, which asks nobody again.
Act(c) ==
  /\ ActOnJob(c) \/ (command[c].kind = "other" /\ UNCHANGED jobVars)
  /\ effects' = [effects EXCEPT ![c] = @ + 1]

\* dispatch succeeds.
ActionDone(p) ==
  /\ worker[p].at = "claimed"
  /\ Act(worker[p].has)
  /\ worker' = [worker EXCEPT ![p].at = "done"]
  /\ UNCHANGED <<command, overdue, unattended, onTheWay, budget>>

\* Mutation: an action that is refused counts as done (it was perhaps done before).
ActionRefusedIsDone(p) ==
  /\ worker[p].at = "claimed"
  /\ worker' = [worker EXCEPT ![p].at = "done"]
  /\ UNCHANGED <<jobVars, command, overdue, unattended, onTheWay, effects, budget>>

\* The action is refused: JOB_NOT_CANCELLABLE and the like, or it fails elsewhere.
ActionRefused(p) ==
  /\ worker[p].at = "claimed"
  /\ command[worker[p].has].kind = "other" \/ ~ENABLED Act(worker[p].has)
  /\ worker' = [worker EXCEPT ![p].at = "failed"]
  /\ UNCHANGED <<jobVars, command, overdue, unattended, onTheWay, effects, budget>>

\* Nobody answers; the action has happened, or will, or never.
ActionUnanswered(p) ==
  /\ worker[p].at = "claimed"
  /\ budget.lost > 0
  /\ budget' = [budget EXCEPT !.lost = @ - 1]
  /\ worker' = [worker EXCEPT ![p].at = "failed"]
  /\ \/ Act(worker[p].has) /\ UNCHANGED onTheWay
     \/ onTheWay' = onTheWay \cup {worker[p].has} /\ UNCHANGED <<jobVars, effects>>
  /\ UNCHANGED <<command, overdue, unattended>>

LateAction(c) ==
  /\ c \in onTheWay
  /\ onTheWay' = onTheWay \ {c}
  /\ Act(c) \/ UNCHANGED <<jobVars, effects>>
  /\ UNCHANGED <<command, overdue, unattended, worker, budget>>

\* command.expired: the Agent's own clock, which may run ahead, says so.
RejectExpired(p) ==
  /\ worker[p].at = "claimed"
  /\ worker' = [worker EXCEPT ![p].at = "rejected"]
  /\ UNCHANGED <<jobVars, command, overdue, unattended, onTheWay, effects, budget>>

-----------------------------------------------------------------------------
Result(at) == CASE at = "done" -> "succeeded"
                [] at = "failed" -> "failed"
                [] at = "rejected" -> "rejected"

\* Mutation: a result is taken from anybody, at any time.
AcceptsFromAnybody(c, p, result) == command[c].status \in {"processing", "failed"}

\* complete_agent_command and fail_agent_command
Accepts(c, p, result) ==
  command[c].status = "processing" /\ command[c].by = NameOf[p]

Known(c, result) == command[c].status = result   \* a repeated report is fine

Report(p) ==
  /\ worker[p].at \in {"done", "failed", "rejected"}
  /\ LET c == worker[p].has
         result == Result(worker[p].at)
     IN  \/ /\ Accepts(c, p, result)
            /\ command' = [command EXCEPT ![c].status = result]
            /\ worker' = [worker EXCEPT ![p] = Idle]
         \/ /\ ~Accepts(c, p, result)
            /\ worker' = [worker EXCEPT ![p] = IF Known(c, result) THEN Idle ELSE Off]
            /\ UNCHANGED command
  /\ UNCHANGED <<jobVars, overdue, unattended, onTheWay, effects, budget>>

\* No error of a claim, a heartbeat or a report is caught: the process ends,
\* whether the call was executed or not.
ReportUnanswered(p) ==
  /\ worker[p].at \in {"done", "failed", "rejected"}
  /\ budget.lost > 0
  /\ budget' = [budget EXCEPT !.lost = @ - 1]
  /\ worker' = [worker EXCEPT ![p] = Off]
  /\ LET c == worker[p].has
         result == Result(worker[p].at)
     IN  \/ Accepts(c, p, result) /\ command' = [command EXCEPT ![c].status = result]
         \/ UNCHANGED command
  /\ UNCHANGED <<jobVars, overdue, unattended, onTheWay, effects>>

Crash(p) ==
  /\ budget.crashes > 0
  /\ worker[p].at # "off"
  /\ worker' = [worker EXCEPT ![p] = Off]
  /\ budget' = [budget EXCEPT !.crashes = @ - 1]
  /\ UNCHANGED <<jobVars, command, overdue, unattended, onTheWay, effects>>

\* docker starts it again.
Start(p) ==
  /\ worker[p] = Off
  /\ worker' = [worker EXCEPT ![p] = Idle]
  /\ UNCHANGED <<jobVars, command, overdue, unattended, onTheWay, effects, budget>>

-----------------------------------------------------------------------------
\* Time: a command passes its expiry, or its claim becomes stale.  Either may
\* come first: the time to live is 30 s to 24 h, a claim is stale after 120 s.
Expire(c) ==
  /\ command[c].status \in {"pending", "processing"}
  /\ overdue' = overdue \cup {c}
  /\ UNCHANGED <<jobVars, command, unattended, worker, onTheWay, effects, budget>>

GoStale(c) ==
  /\ command[c].status = "processing"
  /\ unattended' = unattended \cup {c}
  /\ UNCHANGED <<jobVars, command, overdue, worker, onTheWay, effects, budget>>

\* What goes on in the job queue meanwhile.
JobStep ==
  /\ \/ \E j \in JobIds, r \in Requests : Insert(j, r)
     \/ \E j \in JobIds, w \in Workers : Claim(j, w)
     \/ \E j \in JobIds, w \in Workers :
          \/ Complete(j, w, jobs[j].lease)
          \/ Fail(j, w, jobs[j].lease, FALSE)
     \/ Tick
  /\ UNCHANGED commandVars

Next ==
  \/ \E c \in Commands : Create(c) \/ LateAction(c) \/ Expire(c) \/ GoStale(c)
  \/ \E p \in Processes :
       \/ ClaimCommand(p) \/ ExpirePending(p)
       \/ ActionDone(p) \/ ActionRefused(p) \/ ActionUnanswered(p) \/ RejectExpired(p)
       \/ Report(p) \/ ReportUnanswered(p)
       \/ Crash(p) \/ Start(p)
  \/ JobStep

Spec == Init /\ [][Next]_vars

\* A process that is up polls and finishes what it has claimed, and is started
\* again when it ended; time passes.
Fairness ==
  /\ \A p \in Processes :
       /\ WF_vars(ClaimCommand(p) \/ ExpirePending(p))
       /\ WF_vars(ActionDone(p) \/ ActionRefused(p))
       /\ WF_vars(Report(p))
       /\ WF_vars(Start(p))
  /\ \A c \in Commands : WF_vars(Expire(c)) /\ WF_vars(GoStale(c))

FairSpec == Spec /\ Fairness

-----------------------------------------------------------------------------
\* A claimed command has a holder, a pending or expired one never had.
CommandsOK ==
  \A c \in Commands :
    /\ command[c].status \in {"processing", "succeeded", "failed", "rejected"}
         <=> command[c].by # None
    /\ command[c].kind \in JobKinds <=> command[c].job # None

\* An expired command was never carried out, not even by a call that is late.
ExpiredNeverActed == \A c \in Commands : command[c].status = "expired" => effects[c] = 0

\* A command is reported as done only when it was, whoever of the processes
\* that claimed it reports.
SucceededActed == \A c \in Commands : command[c].status = "succeeded" => effects[c] > 0

\* What an administrator has been told stays so: a process that comes back to
\* a command others have finished changes neither its result nor its holder.
ResultsKept ==
  \A c \in Commands : command[c].status \in Ended => command'[c] = command[c]

ResultsStay == [][ResultsKept]_vars

\* What an administrator is told of a command is so, also when its process died
\* or its call was lost or late, and stays so.
CommandsAreTrue == [](ExpiredNeverActed /\ SucceededActed) /\ ResultsStay

\* Every command ends.
CommandsEnd ==
  \A c \in Commands : command[c].status = "pending" ~> command[c].status \in Ended

\* A command that took effect is not reported as a failure, also when the
\* process that carried it out was restarted before it could report.
FailureHadNoEffect ==
  \A c \in Commands : command[c].status \in {"failed", "rejected"} => effects[c] = 0
=============================================================================
