------------------------------ MODULE JobView -------------------------------
(***************************************************************************)
(* The page of a breeding job in the browser: it asks for the job every    *)
(* two seconds until the job has ended or it has asked often enough, and   *)
(* keeps one route of the plan selected.  The answers arrive in any order, *)
(* late or not at all.                                                     *)
(*                                                                         *)
(* The job is what BreedingJobs makes of it: here its status, its plan     *)
(* and how often it was claimed.                                           *)
(***************************************************************************)
EXTENDS Integers, Sequences, FiniteSets, Functions

CONSTANTS
  Plans,         \* sequences of routes in the order of their ranks: key, ready
  MaxPolls,      \* how often a timer asks, 60
  MaxAttempts,   \* bound: how often the job is claimed
  MaxReloads,    \* bound: how often the player reloads the page
  Slots,         \* bound: the requests that are under way
  None

JobViewAssumption == MaxPolls \in Nat \ {0} /\ None \notin Plans

VARIABLES
  job,        \* the row of the job and its plan
  shown,      \* result: the last answer that was taken
  selected,   \* selectedKey
  timer,      \* the interval, and how often it fired
  paused,     \* pollPaused
  answers,    \* auxiliary: what is on the way to the browser
  reloads     \* bound

view == <<shown, selected, timer, paused, answers, reloads>>
vars == <<job, view>>

Terminal == {"completed", "failed", "cancelled"}
Running  == {"processing", "algorithm_completed", "ai_enriching"}

Keys(plan)  == IF plan = None THEN {} ELSE {plan[n].key : n \in DOMAIN plan}
Ready(plan) == IF plan = None THEN {} ELSE {n \in DOMAIN plan : plan[n].ready}

-----------------------------------------------------------------------------
\* The first route that is ready, or the first one.
Preferred(plan) ==
  IF Keys(plan) = {} THEN None
  ELSE IF Ready(plan) = {} THEN plan[1].key
  ELSE plan[CHOOSE n \in Ready(plan) : \A k \in Ready(plan) : n <= k].key

\* The route whose tree, requirements and scores are displayed.
Displayed ==
  IF Keys(shown.plan) = {} THEN None
  ELSE IF selected \in Keys(shown.plan) THEN selected ELSE shown.plan[1].key

NoTimer == [on |-> FALSE, polls |-> 0]
NewTimer(status) == [on |-> status \notin Terminal, polls |-> 0]

\* Mutation: the effect does not depend on the status.
TimerOnce(status) ==
  IF status \in Terminal THEN NoTimer ELSE timer

\* The effect of the page: another status ends the interval, and starts a new one unless
\* the job has ended.
TimerFor(status) ==
  IF status = shown.status THEN timer ELSE NewTimer(status)

Load ==
  /\ shown' = job
  /\ selected' = Preferred(job.plan)
  /\ timer' = NewTimer(job.status)
  /\ paused' = FALSE
  /\ answers' = [s \in Slots |-> None]

Init ==
  /\ job = [status |-> "pending", plan |-> None, attempts |-> 0]
  /\ shown = job /\ selected = None
  /\ timer = NewTimer("pending") /\ paused = FALSE
  /\ answers = [s \in Slots |-> None]
  /\ reloads = 0

-----------------------------------------------------------------------------
\* The interval fires.
Poll ==
  /\ timer.on
  /\ IF timer.polls >= MaxPolls
     THEN /\ timer' = NoTimer /\ paused' = TRUE
          /\ UNCHANGED answers
     ELSE /\ timer' = [timer EXCEPT !.polls = @ + 1]
          /\ \E s \in Slots : answers[s] = None /\ answers' = [answers EXCEPT ![s] = job]
          /\ UNCHANGED paused
  /\ UNCHANGED <<job, shown, selected, reloads>>

\* The answer of a request, whenever it was sent.
Arrive(s) ==
  /\ answers[s] # None
  /\ answers' = [answers EXCEPT ![s] = None]
  /\ shown' = answers[s]
  /\ selected' = IF selected \in Keys(answers[s].plan) THEN selected
                 ELSE Preferred(answers[s].plan)
  /\ timer' = TimerFor(answers[s].status)
  /\ UNCHANGED <<job, paused, reloads>>

\* No answer, or one that cannot be used: nothing is done.
Lose(s) ==
  /\ answers[s] # None
  /\ answers' = [answers EXCEPT ![s] = None]
  /\ UNCHANGED <<job, shown, selected, timer, paused, reloads>>

Pick ==
  /\ \E key \in Keys(shown.plan) : selected' = key
  /\ UNCHANGED <<job, shown, timer, paused, answers, reloads>>

Reload ==
  /\ reloads < MaxReloads /\ reloads' = reloads + 1
  /\ Load
  /\ UNCHANGED job

-----------------------------------------------------------------------------
Becomes(status) == job' = [job EXCEPT !.status = status]

Claim ==
  /\ job.status \in {"pending", "retry_pending"} /\ job.attempts < MaxAttempts
  /\ job' = [job EXCEPT !.status = "processing", !.attempts = @ + 1]

\* The routes of an attempt are written one after the other, and those of an earlier
\* attempt are deleted at last: another route at a rank that is taken breaks the unique
\* constraint on plan and rank, and nothing is written.
Fits(old, plan) ==
  old # None => \A rank \in DOMAIN old \cap DOMAIN plan : old[rank].key = plan[rank].key

\* Mutation: any status.
PersistAtAnyStatus ==
  \E plan \in Plans :
    /\ Fits(job.plan, plan)
    /\ job' = [job EXCEPT !.status = "algorithm_completed", !.plan = plan]

\* The result of an attempt, or of its call that was repeated, replaces the plan.
Persist ==
  /\ job.status \in {"processing", "algorithm_completed"}
  /\ \E plan \in Plans :
       /\ Fits(job.plan, plan)
       /\ job' = [job EXCEPT !.status = "algorithm_completed", !.plan = plan]

\* The job goes its way: it is tried again, by the worker or by an administrator.
JobStep ==
  /\ \/ Claim
     \/ Persist
     \/ job.status = "algorithm_completed" /\ Becomes("ai_enriching")
     \/ job.status = "ai_enriching" /\ Becomes("completed")
     \/ job.status \in Running /\ job.attempts < MaxAttempts /\ Becomes("retry_pending")
     \/ job.status \in Running /\ Becomes("failed")
     \/ job.status = "failed" /\ job.attempts < MaxAttempts /\ Becomes("retry_pending")
     \/ job.status \notin Terminal /\ Becomes("cancelled")
  /\ UNCHANGED view

Next ==
  \/ Poll \/ Pick \/ Reload \/ JobStep
  \/ \E s \in Slots : Arrive(s) \/ Lose(s)

Spec == Init /\ [][Next]_vars

\* The browser fires the interval, and a request ends.
FairSpec == Spec /\ WF_vars(Poll) /\ \A s \in Slots : WF_vars(Arrive(s) \/ Lose(s))

-----------------------------------------------------------------------------
(***************************************************************************)
(* Properties                                                              *)
(***************************************************************************)
\* A page that shows a job as completed or cancelled shows the plan that the job has and
\* keeps, however often it was tried: no answer of an attempt before the last is shown
\* under a status that came later.
ResultIsFinal == shown.status \in {"completed", "cancelled"} => shown = job

\* A page goes on asking as long as it shows a job that goes on, or says that it does not:
\* also when a late answer takes the job back to a status that it had before its end.
PageIsWatched == ~timer.on => paused \/ shown.status \in Terminal

\* Whatever the order of the answers, the page comes to the status the job has, or it
\* says that it does not refresh any more; a job that failed is not watched.
ViewSettles == <>[](shown.status = job.status \/ paused \/ shown.status = "failed")

\* What says that the refresh is paused is not followed by requests.
PausedIsPaused == [](paused => ~timer.on)
=============================================================================
