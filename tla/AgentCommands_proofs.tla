------------------------ MODULE AgentCommands_proofs ------------------------
(***************************************************************************)
(* What administrators are told of their commands is true, for any number  *)
(* of commands and of command workers, whatever names they have, whichever *)
(* of them die and whichever calls are lost or late.                       *)
(***************************************************************************)
EXTENDS AgentCommands, BreedingJobs_proofs

Places == {"idle", "off", "claimed", "done", "failed", "rejected"}
Begun  == {"processing", "succeeded", "failed", "rejected"}   \* statuses after a claim

CommandRows == [status : {"none", "pending", "expired"} \cup Begun, kind : Kinds,
                job : JobIds \cup {None}, by : {NameOf[p] : p \in Processes} \cup {None}]

CommandTypeOK ==
  /\ command \in [Commands -> CommandRows]
  /\ worker \in [Processes -> [at : Places, has : Commands \cup {None}]]
  /\ onTheWay \subseteq Commands
  /\ effects \in [Commands -> Nat]

\* Whoever has a command, or has had it, got it by a claim: it had begun.
HasBegun(p) ==
  worker[p].at \notin {"idle", "off"} =>
    worker[p].has \in Commands /\ command[worker[p].has].status \in Begun

\* What a command has done, by its status.
EffectsOK(c) ==
  /\ command[c].status \notin Begun => effects[c] = 0
  /\ command[c].status = "succeeded" => effects[c] > 0
  /\ command[c].kind \in JobKinds => command[c].job \in JobIds

CommandInv ==
  /\ CommandTypeOK
  /\ \A p \in Processes : HasBegun(p)
  /\ \A p \in Processes : worker[p].at = "done" => effects[worker[p].has] > 0
  /\ \A c \in onTheWay : command[c].status \in Begun
  /\ \A c \in Commands : EffectsOK(c)

\* Nothing becomes of a command that has ended.
Lasting == \A c \in Commands : command[c].status \in Ended => command'[c] = command[c]

-----------------------------------------------------------------------------
LEMMA CommandsInit == Init => CommandInv
  BY DEF Init, CommandInv, CommandTypeOK, HasBegun, EffectsOK, NoCommand, Idle, CommandRows,
         Places, Begun, Kinds, JobKinds

\* A command is created, claimed or expired; nobody reports on it.
LEMMA ClaimsKeep ==
  ASSUME CommandInv,
         \/ \E c \in Commands : Create(c)
         \/ \E p \in Processes : ClaimCommand(p) \/ ExpirePending(p)
  PROVE  CommandInv' /\ Lasting
  <1>1. ASSUME NEW c \in Commands, Create(c) PROVE CommandInv' /\ Lasting
    <2>1. PICK row \in CommandRows :
            /\ command' = [command EXCEPT ![c] = row] /\ row.status = "pending"
            /\ row.kind \in JobKinds => row.job \in JobIds
      <3>1. ASSUME NEW k \in JobKinds, NEW j \in JobIds
            PROVE  [status |-> "pending", kind |-> k, job |-> j, by |-> None] \in CommandRows
        BY DEF CommandRows, Kinds
      <3>2. [status |-> "pending", kind |-> "other", job |-> None, by |-> None] \in CommandRows
        BY DEF CommandRows, Kinds
      <3> QED
        BY <1>1, <3>1, <3>2 DEF Create, JobKinds
    <2>2. UNCHANGED <<worker, onTheWay, effects>> /\ command[c].status = "none"
      BY <1>1 DEF Create
    <2>3. \A d \in Commands : command'[d] = IF d = c THEN row ELSE command[d]
      BY <2>1 DEF CommandInv, CommandTypeOK
    <2>4. CommandTypeOK'
      BY <2>1, <2>2 DEF CommandInv, CommandTypeOK
    <2>5. \A q \in Processes : HasBegun(q)'
      BY <2>2, <2>3 DEF CommandInv, HasBegun, Begun
    <2>6. \A d \in Commands : EffectsOK(d)'
      BY <2>1, <2>2, <2>3 DEF CommandInv, EffectsOK, Begun
    <2>7. Lasting
      BY <2>2, <2>3 DEF Lasting, Ended
    <2> QED
      BY <2>2, <2>3, <2>4, <2>5, <2>6, <2>7 DEF CommandInv, CommandTypeOK, Begun
  <1>2. ASSUME NEW p \in Processes, ClaimCommand(p) PROVE CommandInv' /\ Lasting
    <2>1. PICK d \in Commands :
            /\ CanClaim(d)
            /\ command' = [e \in Commands |-> IF e = d THEN Claimed(command[e], p)
                                                       ELSE AfterExpiry(command[e], e)]
            /\ worker' = [worker EXCEPT ![p] = [at |-> "claimed", has |-> d]]
      BY <1>2 DEF ClaimCommand
    <2>2. UNCHANGED <<onTheWay, effects>> /\ command[d].status \in {"pending", "processing"}
      BY <1>2, <2>1 DEF ClaimCommand, CanClaim
    <2>3. ASSUME NEW e \in Commands
          PROVE  /\ command'[e] \in CommandRows
                 /\ command'[e].kind = command[e].kind /\ command'[e].job = command[e].job
                 /\ \/ command'[e] = command[e]
                    \/ command'[e].status = "processing"
                       /\ command[e].status \in {"pending", "processing"}
                    \/ command'[e].status = "expired" /\ command[e].status = "pending"
                 /\ e = d => command'[e].status = "processing"
      <3>1. command[e] \in CommandRows
        BY DEF CommandInv, CommandTypeOK
      <3> QED
        BY <2>1, <2>2, <3>1 DEF Claimed, AfterExpiry, CommandRows, Begun
    <2>4. CommandTypeOK'
      BY <2>1, <2>2, <2>3 DEF CommandInv, CommandTypeOK, Places
    <2>5. \A q \in Processes : HasBegun(q)'
      BY <2>1, <2>3 DEF CommandInv, CommandTypeOK, HasBegun, Begun
    <2>6. \A e \in Commands : EffectsOK(e)'
      BY <2>2, <2>3 DEF CommandInv, EffectsOK, Begun
    <2>7. Lasting
      BY <2>3 DEF Lasting, Ended
    <2>8. \A e \in onTheWay' : command'[e].status \in Begun
      BY <2>2, <2>3 DEF CommandInv, CommandTypeOK, Begun
    <2>9. \A q \in Processes : worker'[q].at = "done" => effects'[worker'[q].has] > 0
      BY <2>1, <2>2 DEF CommandInv, CommandTypeOK
    <2> QED
      BY <2>4, <2>5, <2>6, <2>7, <2>8, <2>9 DEF CommandInv
  <1>3. ASSUME NEW p \in Processes, ExpirePending(p) PROVE CommandInv' /\ Lasting
    <2>1. /\ command' = [e \in Commands |-> AfterExpiry(command[e], e)]
          /\ UNCHANGED <<worker, onTheWay, effects>>
      BY <1>3 DEF ExpirePending
    <2>2. ASSUME NEW e \in Commands
          PROVE  /\ command'[e] \in CommandRows
                 /\ command'[e].kind = command[e].kind /\ command'[e].job = command[e].job
                 /\ \/ command'[e] = command[e]
                    \/ command'[e].status = "expired" /\ command[e].status = "pending"
      <3>1. command[e] \in CommandRows
        BY DEF CommandInv, CommandTypeOK
      <3> QED
        BY <2>1, <3>1 DEF AfterExpiry, CommandRows
    <2>3. CommandTypeOK'
      BY <2>1, <2>2 DEF CommandInv, CommandTypeOK
    <2>4. \A q \in Processes : HasBegun(q)'
      BY <2>1, <2>2 DEF CommandInv, HasBegun, Begun
    <2>5. \A e \in Commands : EffectsOK(e)'
      BY <2>1, <2>2 DEF CommandInv, EffectsOK, Begun
    <2>6. Lasting
      BY <2>2 DEF Lasting, Ended
    <2> QED
      BY <2>1, <2>2, <2>3, <2>4, <2>5, <2>6 DEF CommandInv, CommandTypeOK, Begun
  <1> QED
    BY <1>1, <1>2, <1>3

\* An action is carried out once more, or not at all.
Acted(S) ==
  /\ effects' \in [Commands -> Nat]
  /\ \A c \in Commands : effects'[c] >= effects[c] /\ (c \notin S => effects'[c] = effects[c])

LEMMA ActActs ==
  ASSUME CommandInv, NEW c \in Commands, Act(c)
  PROVE  Acted({c}) /\ effects'[c] > 0
  BY DEF CommandInv, CommandTypeOK, Act, Acted

\* An action changes no command, and only what has begun takes effect.
LEMMA EffectsKeep ==
  ASSUME CommandInv, command' = command, NEW S \in SUBSET Commands, Acted(S),
         \A c \in S : command[c].status \in Begun,
         worker' \in [Processes -> [at : Places, has : Commands \cup {None}]],
         \A p \in Processes :
           \/ worker'[p] = worker[p] \/ worker'[p].at \in {"idle", "off"}
           \/ /\ worker'[p].has = worker[p].has /\ worker[p].at \notin {"idle", "off"}
              /\ worker'[p].at = "done" => effects'[worker[p].has] > 0,
         onTheWay' \subseteq onTheWay
           \cup {worker[p].has : p \in {q \in Processes : worker[q].at \notin {"idle", "off"}}}
  PROVE  CommandInv' /\ Lasting
  <1>1. \A q \in Processes : worker[q].at \notin {"idle", "off"} =>
          worker[q].has \in Commands /\ command[worker[q].has].status \in Begun
    BY DEF CommandInv, HasBegun
  <1>2. CommandTypeOK'
    BY <1>1 DEF CommandInv, CommandTypeOK, Acted
  <1>3. \A q \in Processes : HasBegun(q)'
    BY <1>1 DEF HasBegun
  <1>4. \A c \in Commands : EffectsOK(c)'
    BY DEF CommandInv, CommandTypeOK, EffectsOK, Acted
  <1>5. ASSUME NEW p \in Processes, worker'[p].at = "done" PROVE effects'[worker'[p].has] > 0
    <2>1. CASE worker'[p] = worker[p]
      <3>1. worker[p].has \in Commands /\ effects[worker[p].has] > 0
        BY <1>1, <1>5, <2>1 DEF CommandInv
      <3> QED
        BY <2>1, <3>1 DEF Acted, CommandInv, CommandTypeOK
    <2> QED
      BY <1>5, <2>1
  <1> QED
    BY <1>1, <1>2, <1>3, <1>4, <1>5 DEF CommandInv, CommandTypeOK, Lasting

LEMMA ActionsKeep ==
  ASSUME CommandInv, NEW p \in Processes,
         ActionDone(p) \/ ActionRefused(p) \/ ActionUnanswered(p) \/ RejectExpired(p)
  PROVE  CommandInv' /\ Lasting
  <1>0. /\ worker \in [Processes -> [at : Places, has : Commands \cup {None}]]
        /\ effects \in [Commands -> Nat] /\ Acted({}) <=> effects' = effects
        /\ worker[p].at = "claimed" =>
             worker[p].has \in Commands /\ command[worker[p].has].status \in Begun
        /\ onTheWay \subseteq Commands /\ \A d \in onTheWay : command[d].status \in Begun
    BY DEF CommandInv, CommandTypeOK, Acted, HasBegun
  <1>1. CASE ActionDone(p)
    <2>1. Acted({worker[p].has}) /\ effects'[worker[p].has] > 0
      BY <1>0, <1>1, ActActs DEF ActionDone
    <2> QED
      BY <1>0, <1>1, <2>1, EffectsKeep DEF ActionDone, Places
  <1>2. CASE ActionRefused(p) \/ RejectExpired(p)
    <2>1. /\ worker[p].at = "claimed" /\ UNCHANGED <<command, onTheWay, effects>>
          /\ \E at \in {"failed", "rejected"} : worker' = [worker EXCEPT ![p].at = at]
      BY <1>2 DEF ActionRefused, RejectExpired
    <2> QED
      BY <1>0, <2>1, EffectsKeep DEF Places
  <1>3. CASE ActionUnanswered(p)
    <2>1. /\ worker[p].at = "claimed" /\ command' = command
          /\ worker' = [worker EXCEPT ![p].at = "failed"]
          /\ \/ Act(worker[p].has) /\ onTheWay' = onTheWay
             \/ onTheWay' = onTheWay \cup {worker[p].has} /\ effects' = effects
      BY <1>3 DEF ActionUnanswered
    <2>2. Acted({worker[p].has})
      BY <1>0, <2>1, ActActs DEF Acted
    <2> QED
      BY <1>0, <2>1, <2>2, EffectsKeep DEF Places
  <1> QED
    BY <1>1, <1>2, <1>3

LEMMA LateActionsKeep ==
  ASSUME CommandInv, NEW c \in Commands, LateAction(c)
  PROVE  CommandInv' /\ Lasting
  <1>1. /\ worker \in [Processes -> [at : Places, has : Commands \cup {None}]]
        /\ effects \in [Commands -> Nat] /\ c \in onTheWay /\ command[c].status \in Begun
    BY DEF CommandInv, CommandTypeOK, LateAction
  <1>2. Acted({c})
    BY <1>1, ActActs DEF LateAction, Acted
  <1> QED
    BY <1>1, <1>2, EffectsKeep DEF LateAction

\* A result is written by whoever holds the command, or by nobody.
LEMMA ReportsKeep ==
  ASSUME CommandInv, NEW p \in Processes,
         Report(p) \/ ReportUnanswered(p) \/ Crash(p) \/ Start(p)
  PROVE  CommandInv' /\ Lasting
  <1>1. /\ worker \in [Processes -> [at : Places, has : Commands \cup {None}]]
        /\ command \in [Commands -> CommandRows]
        /\ UNCHANGED <<onTheWay, effects>>
    BY DEF CommandInv, CommandTypeOK, Report, ReportUnanswered, Crash, Start
  <1>2. worker' = [worker EXCEPT ![p] = Idle] \/ worker' = [worker EXCEPT ![p] = Off]
    BY DEF Report, ReportUnanswered, Crash, Start
  <1>3. \/ command' = command
        \/ /\ worker[p].at \in {"done", "failed", "rejected"}
           /\ command[worker[p].has].status = "processing"
           /\ command' = [command EXCEPT ![worker[p].has].status = Result(worker[p].at)]
    BY DEF Report, ReportUnanswered, Accepts, Crash, Start
  <1>4. CASE command' = command
    <2>1. worker' \in [Processes -> [at : Places, has : Commands \cup {None}]]
      BY <1>1, <1>2 DEF Idle, Off, Places
    <2>2. \A q \in Processes : worker'[q] = worker[q] \/ worker'[q].at \in {"idle", "off"}
      BY <1>1, <1>2 DEF Idle, Off
    <2>3. Acted({})
      BY <1>1 DEF Acted, CommandInv, CommandTypeOK
    <2> QED
      BY <1>1, <1>4, <2>1, <2>2, <2>3, EffectsKeep
  <1>5. CASE /\ worker[p].at \in {"done", "failed", "rejected"}
             /\ command[worker[p].has].status = "processing"
             /\ command' = [command EXCEPT ![worker[p].has].status = Result(worker[p].at)]
    <2>1. PICK d \in Commands : d = worker[p].has
      BY <1>5 DEF CommandInv, HasBegun
    <2>2. PICK result \in {"succeeded", "failed", "rejected"} :
            /\ result = Result(worker[p].at)
            /\ result = "succeeded" <=> worker[p].at = "done"
      BY <1>5 DEF Result
    <2>3. \A e \in Commands : command'[e] =
            IF e = d THEN [command[e] EXCEPT !.status = result] ELSE command[e]
      BY <1>1, <1>5, <2>1, <2>2
    <2>4. ASSUME NEW e \in Commands
          PROVE  /\ command'[e] \in CommandRows
                 /\ command'[e].kind = command[e].kind /\ command'[e].job = command[e].job
                 /\ command[e].status \in Begun <=> command'[e].status \in Begun
                 /\ e = d => command'[e].status = result
                 /\ e # d => command'[e] = command[e]
      <3>1. command[e] \in CommandRows /\ command[d].status = "processing"
        BY <1>1, <1>5, <2>1
      <3>2. CASE e = d
        <4>1. command'[e] = [command[e] EXCEPT !.status = result]
          BY <2>3, <3>2
        <4> QED
          BY <3>1, <3>2, <4>1 DEF CommandRows, Begun
      <3>3. CASE e # d
        BY <2>3, <3>1, <3>3
      <3> QED
        BY <3>2, <3>3
    <2>5. CommandTypeOK'
      <3>1. worker' \in [Processes -> [at : Places, has : Commands \cup {None}]]
        BY <1>1, <1>2 DEF Idle, Off, Places
      <3>2. command' \in [Commands -> CommandRows]
        BY <1>1, <1>5, <2>4
      <3> QED
        BY <1>1, <3>1, <3>2 DEF CommandInv, CommandTypeOK
    <2>6. \A q \in Processes : HasBegun(q)'
      BY <1>1, <1>2, <2>4 DEF CommandInv, HasBegun, Idle, Off
    <2>7. \A e \in Commands : EffectsOK(e)'
      BY <1>1, <2>1, <2>2, <2>4 DEF CommandInv, EffectsOK
    <2>8. Lasting
      BY <1>5, <2>1, <2>4 DEF Lasting, Ended
    <2>9. \A q \in Processes : worker'[q].at = "done" => effects'[worker'[q].has] > 0
      BY <1>1, <1>2 DEF CommandInv, Idle, Off
    <2> QED
      BY <1>1, <2>4, <2>5, <2>6, <2>7, <2>8, <2>9 DEF CommandInv, CommandTypeOK
  <1> QED
    BY <1>3, <1>4, <1>5

LEMMA CommandStep ==
  ASSUME CommandInv, [Next]_vars
  PROVE  CommandInv' /\ Lasting
  <1>1. ASSUME UNCHANGED <<command, worker, onTheWay, effects>>
        PROVE  CommandInv' /\ Lasting
    BY <1>1 DEF CommandInv, CommandTypeOK, HasBegun, EffectsOK, Lasting
  <1>2. ASSUME NEW c \in Commands, Expire(c) \/ GoStale(c)
        PROVE  UNCHANGED <<command, worker, onTheWay, effects>>
    BY <1>2 DEF Expire, GoStale
  <1>3. CASE JobStep \/ UNCHANGED vars
    BY <1>1, <1>3 DEF JobStep, vars, commandVars
  <1> QED
    BY <1>1, <1>2, <1>3, ClaimsKeep, ActionsKeep, LateActionsKeep, ReportsKeep DEF Next

-----------------------------------------------------------------------------
\* A command reaches the queue through the functions of BreedingJobs.
LEMMA ActIsCall ==
  ASSUME CommandInv, NEW c \in Commands, Act(c)
  PROVE  JobNext \/ UNCHANGED jobVars
  <1>1. CASE ActOnJob(c)
    <2>1. command[c].job \in JobIds
      BY <1>1 DEF ActOnJob, JobKinds, CommandInv, EffectsOK
    <2>2. AdminCall(command[c].job)
      BY <1>1 DEF ActOnJob, AdminCall
    <2> QED
      BY <2>1, <2>2 DEF JobNext
  <1> QED
    BY <1>1 DEF Act

LEMMA StepUsesQueue ==
  ASSUME CommandInv, JobInv, [Next]_vars
  PROVE  [JobNext]_jobVars
  <1>1. CASE JobStep
    <2>1. ASSUME NEW j \in JobIds, NEW w \in Workers, NEW t,
                 Complete(j, w, t) \/ Fail(j, w, t, FALSE)
          PROVE  JobNext
      <3>1. Owns(j, w, t)
        BY <2>1, Zenon DEF Complete, Fail
      <3>2. t \in 1..lastLease
        BY <3>1 DEF JobInv, TypeOK, Rows, Locked, LeasesDrawn, Owns, NoLease
      <3>3. WorkerCall(j, w, t)
        BY <2>1 DEF WorkerCall
      <3> QED
        BY <3>2, <3>3 DEF JobNext
    <2> QED
      BY <1>1, <2>1 DEF JobStep, JobNext
  <1>2. ASSUME NEW p \in Processes, ActionDone(p) \/ ActionUnanswered(p)
        PROVE  JobNext \/ UNCHANGED jobVars
    <2>1. worker[p].has \in Commands
      BY <1>2 DEF ActionDone, ActionUnanswered, CommandInv, HasBegun
    <2> QED
      BY <1>2, <2>1, ActIsCall DEF ActionDone, ActionUnanswered
  <1>3. ASSUME NEW c \in Commands, LateAction(c)
        PROVE  JobNext \/ UNCHANGED jobVars
    BY <1>3, ActIsCall DEF LateAction
  <1>4. ASSUME NEW c \in Commands, Create(c) \/ Expire(c) \/ GoStale(c)
        PROVE  UNCHANGED jobVars
    BY <1>4 DEF Create, Expire, GoStale
  <1>5. ASSUME NEW p \in Processes,
               \/ ClaimCommand(p) \/ ExpirePending(p) \/ ActionRefused(p) \/ RejectExpired(p)
               \/ Report(p) \/ ReportUnanswered(p) \/ Crash(p) \/ Start(p)
        PROVE  UNCHANGED jobVars
    BY <1>5 DEF ClaimCommand, ExpirePending, ActionRefused, RejectExpired, Report,
                ReportUnanswered, Crash, Start
  <1>6. CASE UNCHANGED vars
    BY <1>6 DEF vars
  <1> QED
    BY <1>1, <1>2, <1>3, <1>4, <1>5, <1>6 DEF Next

\* An expired command has done nothing, a command reported as done was carried
\* out, and a result stays: also when a process dies or a call of dispatch,
\* complete_agent_command or fail_agent_command is lost or late.
THEOREM CommandsStayTrue == Spec => CommandsAreTrue
  <1>1. Init => CommandInv /\ JobInv /\ JobInit
    BY CommandsInit, InitInv DEF Init
  <1>2. CommandInv /\ JobInv /\ [Next]_vars =>
          /\ CommandInv' /\ JobInv'
          /\ [ResultsKept]_vars
    BY CommandStep, StepUsesQueue, StepInv DEF Lasting, ResultsKept
  <1>3. CommandInv => ExpiredNeverActed /\ SucceededActed
    BY DEF CommandInv, EffectsOK, ExpiredNeverActed, SucceededActed, Begun
  <1> QED
    BY <1>1, <1>2, <1>3, PTL DEF Spec, CommandsAreTrue, ResultsStay
=============================================================================
