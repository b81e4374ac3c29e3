----------------------------- MODULE SyncClient -----------------------------
(***************************************************************************)
(* The palbeacon command line client on the host of one world: init, run,  *)
(* sync --once and logout as processes that share one configuration file,  *)
(* and their requests to the sync API.                                     *)
(*                                                                         *)
(* A request is sent up to three times.  One that is given up (30 s) may   *)
(* never arrive, or be carried out at any later time.  run reads the file  *)
(* once and writes all of it after every cycle.                            *)
(*                                                                         *)
(* A save stands for its content and its time of modification: restoring a *)
(* backup brings both back.                                                *)
(***************************************************************************)
EXTENDS SyncServer

CONSTANTS Processes,
          TheWorld,      \* the world of the save directory
          MaxParser,     \* bound: versions of the bundled parser
          MaxFaults      \* bound: requests given up or answered with a 5xx

ClientAssumption ==
  /\ TheWorld \in Worlds /\ MaxTime > 0 /\ MaxParser \in Nat \ {0}
  /\ None \notin Times \X (1..MaxParser)

VARIABLES save,      \* what the game has written last
          parser,    \* version of the installed parser
          file,      \* config.json
          proc,      \* the client's processes
          strays,    \* requests given up that may still be carried out
          accepted,  \* history: devices and what they uploaded successfully
          faults     \* what MaxFaults leaves

clientVars == <<save, parser, file, proc, strays, accepted, faults>>
vars == <<serverVars, clientVars>>

Attempts == 3
NoFile == [device |-> None, last |-> None]
\* "last" is last_save_hash with last_parser_version.
NoProcess == [cmd |-> "none", at |-> "end", conf |-> NoFile, snap |-> None,
              call |-> None, attempt |-> 0, stopping |-> FALSE]

Init ==
  /\ ServerInit
  /\ save = 1 /\ parser = 1
  /\ file = NoFile
  /\ proc = [p \in Processes |-> NoProcess]
  /\ strays = {} /\ accepted = {}
  /\ faults = MaxFaults

Set(p, row) == proc' = [proc EXCEPT ![p] = row]

-----------------------------------------------------------------------------
\* What a process is about to send.
Request(p) ==
  [kind |-> proc[p].call, code |-> IF proc[p].call = "pair" THEN proc[p].snap ELSE None,
   device |-> proc[p].conf.device,
   snap |-> IF proc[p].call = "upload" THEN proc[p].snap ELSE None]

\* The route handlers' answer: its HTTP status (syncError).
StatusOf(refusal) ==
  CASE refusal = "SYNC_DEVICE_UNAUTHORIZED"  -> 401
    [] refusal = "SYNC_PAIRING_CODE_INVALID" -> 400
    [] refusal = "SYNC_PAIRING_CODE_EXPIRED" -> 410
    [] refusal \in {"SYNC_DEVICE_WORLD_MISMATCH", "SYNC_WORLD_OWNED_BY_OTHER",
                    "INVENTORY_SNAPSHOT_STALE"} -> 409
    [] OTHER -> 503

Refusal(q) ==
  CASE q.kind = "pair"      -> PairRefusal(q.code)
    [] q.kind = "heartbeat" -> "SYNC_DEVICE_UNAUTHORIZED"
    [] q.kind = "upload"    -> PublishRefusal(q.device, TheWorld, q.snap[1])

CanServe(q) ==
  CASE q.kind = "pair"      -> code[q.code].state = "open"
    [] q.kind = "heartbeat" -> Authorized(q.device)
    [] q.kind = "upload"    -> MayPublish(q.device, TheWorld, q.snap[1])

\* The request is carried out; d is the device a pairing makes.
Served(q, d) ==
  \/ q.kind = "pair" /\ Consume(q.code, d) /\ UNCHANGED accepted
  \/ q.kind = "heartbeat" /\ UNCHANGED <<serverVars, accepted>>
  \/ /\ q.kind = "upload"
     /\ Publish(q.device, TheWorld, q.snap[1])
     /\ accepted' = accepted \cup {<<q.device, q.snap>>}

-----------------------------------------------------------------------------
\* An error of a cycle is logged by run, which waits for the next one; it ends
\* every other command.  A lost authorization ends run too.
Failed(p) == IF proc[p].cmd = "run" THEN [proc[p] EXCEPT !.at = "wait", !.snap = None, !.call = None]
                                    ELSE NoProcess

\* Mutation: run goes on whatever the error is.
FailedWith401Kept(p, status) == Failed(p)

FailedWith(p, status) == IF status = 401 THEN NoProcess ELSE Failed(p)

\* The request is answered.
Reply(p) ==
  /\ proc[p].at = "call"
  /\ LET q == Request(p) IN
     \/ /\ CanServe(q)
        /\ \E d \in Devices :
             /\ Served(q, d)
             /\ Set(p, [proc[p] EXCEPT !.at = "save",
                          !.conf = IF q.kind = "pair" THEN [device |-> d, last |-> None] ELSE @])
     \/ /\ ~CanServe(q)
        /\ Set(p, FailedWith(p, StatusOf(Refusal(q))))
        /\ UNCHANGED <<serverVars, accepted>>
  /\ UNCHANGED <<save, parser, file, strays, faults>>

NextAttempt(p) ==
  IF proc[p].attempt < Attempts THEN [proc[p] EXCEPT !.attempt = @ + 1] ELSE Failed(p)

\* No answer within the timeout, or a 5xx: the request is sent again, up to
\* three times in all.
GiveUp(p) ==
  /\ proc[p].at = "call"
  /\ faults > 0
  /\ faults' = faults - 1
  /\ Set(p, NextAttempt(p))
  /\ strays' \in {strays, strays \cup {Request(p)}}
  /\ UNCHANGED <<serverVars, save, parser, file, accepted>>

\* A request that was given up is carried out after all, or refused.
Stray(q) ==
  /\ strays' = strays \ {q}
  /\ \/ CanServe(q) /\ \E d \in Devices : Served(q, d)
     \/ ~CanServe(q) /\ UNCHANGED <<serverVars, accepted>>
  /\ UNCHANGED <<save, parser, file, proc, faults>>

-----------------------------------------------------------------------------
\* palbeacon init: with a configuration there, only after the user has agreed
\* to replace it or with --force.
StartInit(p, c) ==
  /\ proc[p] = NoProcess
  /\ code[c].state \in {"open", "expired", "consumed"}
  /\ Set(p, [NoProcess EXCEPT !.cmd = "init", !.at = "call", !.call = "pair",
                               !.snap = c, !.attempt = 1])
  /\ UNCHANGED <<serverVars, save, parser, file, strays, accepted, faults>>

\* Mutation: the state of the configuration that is replaced is kept.
FinishInitKeepingState(p) ==
  /\ proc[p].cmd = "init" /\ proc[p].at = "save"
  /\ file' = [proc[p].conf EXCEPT !.last = file.last]
  /\ Set(p, NoProcess)
  /\ UNCHANGED <<serverVars, save, parser, strays, accepted, faults>>

FinishInit(p) ==
  /\ proc[p].cmd = "init" /\ proc[p].at = "save"
  /\ file' = proc[p].conf
  /\ Set(p, NoProcess)
  /\ UNCHANGED <<serverVars, save, parser, strays, accepted, faults>>

\* palbeacon run and palbeacon sync --once: the configuration is read once.
StartSync(p, cmd) ==
  /\ proc[p] = NoProcess
  /\ file # NoFile
  /\ Set(p, [NoProcess EXCEPT !.cmd = cmd, !.at = "cycle", !.conf = file])
  /\ UNCHANGED <<serverVars, save, parser, file, strays, accepted, faults>>

\* palbeacon logout
Logout ==
  /\ file # NoFile
  /\ file' = NoFile
  /\ UNCHANGED <<serverVars, save, parser, proc, strays, accepted, faults>>

-----------------------------------------------------------------------------
\* Mutation: a heartbeat is sent after the first upload whatever was saved since.
BeginCycleOnce(p) ==
  /\ proc[p].at = "cycle"
  /\ Set(p, [proc[p] EXCEPT !.at = "call", !.attempt = 1, !.snap = <<save, parser>>,
             !.call = IF proc[p].conf.last # None THEN "heartbeat" ELSE "upload"])
  /\ UNCHANGED <<serverVars, save, parser, file, strays, accepted, faults>>

\* syncOnce: the save is copied and hashed; if neither it nor the parser has
\* changed since the last success a heartbeat is enough.
BeginCycle(p) ==
  /\ proc[p].at = "cycle"
  /\ Set(p, [proc[p] EXCEPT !.at = "call", !.attempt = 1, !.snap = <<save, parser>>,
             !.call = IF proc[p].conf.last = <<save, parser>> THEN "heartbeat" ELSE "upload"])
  /\ UNCHANGED <<serverVars, save, parser, file, strays, accepted, faults>>

\* The copy or the parser fails.
CycleFails(p) ==
  /\ proc[p].at = "cycle"
  /\ faults > 0 /\ faults' = faults - 1
  /\ Set(p, Failed(p))
  /\ UNCHANGED <<serverVars, save, parser, file, strays, accepted>>

Recorded(p) == [proc[p].conf EXCEPT !.last = proc[p].snap]

EndCycle(p) ==
  IF proc[p].cmd = "once" \/ proc[p].stopping THEN NoProcess
  ELSE [proc[p] EXCEPT !.at = "wait", !.conf = Recorded(p), !.snap = None, !.call = None]

\* updateState: the whole configuration is written, as this process knows it.
FinishCycle(p) ==
  /\ proc[p].cmd \in {"run", "once"} /\ proc[p].at = "save"
  /\ file' = Recorded(p)
  /\ Set(p, EndCycle(p))
  /\ UNCHANGED <<serverVars, save, parser, strays, accepted, faults>>

\* The file cannot be written; the process has recorded the success all the same.
WriteFails(p) ==
  /\ proc[p].at = "save"
  /\ faults > 0 /\ faults' = faults - 1
  /\ Set(p, IF proc[p].cmd = "run" THEN EndCycle(p) ELSE NoProcess)
  /\ UNCHANGED <<serverVars, save, parser, file, strays, accepted>>

\* interval_seconds have passed, or the process has been told to stop.
Wake(p) ==
  /\ proc[p].at = "wait"
  /\ Set(p, IF proc[p].stopping THEN NoProcess ELSE [proc[p] EXCEPT !.at = "cycle"])
  /\ UNCHANGED <<serverVars, save, parser, file, strays, accepted, faults>>

\* SIGINT or SIGTERM
Signal(p) ==
  /\ proc[p].cmd = "run" /\ ~proc[p].stopping
  /\ Set(p, [proc[p] EXCEPT !.stopping = TRUE])
  /\ UNCHANGED <<serverVars, save, parser, file, strays, accepted, faults>>

\* A process is killed; its request may be under way.
Kill(p) ==
  /\ proc[p] # NoProcess
  /\ faults > 0 /\ faults' = faults - 1
  /\ Set(p, NoProcess)
  /\ strays' \in {strays} \cup (IF proc[p].at = "call" THEN {strays \cup {Request(p)}} ELSE {})
  /\ UNCHANGED <<serverVars, save, parser, file, accepted>>

-----------------------------------------------------------------------------
\* The game writes its save, or a backup is restored.
WriteSave ==
  /\ save' \in Times \ {save}
  /\ UNCHANGED <<serverVars, parser, file, proc, strays, accepted, faults>>

\* A new version of the client is installed.
Upgrade ==
  /\ parser < MaxParser /\ parser' = parser + 1
  /\ UNCHANGED <<serverVars, save, file, proc, strays, accepted, faults>>

\* The user at the web application.
AtWeb ==
  /\ \/ \E c \in Codes : OpenCode(c) \/ ExpireCode(c) \/ \E u \in Users : BeginCode(c, u)
     \/ \E d \in Devices : Authorized(d) /\ Revoke(d)
  /\ UNCHANGED clientVars

Step(p) ==
  \/ Reply(p) \/ BeginCycle(p) \/ FinishCycle(p) \/ Wake(p) \/ FinishInit(p)

Fault(p) == GiveUp(p) \/ CycleFails(p) \/ WriteFails(p) \/ Kill(p)

Command(p) ==
  \/ \E c \in Codes : StartInit(p, c)
  \/ \E cmd \in {"run", "once"} : StartSync(p, cmd)
  \/ Signal(p)

Next ==
  \/ \E p \in Processes : Step(p) \/ Fault(p) \/ Command(p)
  \/ \E q \in strays : Stray(q)
  \/ Logout \/ WriteSave \/ Upgrade \/ AtWeb

Spec == Init /\ [][Next]_vars

\* Processes run, and the server answers what is not given up.
Fairness == \A p \in Processes : WF_vars(Step(p))

FairSpec == Spec /\ Fairness

-----------------------------------------------------------------------------
Configs == [device : Devices \cup {None}, last : (Times \X (1..MaxParser)) \cup {None}]

ClientTypeOK ==
  /\ ServerTypeOK
  /\ file \in Configs
  /\ \A p \in Processes : /\ proc[p].conf \in Configs
                          /\ proc[p].attempt \in 0..Attempts
                          /\ proc[p].at = "call" => proc[p].attempt # 0
                          /\ proc[p].cmd \in {"none", "init", "run", "once"}
                          /\ proc[p].at \in {"end", "cycle", "call", "save", "wait"}

\* What a configuration, in the file or in a process, remembers as uploaded was
\* accepted from this very device, as this version of the parser reads it: no
\* heartbeat ever stands for a save that the server does not have.
UnchangedIsTrue ==
  \A conf \in {file} \cup {proc[p].conf : p \in Processes} :
    conf.last # None => <<conf.device, conf.last>> \in accepted

\* A run whose device is revoked ends by itself.
RevokedRunEnds ==
  \A p \in Processes : \A d \in Devices :
    (proc[p].cmd = "run" /\ proc[p].conf.device = d /\ device[d].state = "revoked")
      ~> (proc[p].cmd # "run" \/ proc[p].conf.device # d)

Delivered(d, s) ==
  \/ \E v \in 1..MaxParser : <<d, <<s, v>>>> \in accepted
  \/ d \in Devices /\ ~MayPublish(d, TheWorld, s)

\* A save that stays is uploaded by a run that goes on, or the server refuses it.
SaveArrives ==
  \A p \in Processes, s \in Times :
    <>[](save = s /\ proc[p].cmd = "run")
      => <>Delivered(proc[p].conf.device, s)

\* The configuration is replaced or deleted by init and logout only.
ConfigIsTheUsers ==
  [][file'.device # file.device =>
       file' = NoFile \/ \E p \in Processes : FinishInit(p)]_vars
=============================================================================
