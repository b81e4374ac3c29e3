------------------------- MODULE JobWorkers_proofs -------------------------
(***************************************************************************)
(* The workers only reach the queue through its operations, so everything  *)
(* proved of BreedingJobs holds of the whole system of workers, whatever   *)
(* calls are lost, late or left behind by processes that died.             *)
(***************************************************************************)
EXTENDS JobWorkers, BreedingJobs_proofs

Places  == {"off", "idle", "claim", "work", "explain"} \cup Calling
Calls   == [at : {"none", "sent", "ok", "refused", "misfit"}, age : Nat]
Beats   == [at : {"off", "waiting", "sent", "ok", "refused", "ended"}, age : Nat, wait : Int]
Claims  == [job : JobIds \cup {None}, lease : Nat]

\* A worker that calls on a job, or whose heartbeat task runs, has claimed one.
Tied(d, k, c, b) ==
  /\ c.at # "none" => d \in Calling
  /\ b.at # "off" => d \in Leased
  /\ d \in Leased \/ (d = "claim" /\ c.at = "ok") => k.job \in JobIds

\* So had the sender of a request that is still on its way.
RequestOK(r) == r.worker \in Workers /\ (r.op # "claim" => r.job \in JobIds)

ClaimsTypeOK ==
  /\ doing \in [Workers -> Places]
  /\ claim \in [Workers -> Claims]
  /\ call \in [Workers -> Calls]
  /\ beat \in [Workers -> Beats]

ClaimsInv ==
  /\ ClaimsTypeOK
  /\ \A w \in Workers : Tied(doing[w], claim[w], call[w], beat[w])
  /\ \A r \in strays : RequestOK(r)

-----------------------------------------------------------------------------
\* Whatever request the database executes is a step of the queue.
LEMMA ExecuteIsCall ==
  ASSUME NEW op, NEW j \in JobIds, NEW w \in Workers, NEW t, JobInv,
         Execute(op, j, w, t)
  PROVE  JobNext
  <1>1. Owns(j, w, t)
    BY Zenon DEF Execute, Heartbeat, PersistAlgorithm, PersistAi, Complete, Fail,
                 Release
  <1>2. t \in 1..lastLease
    BY <1>1 DEF JobInv, TypeOK, Rows, Locked, LeasesDrawn, Owns, NoLease
  <1>3. WorkerCall(j, w, t)
    BY DEF Execute, WorkerCall
  <1> QED
    BY <1>2, <1>3 DEF JobNext

LEMMA ExecuteCallIsCall ==
  ASSUME NEW w \in Workers, JobInv, ClaimsInv, ExecuteCall(w)
  PROVE  JobNext \/ UNCHANGED jobVars
  <1>1. claim[w].job \in JobIds
    BY DEF ExecuteCall, ClaimsInv, Tied, Leased, Executing, Reporting, Calling
  <1>2. CASE Execute(doing[w], claim[w].job, w, claim[w].lease)
    BY <1>1, <1>2, ExecuteIsCall
  <1>3. CASE UNCHANGED jobVars
    BY <1>3
  <1> QED
    BY <1>2, <1>3 DEF ExecuteCall

LEMMA ExecuteBeatIsCall ==
  ASSUME NEW w \in Workers, JobInv, ClaimsInv, ExecuteBeat(w)
  PROVE  JobNext \/ UNCHANGED jobVars
  <1>1. claim[w].job \in JobIds
    BY DEF ExecuteBeat, ClaimsInv, Tied
  <1>2. CASE Heartbeat(claim[w].job, w, claim[w].lease)
    BY <1>1, <1>2, ExecuteIsCall DEF Execute
  <1> QED
    BY <1>2 DEF ExecuteBeat

LEMMA ExecuteStrayIsCall ==
  ASSUME NEW r \in strays, JobInv, ClaimsInv, ExecuteStray(r)
  PROVE  JobNext
  <1>1. RequestOK(r)
    BY DEF ClaimsInv
  <1>2. CASE r.op = "claim"
    BY <1>1, <1>2 DEF ExecuteStray, RequestOK, JobNext
  <1>3. CASE r.op # "claim"
    BY <1>1, <1>3, ExecuteIsCall DEF ExecuteStray, RequestOK
  <1> QED
    BY <1>2, <1>3

-----------------------------------------------------------------------------
\* What a worker sends is a request on the job it has claimed.
LEMMA RequestsOK ==
  ASSUME NEW W \in SUBSET Workers, ClaimsInv
  PROVE  \A r \in OpenCalls(W) \cup OpenBeats(W) : RequestOK(r)
  <1>1. \A w \in W : call[w].at = "sent" => RequestOK(Request(w, doing[w]))
    BY DEF ClaimsInv, ClaimsTypeOK, Tied, Request, RequestOK, Calling, Leased,
           Executing, Reporting
  <1>2. \A w \in W : beat[w].at = "sent" => RequestOK(Request(w, "heartbeat"))
    BY DEF ClaimsInv, ClaimsTypeOK, Tied, Request, RequestOK
  <1> QED
    BY <1>1, <1>2 DEF OpenCalls, OpenBeats

LEMMA LeftBehindOK ==
  ASSUME NEW W \in SUBSET Workers, ClaimsInv, NEW S, LeaveBehind(S),
         S \subseteq OpenCalls(W) \cup OpenBeats(W)
  PROVE  \A r \in strays' : RequestOK(r)
  BY RequestsOK DEF LeaveBehind, ClaimsInv

LEMMA SettleOK ==
  ASSUME NEW W \in SUBSET Workers, NEW to \in {"off", "idle"}, ClaimsInv, Settle(W, to)
  PROVE  ClaimsInv'
  <1>1. \A r \in strays' : RequestOK(r)
    BY LeftBehindOK DEF Settle
  <1>2. ClaimsTypeOK'
    BY DEF Settle, ClaimsInv, ClaimsTypeOK, Places, Claims, Calls, Beats,
           NoClaim, NoCall, NoBeat, NoLease
  <1>3. \A w \in Workers : Tied(doing[w], claim[w], call[w], beat[w])'
    BY DEF Settle, ClaimsInv, ClaimsTypeOK, Tied, NoCall, NoBeat,
           Leased, Executing, Reporting, Calling
  <1> QED
    BY <1>1, <1>2, <1>3 DEF ClaimsInv, RequestOK

LEMMA HostDiesOK ==
  ASSUME NEW h, ClaimsInv, HostDies(h)
  PROVE  ClaimsInv'
  BY SettleOK DEF HostDies, WorkersOf

\* The kinds of step a worker takes without letting go of its claim.
LEMMA MainStepOK ==
  ASSUME NEW w \in Workers, ClaimsInv, JobInv,
         SendClaim(w) \/ ExecuteClaim(w) \/ NothingToClaim(w) \/ ReceiveClaim(w)
           \/ Work(w) \/ Explain(w) \/ ExecuteCall(w) \/ ReceivePersisted(w)
           \/ PersistUnanswered(w) \/ Quit(w) \/ GraceOver(w)
  PROVE  ClaimsInv'
  <1>1. CASE SendClaim(w)
    <2>1. ClaimsTypeOK'
      BY <1>1 DEF SendClaim, ClaimsInv, ClaimsTypeOK, Places, Calling, Reporting,
             Calls, Sent
    <2>2. \A v \in Workers : Tied(doing[v], claim[v], call[v], beat[v])'
      BY <1>1 DEF SendClaim, ClaimsInv, ClaimsTypeOK, Tied, Calling, Leased, Executing,
                  Reporting, Sent
    <2> QED
      BY <1>1, <2>1, <2>2 DEF SendClaim, ClaimsInv, RequestOK
  <1>2. CASE ExecuteClaim(w)
    <2>0. lastLease' \in Nat
      BY <1>2 DEF ExecuteClaim, Claim, JobInv, TypeOK
    <2>1. ClaimsTypeOK'
      BY <1>2, <2>0 DEF ExecuteClaim, ClaimsInv, ClaimsTypeOK, Places, Calling,
                        Reporting, Calls, Claims
    <2>2. \A v \in Workers : Tied(doing[v], claim[v], call[v], beat[v])'
      BY <1>2 DEF ExecuteClaim, ClaimsInv, ClaimsTypeOK, Tied, Calling, Leased,
                  Executing, Reporting, Calls
    <2> QED
      BY <1>2, <2>1, <2>2 DEF ExecuteClaim, ClaimsInv, RequestOK
  <1>3. CASE NothingToClaim(w)
    <2>1. ClaimsTypeOK'
      BY <1>3 DEF NothingToClaim, ClaimsInv, ClaimsTypeOK, Places, Calling, Reporting,
             Calls, NoCall
    <2>2. \A v \in Workers : Tied(doing[v], claim[v], call[v], beat[v])'
      BY <1>3 DEF NothingToClaim, ClaimsInv, ClaimsTypeOK, Tied, Calling, Leased,
                  Executing, Reporting, NoCall
    <2> QED
      BY <1>3, <2>1, <2>2 DEF NothingToClaim, ClaimsInv, RequestOK
  <1>4. CASE ReceiveClaim(w)
    <2>1. ClaimsTypeOK'
      BY <1>4, TimingAssumption DEF ReceiveClaim, ClaimsInv, ClaimsTypeOK, Places,
                                    Calling, Reporting, Calls, Beats, NoCall
    <2>2. \A v \in Workers : Tied(doing[v], claim[v], call[v], beat[v])'
      BY <1>4 DEF ReceiveClaim, ClaimsInv, ClaimsTypeOK, Tied, Calling, Leased,
                  Executing, Reporting, NoCall
    <2> QED
      BY <1>4, <2>1, <2>2 DEF ReceiveClaim, ClaimsInv, RequestOK
  <1>5. CASE Work(w)
    <2>1. ClaimsTypeOK'
      BY <1>5 DEF Work, Call, ClaimsInv, ClaimsTypeOK, Places, Calling, Reporting,
             Calls, Sent
    <2>2. \A v \in Workers : Tied(doing[v], claim[v], call[v], beat[v])'
      BY <1>5 DEF Work, Call, ClaimsInv, ClaimsTypeOK, Tied, Calling, Leased, Executing,
                  Reporting, Sent
    <2> QED
      BY <1>5, <2>1, <2>2 DEF Work, Call, ClaimsInv, RequestOK
  <1>6. CASE Explain(w)
    <2>1. ClaimsTypeOK'
      BY <1>6 DEF Explain, Call, ClaimsInv, ClaimsTypeOK, Places, Calling, Reporting,
             Calls, Sent
    <2>2. \A v \in Workers : Tied(doing[v], claim[v], call[v], beat[v])'
      BY <1>6 DEF Explain, Call, ClaimsInv, ClaimsTypeOK, Tied, Calling, Leased,
                  Executing, Reporting, Sent
    <2> QED
      BY <1>6, <2>1, <2>2 DEF Explain, Call, ClaimsInv, RequestOK
  <1>7. CASE ExecuteCall(w)
    <2>1. ClaimsTypeOK'
      BY <1>7 DEF ExecuteCall, ClaimsInv, ClaimsTypeOK, Places, Calling, Reporting,
             Calls
    <2>2. \A v \in Workers : Tied(doing[v], claim[v], call[v], beat[v])'
      BY <1>7 DEF ExecuteCall, ClaimsInv, ClaimsTypeOK, Tied, Calling, Leased,
                  Executing, Reporting, Calls
    <2> QED
      BY <1>7, <2>1, <2>2 DEF ExecuteCall, ClaimsInv, RequestOK
  <1>8. CASE ReceivePersisted(w)
    <2>1. ClaimsTypeOK'
      BY <1>8 DEF ReceivePersisted, ClaimsInv, ClaimsTypeOK, Places, Calling, Reporting,
             Calls, Sent, NoCall
    <2>2. \A v \in Workers : Tied(doing[v], claim[v], call[v], beat[v])'
      BY <1>8 DEF ReceivePersisted, ClaimsInv, ClaimsTypeOK, Tied, Calling, Leased,
                  Executing, Reporting, Sent, NoCall
    <2> QED
      BY <1>8, <2>1, <2>2 DEF ReceivePersisted, ClaimsInv, RequestOK
  <1>9. CASE PersistUnanswered(w)
    <2>1. ClaimsTypeOK'
      BY <1>9 DEF PersistUnanswered, ClaimsInv, ClaimsTypeOK, Places, Calling,
                  Reporting, Calls, Sent
    <2>2. \A v \in Workers : Tied(doing[v], claim[v], call[v], beat[v])'
      BY <1>9 DEF PersistUnanswered, ClaimsInv, ClaimsTypeOK, Tied, Calling, Leased,
                  Executing, Reporting, Sent
    <2>3. LeaveBehind(OpenCalls({w}))
      BY <1>9 DEF PersistUnanswered
    <2> QED
      BY <2>1, <2>2, <2>3, LeftBehindOK DEF ClaimsInv, RequestOK
  <1>10. CASE Quit(w)
    <2>1. ClaimsTypeOK'
      BY <1>10 DEF Quit, ClaimsInv, ClaimsTypeOK, Places, Calling, Reporting,
             Calls
    <2>2. \A v \in Workers : Tied(doing[v], claim[v], call[v], beat[v])'
      BY <1>10 DEF Quit, ClaimsInv, ClaimsTypeOK, Tied, Calling, Leased, Executing,
                   Reporting, Calls
    <2> QED
      BY <1>10, <2>1, <2>2 DEF Quit, ClaimsInv, RequestOK
  <1>11. CASE GraceOver(w)
    <2>1. ClaimsTypeOK'
      BY <1>11 DEF GraceOver, GraceIsOver, ClaimsInv, ClaimsTypeOK, Places, Calling,
                   Reporting, Calls, Sent
    <2>2. \A v \in Workers : Tied(doing[v], claim[v], call[v], beat[v])'
      BY <1>11 DEF GraceOver, GraceIsOver, ClaimsInv, ClaimsTypeOK, Tied, Calling,
                   Leased, Executing, Reporting, Sent
    <2>3. LeaveBehind(OpenCalls({w}))
      BY <1>11 DEF GraceOver, GraceIsOver
    <2> QED
      BY <2>1, <2>2, <2>3, LeftBehindOK DEF ClaimsInv, RequestOK
  <1> QED
    BY <1>1, <1>2, <1>3, <1>4, <1>5, <1>6, <1>7, <1>8, <1>9, <1>10, <1>11

\* The steps of the heartbeat task that leave the main task alone.
LEMMA BeatStepOK ==
  ASSUME NEW w \in Workers, ClaimsInv,
         SendBeat(w) \/ ExecuteBeat(w) \/ BeatAnswered(w) \/ BeatUnanswered(w)
  PROVE  ClaimsInv'
  <1>1. CASE SendBeat(w)
    <2>1. ClaimsTypeOK'
      BY <1>1 DEF SendBeat, ClaimsInv, ClaimsTypeOK, Places, Calling, Reporting,
             Beats
    <2>2. \A v \in Workers : Tied(doing[v], claim[v], call[v], beat[v])'
      BY <1>1 DEF SendBeat, ClaimsInv, ClaimsTypeOK, Tied, Calling, Leased, Executing,
                  Reporting, Beats
    <2> QED
      BY <1>1, <2>1, <2>2 DEF SendBeat, ClaimsInv, RequestOK
  <1>2. CASE ExecuteBeat(w)
    <2>1. ClaimsTypeOK'
      BY <1>2 DEF ExecuteBeat, ClaimsInv, ClaimsTypeOK, Places, Calling, Reporting,
             Beats
    <2>2. \A v \in Workers : Tied(doing[v], claim[v], call[v], beat[v])'
      BY <1>2 DEF ExecuteBeat, ClaimsInv, ClaimsTypeOK, Tied, Calling, Leased,
                  Executing, Reporting, Beats
    <2> QED
      BY <1>2, <2>1, <2>2 DEF ExecuteBeat, ClaimsInv, RequestOK
  <1>3. CASE BeatAnswered(w)
    <2>1. ClaimsTypeOK'
      BY <1>3, TimingAssumption DEF BeatAnswered, ClaimsInv, ClaimsTypeOK, Places,
                                    Calling, Reporting, Beats
    <2>2. \A v \in Workers : Tied(doing[v], claim[v], call[v], beat[v])'
      BY <1>3 DEF BeatAnswered, ClaimsInv, ClaimsTypeOK, Tied, Calling, Leased,
                  Executing, Reporting, Beats
    <2> QED
      BY <1>3, <2>1, <2>2 DEF BeatAnswered, ClaimsInv, RequestOK
  <1>4. CASE BeatUnanswered(w)
    <2>1. ClaimsTypeOK'
      BY <1>4 DEF BeatUnanswered, InFlight, ClaimsInv, ClaimsTypeOK, Places, Calling,
                  Reporting, Beats
    <2>2. \A v \in Workers : Tied(doing[v], claim[v], call[v], beat[v])'
      BY <1>4 DEF BeatUnanswered, InFlight, ClaimsInv, ClaimsTypeOK, Tied, Calling,
                  Leased, Executing, Reporting, Beats
    <2>3. LeaveBehind(OpenBeats({w}))
      BY <1>4 DEF BeatUnanswered, InFlight
    <2> QED
      BY <2>1, <2>2, <2>3, LeftBehindOK DEF ClaimsInv, RequestOK
  <1> QED
    BY <1>1, <1>2, <1>3, <1>4

LEMMA BeatEndsOK ==
  ASSUME NEW w \in Workers, ClaimsInv, BeatEnds(w)
  PROVE  ClaimsInv'
  <1>1. CASE Settle({w}, "idle")
    BY <1>1, SettleOK
  <1>2. CASE /\ LeaveBehind(OpenBeats({w}))
             /\ beat' = [beat EXCEPT ![w] = [NoBeat EXCEPT !.at = "ended"]]
             /\ UNCHANGED <<doing, claim, call, grace>>
    <2>1. ClaimsTypeOK'
      BY <1>2 DEF ClaimsInv, ClaimsTypeOK, Beats, NoBeat
    <2>2. beat[w].at # "off"
      BY DEF BeatEnds, MustEnd
    <2>3. \A v \in Workers : Tied(doing[v], claim[v], call[v], beat[v])'
      BY <1>2, <2>2 DEF ClaimsInv, ClaimsTypeOK, Tied, NoBeat
    <2> QED
      BY <1>2, <2>1, <2>3, LeftBehindOK DEF ClaimsInv, RequestOK
  <1> QED
    BY <1>1, <1>2 DEF BeatEnds

LEMMA ReceiveReportedOK ==
  ASSUME NEW w \in Workers, ClaimsInv, ReceiveReported(w)
  PROVE  ClaimsInv'
  BY SettleOK, HostDiesOK DEF ReceiveReported

LEMMA UnansweredOK ==
  ASSUME NEW w \in Workers, ClaimsInv, Unanswered(w)
  PROVE  ClaimsInv'
  BY SettleOK DEF Unanswered

LEMMA StartOK ==
  ASSUME NEW h, ClaimsInv, Start(h)
  PROVE  ClaimsInv'
  <1>1. ClaimsTypeOK'
    BY DEF Start, ClaimsInv, ClaimsTypeOK, Places
  <1>2. \A v \in Workers : Tied(doing[v], claim[v], call[v], beat[v])'
    BY DEF Start, WorkersOf, ClaimsInv, ClaimsTypeOK, Tied, Calling, Leased,
           Executing, Reporting
  <1> QED
    BY <1>1, <1>2 DEF Start, ClaimsInv, RequestOK

LEMMA TimePassesOK ==
  ASSUME ClaimsInv, TimePasses
  PROVE  ClaimsInv'
  <1>1. \A w \in Workers : /\ Passed(beat[w]) \in Beats
                           /\ Passed(beat[w]).at = beat[w].at
    BY DEF ClaimsInv, ClaimsTypeOK, Passed, Beats, InFlight
  <1>2. \A w \in Workers : /\ call'[w] \in Calls
                           /\ call'[w].at = call[w].at
    BY DEF TimePasses, ClaimsInv, ClaimsTypeOK, Calls, NoCall
  <1>3. ClaimsTypeOK'
    BY <1>1, <1>2 DEF TimePasses, ClaimsInv, ClaimsTypeOK
  <1>4. \A v \in Workers : Tied(doing[v], claim[v], call[v], beat[v])'
    BY <1>1, <1>2 DEF TimePasses, ClaimsInv, Tied
  <1> QED
    BY <1>3, <1>4 DEF TimePasses, ClaimsInv, RequestOK

-----------------------------------------------------------------------------
LEMMA ClaimsStep ==
  ASSUME JobInv, ClaimsInv, [WorkerNext]_vars
  PROVE  ClaimsInv'
  <1>1. ASSUME NEW w \in Workers,
               Proceed(w) \/ EndCall(w) \/ SendBeat(w) \/ EndBeat(w)
                 \/ ExecuteClaim(w) \/ ExecuteCall(w) \/ ExecuteBeat(w)
        PROVE  ClaimsInv'
    BY <1>1, MainStepOK, BeatStepOK, BeatEndsOK, ReceiveReportedOK, UnansweredOK
       DEF Proceed, EndCall, EndBeat
  <1>2. ASSUME NEW h \in Hosts, Start(h) \/ Crash(h)
        PROVE  ClaimsInv'
    BY <1>2, StartOK, HostDiesOK DEF Crash
  <1>3. CASE TimePasses
    BY <1>3, TimePassesOK
  <1>4. ASSUME UNCHANGED workerVars, strays' \subseteq strays
        PROVE  ClaimsInv'
    BY <1>4 DEF workerVars, ClaimsInv, ClaimsTypeOK, RequestOK
  <1>5. ASSUME NEW w \in Workers, Reap(w)
        PROVE  ClaimsInv'
    BY <1>4, <1>5 DEF Reap
  <1>6. ASSUME NEW h \in Hosts, SigTerm(h)
        PROVE  ClaimsInv'
    BY <1>4, <1>6 DEF SigTerm
  <1>7. ASSUME NEW r \in strays, ExecuteStray(r) \/ LoseStray(r)
        PROVE  ClaimsInv'
    BY <1>4, <1>7 DEF ExecuteStray, LoseStray
  <1>8. ASSUME NEW j \in JobIds, NEW r \in Requests, Create(j, r)
        PROVE  ClaimsInv'
    BY <1>4, <1>8 DEF Create
  <1>9. CASE Intervene
    BY <1>4, <1>9 DEF Intervene
  <1>10. CASE UNCHANGED vars
    BY <1>4, <1>10 DEF vars
  <1> QED
    BY <1>1, <1>2, <1>3, <1>5, <1>6, <1>7, <1>8, <1>9, <1>10 DEF WorkerNext

\* Every step of the system is a step of the queue, or leaves it alone.
LEMMA StepUsesQueue ==
  ASSUME JobInv, ClaimsInv, [WorkerNext]_vars
  PROVE  [JobNext]_jobVars
  <1>1. ASSUME NEW w \in Workers, ExecuteClaim(w)
        PROVE  JobNext
    BY <1>1 DEF ExecuteClaim, JobNext
  <1>2. ASSUME NEW w \in Workers, Reap(w)
        PROVE  JobNext
    <2>1. PICK cutoff \in (Lease - Skew)..Lease : ReleaseStale(cutoff)
      BY <1>2 DEF Reap
    <2>2. cutoff \in 0..AgeCap
      BY TimingAssumption DEF TimingAssumption
    <2> QED
      BY <2>1, <2>2 DEF JobNext
  <1>3. ASSUME NEW w \in Workers, ExecuteCall(w) \/ ExecuteBeat(w)
        PROVE  JobNext \/ UNCHANGED jobVars
    BY <1>3, ExecuteCallIsCall, ExecuteBeatIsCall
  <1>4. ASSUME NEW r \in strays, ExecuteStray(r)
        PROVE  JobNext
    BY <1>4, ExecuteStrayIsCall
  <1>5. ASSUME NEW j \in JobIds, NEW r \in Requests, Create(j, r)
        PROVE  JobNext
    BY <1>5 DEF Create, JobNext
  <1>6. CASE Intervene
    <2>1. CASE \E j \in JobIds : AdminCall(j)
      BY <2>1 DEF JobNext
    <2>2. CASE \E r \in Requests : ExpireInputs({r})
      BY <2>2 DEF JobNext
    <2> QED
      BY <1>6, <2>1, <2>2 DEF Intervene
  <1>7. CASE TimePasses
    BY <1>7 DEF TimePasses, JobNext
  <1>8. ASSUME NEW w \in Workers,
               Proceed(w) \/ EndCall(w) \/ SendBeat(w) \/ EndBeat(w)
        PROVE  UNCHANGED jobVars
    BY <1>8 DEF Proceed, EndCall, EndBeat, SendClaim, ReceiveClaim, Work, Explain, Call,
                Quit, GraceOver, NothingToClaim, ReceivePersisted, PersistUnanswered,
                ReceiveReported, Unanswered, SendBeat, BeatAnswered, BeatUnanswered, BeatEnds
  <1>9. ASSUME NEW h \in Hosts, SigTerm(h) \/ Start(h) \/ Crash(h)
        PROVE  UNCHANGED jobVars
    BY <1>9 DEF SigTerm, Start, Crash
  <1>10. ASSUME NEW r \in strays, LoseStray(r)
         PROVE  UNCHANGED jobVars
    BY <1>10 DEF LoseStray
  <1>11. CASE UNCHANGED vars
    BY <1>11 DEF vars
  <1> QED
    BY <1>1, <1>2, <1>3, <1>4, <1>5, <1>6, <1>7, <1>8, <1>9, <1>10, <1>11 DEF WorkerNext

-----------------------------------------------------------------------------
LEMMA WorkersInit == WorkerInit => JobInit /\ ClaimsInv
  BY DEF WorkerInit, ClaimsInv, ClaimsTypeOK, Tied, Places, Claims, Calls, Beats,
         NoClaim, NoCall, NoBeat, NoLease, Leased, Executing, Reporting, Calling

\* Whatever is lost, late or restarted, the calls that reach the database have the
\* leases that it has drawn: the rows change as the queue allows.
LEMMA WorkersUseQueue == WorkerSpec => JobSpec
  <1>1. WorkerInit => JobInit /\ JobInv /\ ClaimsInv
    BY WorkersInit, InitInv
  <1>2. JobInv /\ ClaimsInv /\ [WorkerNext]_vars
          => [JobNext]_jobVars /\ JobInv' /\ ClaimsInv'
    BY StepUsesQueue, ClaimsStep, StepInv
  <1> QED
    BY <1>1, <1>2, PTL DEF WorkerSpec, JobSpec

\* No worker that lost its lease, and no request it left behind, ever writes a
\* result over a newer one or touches a finished job.
THEOREM WorkersAreFenced == WorkerSpec => FencedQueue
  BY WorkersUseQueue, QueueIsFenced

-----------------------------------------------------------------------------
(***************************************************************************)
(* Leases in time.  A worker owns its job while the lease of its claim is  *)
(* in the row.  As long as it does, the age of that lease is bounded by    *)
(* what the worker itself has measured: the time since the last answered   *)
(* heartbeat or since a call was sent, and the grace of a shutdown.  So a  *)
(* worker knows when to stop although it never sees the row's clock.       *)
(***************************************************************************)

\* How long a handler may go on with nobody watching its heartbeat.
Slack == IF MaxStops = 0 THEN 0 ELSE Grace

Own(w) == claim[w].lease # NoLease /\ jobs[claim[w].job].lease = claim[w].lease

\* A worker's clocks stay below what makes a task due, and a handler without
\* heartbeat task runs in a process that is being stopped.
LocalOK(w) ==
  /\ call[w].age <= RequestTimeout
  /\ InFlight(beat[w]) => beat[w].age <= RequestTimeout
  /\ doing[w] \in Executing /\ ~Beating(w) => Stopping(w)
  /\ beat[w].at # "off" <=> doing[w] \in Leased
  /\ doing[w] \in Calling <=> call[w].at # "none"
  /\ claim[w].lease # NoLease <=>
       doing[w] \in Leased \/ (doing[w] = "claim" /\ call[w].at = "ok")
  /\ claim[w].lease <= lastLease

\* The age of a lease, as its worker can tell.
Recent(d, c, b, s, g, age) ==
  /\ d = "claim" => age <= c.age
  /\ b.at \notin {"off", "ended"} => age <= s + RequestTimeout
  /\ b.at = "ok" => age <= b.age
  /\ d \in Executing => age <= Safe + RequestTimeout + g
  /\ d \in Reporting /\ c.at = "sent" => age <= Safe + RequestTimeout + Slack + c.age

\* The stage of the row, as its worker can tell.
AtStage(d, c, status) ==
  /\ d \in {"claim", "work"} => status = "processing"
  /\ d = "algorithm" /\ c.at = "sent" => status = "processing"
  /\ d = "algorithm" /\ c.at = "ok" => status = "algorithm_completed"
  /\ d = "explain" => status = "algorithm_completed"
  /\ d = "ai" /\ c.at = "sent" => status = "algorithm_completed"
  /\ d = "ai" /\ c.at = "ok" => status = "ai_enriching"
  /\ d = "complete" /\ c.at = "sent" => status = "ai_enriching"

OwnOK(w) ==
  Own(w) =>
    /\ jobs[claim[w].job].lockedBy = w
    /\ Recent(doing[w], call[w], beat[w], sinceOk[w], grace[w], jobs[claim[w].job].age)
    /\ AtStage(doing[w], call[w], jobs[claim[w].job].status)

\* No two workers have one lease.
Apart ==
  \A v, w \in Workers :
    v # w /\ claim[v].lease # NoLease => claim[v].lease # claim[w].lease

\* What a worker may have left behind while it goes on with its claim: beats,
\* and once it reports that an attempt has failed the call that failed.
Behind(d) == IF d \in {"retry", "fail", "release"}
             THEN {"heartbeat", "algorithm", "ai"} ELSE {"heartbeat"}

StrayOK(r) ==
  /\ r.op # "claim" <=> r.lease # NoLease
  /\ r.lease \in Nat /\ r.lease <= lastLease
  /\ \A w \in Workers : r.lease # NoLease /\ r.lease = claim[w].lease => r.op \in Behind(doing[w])
  /\ r.op = "complete" /\ jobs[r.job].lease = r.lease => jobs[r.job].status = "ai_enriching"

BudgetOK ==
  /\ budget \in [crashes : Nat, stops : Nat, admin : Nat]
  /\ budget.stops <= MaxStops /\ budget.admin <= MaxAdmin
  /\ MaxStops = 0 => stopping = {}

LeaseInv ==
  /\ sinceOk \in [Workers -> 0..Safe]
  /\ grace \in [Workers -> 0..Slack]
  /\ BudgetOK
  /\ \A w \in Workers : LocalOK(w)
  /\ \A w \in Workers : OwnOK(w)
  /\ Apart
  /\ \A r \in strays : StrayOK(r)

LEMMA ConstantsOK ==
  /\ HeartbeatInterval \in Nat /\ RequestTimeout \in Nat /\ Lease \in Nat /\ Margin \in Nat
  /\ Grace \in Nat /\ Slack \in Nat /\ Safe \in Nat /\ Skew \in 0..Lease
  /\ Safe = Lease - Margin
  BY TimingAssumption DEF Slack, Safe

\* What the inductive invariants say of one worker's types.
LEMMA WorkerTypes ==
  ASSUME ClaimsInv, LeaseInv, NEW w \in Workers
  PROVE  /\ doing[w] \in Places /\ call[w] \in Calls /\ beat[w] \in Beats /\ claim[w] \in Claims
         /\ sinceOk[w] \in 0..Safe /\ grace[w] \in 0..Slack
         /\ claim[w].lease # NoLease => claim[w].job \in JobIds
  BY DEF ClaimsInv, ClaimsTypeOK, LeaseInv, LocalOK, Tied

-----------------------------------------------------------------------------
\* A worker goes on with its claim, and no row changes.  What it leaves behind
\* are beats, and calls of a handler it has given up.
LEMMA WorkerMoves ==
  ASSUME JobInv, ClaimsInv, LeaseInv, NEW w \in Workers,
         UNCHANGED <<jobVars, claim, stopping, budget>>,
         \A v \in Workers \ {w} :
           /\ doing'[v] = doing[v] /\ call'[v] = call[v] /\ beat'[v] = beat[v]
           /\ sinceOk'[v] = sinceOk[v] /\ grace'[v] = grace[v],
         sinceOk' \in [Workers -> 0..Safe], grace' \in [Workers -> 0..Slack],
         LocalOK(w)',
         Own(w) => /\ Recent(doing'[w], call'[w], beat'[w], sinceOk'[w], grace'[w],
                             jobs[claim[w].job].age)
                   /\ AtStage(doing'[w], call'[w], jobs[claim[w].job].status),
         claim[w].lease # NoLease => Behind(doing[w]) \subseteq Behind(doing'[w]),
         \A r \in strays' \ strays :
           \/ r = Request(w, "heartbeat") /\ claim[w].lease # NoLease
           \/ /\ doing[w] \in {"algorithm", "ai"} /\ r = Request(w, doing[w])
              /\ doing'[w] \in {"retry", "fail", "release"}
  PROVE  LeaseInv'
  <1>1. BudgetOK' /\ Apart'
    BY DEF LeaseInv, BudgetOK, Apart
  <1>2. ASSUME NEW v \in Workers PROVE LocalOK(v)'
    <2>1. CASE v = w
      BY <2>1
    <2>2. CASE v # w
      BY <2>2 DEF LeaseInv, LocalOK, Beating, Stopping, jobVars
    <2> QED
      BY <2>1, <2>2
  <1>3. ASSUME NEW v \in Workers PROVE OwnOK(v)'
    <2>1. CASE v = w
      BY <2>1 DEF LeaseInv, OwnOK, Own, jobVars
    <2>2. CASE v # w
      BY <2>2 DEF LeaseInv, OwnOK, Own, jobVars
    <2> QED
      BY <2>1, <2>2
  <1>4. ASSUME NEW r \in strays' PROVE StrayOK(r)'
    <2>1. CASE r \in strays
      <3>1. ASSUME NEW v \in Workers, r.lease # NoLease, r.lease = claim[v].lease
            PROVE  r.op \in Behind(doing'[v])
        BY <2>1, <3>1 DEF LeaseInv, StrayOK
      <3> QED
        BY <2>1, <3>1 DEF LeaseInv, StrayOK, jobVars
    <2>2. CASE r = Request(w, "heartbeat") /\ claim[w].lease # NoLease
      BY <2>2, WorkerTypes DEF Request, StrayOK, Behind, LeaseInv, LocalOK, Claims,
                               jobVars
    <2>3. CASE /\ doing[w] \in {"algorithm", "ai"} /\ r = Request(w, doing[w])
               /\ doing'[w] \in {"retry", "fail", "release"}
      <3>1. claim[w].lease # NoLease /\ claim[w].lease <= lastLease /\ claim[w].lease \in Nat
        BY <2>3, WorkerTypes DEF LeaseInv, LocalOK, Leased, Executing, Claims
      <3>2. \A v \in Workers : claim[w].lease = claim[v].lease => v = w
        BY <3>1 DEF LeaseInv, Apart
      <3> QED
        BY <2>3, <3>1, <3>2 DEF Request, StrayOK, Behind, jobVars
    <2> QED
      BY <2>1, <2>2, <2>3
  <1> QED
    BY <1>1, <1>2, <1>3, <1>4 DEF LeaseInv

\* What a step of one worker starts from.
LEMMA WorkerState ==
  ASSUME JobInv, ClaimsInv, LeaseInv, NEW w \in Workers
  PROVE  /\ doing[w] \in Places /\ call[w] \in Calls /\ beat[w] \in Beats /\ claim[w] \in Claims
         /\ sinceOk[w] \in 0..Safe /\ grace[w] \in 0..Slack
         /\ LocalOK(w) /\ OwnOK(w)
         /\ sinceOk \in [Workers -> 0..Safe] /\ grace \in [Workers -> 0..Slack]
         /\ doing \in [Workers -> Places] /\ call \in [Workers -> Calls]
         /\ beat \in [Workers -> Beats] /\ claim \in [Workers -> Claims]
         /\ Own(w) => jobs[claim[w].job].age \in Nat
  <1>1. claim[w].lease # NoLease => jobs[claim[w].job] \in Rows
    BY WorkerTypes DEF JobInv, TypeOK
  <1> QED
    BY <1>1, WorkerTypes DEF LeaseInv, ClaimsInv, ClaimsTypeOK, Own, Rows

\* The steps of the main task that leave nothing behind.
LEMMA MainMoves ==
  ASSUME JobInv, ClaimsInv, LeaseInv, NEW w \in Workers,
         \/ SendClaim(w) \/ NothingToClaim(w) \/ ReceiveClaim(w) \/ Work(w) \/ Explain(w)
         \/ ReceivePersisted(w) \/ Quit(w)
  PROVE  LeaseInv'
  <1>0. /\ sinceOk \in [Workers -> 0..Safe] /\ grace \in [Workers -> 0..Slack]
        /\ doing \in [Workers -> Places] /\ call \in [Workers -> Calls]
        /\ beat \in [Workers -> Beats]
    BY WorkerState
  <1>1. CASE SendClaim(w)
    <2>0. /\ doing'[w] = "claim" /\ call'[w] = Sent /\ claim[w].lease = NoLease
          /\ beat'[w] = beat[w] /\ beat[w].at = "off" /\ claim' = claim /\ lastLease' = lastLease
      BY <1>0, <1>1, WorkerState
         DEF SendClaim, LocalOK, jobVars, Leased, Executing, Reporting, Calling
    <2>1. LocalOK(w)'
      BY <2>0, WorkerState, ConstantsOK
         DEF LocalOK, Leased, Executing, Reporting, Calling, InFlight, Beating, Sent
    <2>2. Own(w) => /\ Recent(doing'[w], call'[w], beat'[w], sinceOk'[w], grace'[w],
                              jobs[claim[w].job].age)
                    /\ AtStage(doing'[w], call'[w], jobs[claim[w].job].status)
      BY <1>1, WorkerState, ConstantsOK
         DEF SendClaim, LocalOK, OwnOK, Own, Recent, AtStage, jobVars, Places, Calls,
             Beats, Claims, Leased, Executing, Reporting, Calling, InFlight, Beating,
             Stopping, Sent, NoCall
    <2>3. claim[w].lease # NoLease => Behind(doing[w]) \subseteq Behind(doing'[w])
      BY <1>1, WorkerState DEF SendClaim, LocalOK, Behind, Leased, Executing, Reporting
    <2> QED
      BY <1>0, <1>1, <2>1, <2>2, <2>3, WorkerMoves DEF SendClaim
  <1>2. CASE NothingToClaim(w)
    <2>0. /\ doing'[w] = "idle" /\ call'[w] = NoCall /\ claim[w].lease = NoLease
          /\ beat'[w] = beat[w] /\ beat[w].at = "off" /\ claim' = claim /\ lastLease' = lastLease
      BY <1>0, <1>2, WorkerState
         DEF NothingToClaim, LocalOK, jobVars, Leased, Executing, Reporting, Calling
    <2>1. LocalOK(w)'
      BY <2>0, WorkerState, ConstantsOK
         DEF NothingToClaim, LocalOK, jobVars, Places, Calls, Beats, Claims, Leased,
             Executing, Reporting, Calling, InFlight, Beating, Stopping, Sent, NoCall
    <2>2. Own(w) => /\ Recent(doing'[w], call'[w], beat'[w], sinceOk'[w], grace'[w],
                              jobs[claim[w].job].age)
                    /\ AtStage(doing'[w], call'[w], jobs[claim[w].job].status)
      BY <1>2, WorkerState, ConstantsOK
         DEF NothingToClaim, LocalOK, OwnOK, Own, Recent, AtStage, jobVars, Places,
             Calls, Beats, Claims, Leased, Executing, Reporting, Calling, InFlight,
             Beating, Stopping, Sent, NoCall
    <2>3. claim[w].lease # NoLease => Behind(doing[w]) \subseteq Behind(doing'[w])
      BY <1>2, WorkerState DEF NothingToClaim, LocalOK, Behind, Leased, Executing,
                               Reporting
    <2> QED
      BY <1>0, <1>2, <2>1, <2>2, <2>3, WorkerMoves DEF NothingToClaim
  <1>3. CASE ReceiveClaim(w)
    <2>1. LocalOK(w)'
      BY <1>3, WorkerState, ConstantsOK
         DEF ReceiveClaim, LocalOK, jobVars, Places, Calls, Beats, Claims, Leased,
             Executing, Reporting, Calling, InFlight, Beating, Stopping, Sent, NoCall
    <2>0. /\ doing'[w] = "work" /\ call'[w] = NoCall /\ sinceOk'[w] = sinceOk[w]
          /\ beat'[w] = [at |-> "waiting", age |-> 0, wait |-> HeartbeatInterval]
          /\ grace'[w] = grace[w] /\ doing[w] = "claim"
      BY <1>0, <1>3 DEF ReceiveClaim
    <2>2. Own(w) => /\ Recent(doing'[w], call'[w], beat'[w], sinceOk'[w], grace'[w],
                              jobs[claim[w].job].age)
                    /\ AtStage(doing'[w], call'[w], jobs[claim[w].job].status)
      BY <2>0, WorkerState, ConstantsOK
         DEF ReceiveClaim, LocalOK, OwnOK, Own, Recent, AtStage, jobVars, Places, Calls,
             Beats, Claims, Leased, Executing, Reporting, Calling, InFlight, Beating,
             Stopping, Sent, NoCall
    <2>3. claim[w].lease # NoLease => Behind(doing[w]) \subseteq Behind(doing'[w])
      BY <1>3, WorkerState DEF ReceiveClaim, LocalOK, Behind, Leased, Executing,
                               Reporting
    <2> QED
      BY <1>0, <1>3, <2>1, <2>2, <2>3, WorkerMoves DEF ReceiveClaim
  <1>4. CASE Work(w)
    <2>1. LocalOK(w)'
      BY <1>4, WorkerState, ConstantsOK
         DEF Work, Call, LocalOK, jobVars, Places, Calls, Beats, Claims, Leased,
             Executing, Reporting, Calling, InFlight, Beating, Stopping, Sent, NoCall
    <2>2. Own(w) => /\ Recent(doing'[w], call'[w], beat'[w], sinceOk'[w], grace'[w],
                              jobs[claim[w].job].age)
                    /\ AtStage(doing'[w], call'[w], jobs[claim[w].job].status)
      BY <1>4, WorkerState, ConstantsOK
         DEF Work, Call, LocalOK, OwnOK, Own, Recent, AtStage, jobVars, Places, Calls,
             Beats, Claims, Leased, Executing, Reporting, Calling, InFlight, Beating,
             Stopping, Sent, NoCall
    <2>3. claim[w].lease # NoLease => Behind(doing[w]) \subseteq Behind(doing'[w])
      BY <1>4, WorkerState DEF Work, Call, LocalOK, Behind, Leased, Executing, Reporting
    <2> QED
      BY <1>0, <1>4, <2>1, <2>2, <2>3, WorkerMoves DEF Work, Call
  <1>5. CASE Explain(w)
    <2>1. LocalOK(w)'
      BY <1>5, WorkerState, ConstantsOK
         DEF Explain, Call, LocalOK, jobVars, Places, Calls, Beats, Claims, Leased,
             Executing, Reporting, Calling, InFlight, Beating, Stopping, Sent, NoCall
    <2>2. Own(w) => /\ Recent(doing'[w], call'[w], beat'[w], sinceOk'[w], grace'[w],
                              jobs[claim[w].job].age)
                    /\ AtStage(doing'[w], call'[w], jobs[claim[w].job].status)
      BY <1>5, WorkerState, ConstantsOK
         DEF Explain, Call, LocalOK, OwnOK, Own, Recent, AtStage, jobVars, Places,
             Calls, Beats, Claims, Leased, Executing, Reporting, Calling, InFlight,
             Beating, Stopping, Sent, NoCall
    <2>3. claim[w].lease # NoLease => Behind(doing[w]) \subseteq Behind(doing'[w])
      BY <1>5, WorkerState DEF Explain, Call, LocalOK, Behind, Leased, Executing,
                               Reporting
    <2> QED
      BY <1>0, <1>5, <2>1, <2>2, <2>3, WorkerMoves DEF Explain, Call
  <1>6. CASE ReceivePersisted(w)
    <2>1. LocalOK(w)'
      BY <1>6, WorkerState, ConstantsOK
         DEF ReceivePersisted, LocalOK, jobVars, Places, Calls, Beats, Claims, Leased,
             Executing, Reporting, Calling, InFlight, Beating, Stopping, Sent, NoCall
    <2>2. Own(w) => /\ Recent(doing'[w], call'[w], beat'[w], sinceOk'[w], grace'[w],
                              jobs[claim[w].job].age)
                    /\ AtStage(doing'[w], call'[w], jobs[claim[w].job].status)
      BY <1>6, WorkerState, ConstantsOK
         DEF ReceivePersisted, LocalOK, OwnOK, Own, Recent, AtStage, jobVars, Places,
             Calls, Beats, Claims, Leased, Executing, Reporting, Calling, InFlight,
             Beating, Stopping, Sent, NoCall
    <2>3. claim[w].lease # NoLease => Behind(doing[w]) \subseteq Behind(doing'[w])
      BY <1>6, WorkerState DEF ReceivePersisted, LocalOK, Behind, Leased, Executing,
                               Reporting
    <2> QED
      BY <1>0, <1>6, <2>1, <2>2, <2>3, WorkerMoves DEF ReceivePersisted
  <1>7. CASE Quit(w)
    <2>1. LocalOK(w)'
      BY <1>7, WorkerState, ConstantsOK
         DEF Quit, LocalOK, jobVars, Places, Calls, Beats, Claims, Leased, Executing,
             Reporting, Calling, InFlight, Beating, Stopping, Sent, NoCall
    <2>2. Own(w) => /\ Recent(doing'[w], call'[w], beat'[w], sinceOk'[w], grace'[w],
                              jobs[claim[w].job].age)
                    /\ AtStage(doing'[w], call'[w], jobs[claim[w].job].status)
      BY <1>7, WorkerState, ConstantsOK
         DEF Quit, LocalOK, OwnOK, Own, Recent, AtStage, jobVars, Places, Calls, Beats,
             Claims, Leased, Executing, Reporting, Calling, InFlight, Beating, Stopping,
             Sent, NoCall
    <2>3. claim[w].lease # NoLease => Behind(doing[w]) \subseteq Behind(doing'[w])
      BY <1>7, WorkerState DEF Quit, LocalOK, Behind, Leased, Executing, Reporting
    <2> QED
      BY <1>0, <1>7, <2>1, <2>2, <2>3, WorkerMoves DEF Quit
  <1> QED
    BY <1>1, <1>2, <1>3, <1>4, <1>5, <1>6, <1>7

\* What is left behind of one worker is the call or the beat it had sent.
LEMMA CallLeftBehind ==
  ASSUME NEW w, LeaveBehind(OpenCalls({w})), NEW r \in strays' \ strays
  PROVE  call[w].at = "sent" /\ r = Request(w, doing[w])
  BY DEF LeaveBehind, OpenCalls

LEMMA BeatLeftBehind ==
  ASSUME NEW w, LeaveBehind(OpenBeats({w})), NEW r \in strays' \ strays
  PROVE  beat[w].at = "sent" /\ r = Request(w, "heartbeat")
  BY DEF LeaveBehind, OpenBeats

\* A handler gives up the call it has sent.
LEMMA CallGivenUp ==
  ASSUME JobInv, ClaimsInv, LeaseInv, NEW w \in Workers, PersistUnanswered(w) \/ GraceOver(w)
  PROVE  LeaseInv'
  <1>0. /\ sinceOk \in [Workers -> 0..Safe] /\ grace \in [Workers -> 0..Slack]
        /\ doing \in [Workers -> Places] /\ call \in [Workers -> Calls]
        /\ beat \in [Workers -> Beats]
    BY WorkerState
  <1>1. CASE PersistUnanswered(w)
    <2>1. LocalOK(w)'
      BY <1>1, WorkerState, ConstantsOK
         DEF PersistUnanswered, LocalOK, jobVars, Places, Calls, Beats, Claims, Leased,
             Executing, Reporting, Calling, InFlight, Beating, Stopping, Sent, NoCall,
             NoBeat
    <2>2. Own(w) => /\ Recent(doing'[w], call'[w], beat'[w], sinceOk'[w], grace'[w],
                              jobs[claim[w].job].age)
                    /\ AtStage(doing'[w], call'[w], jobs[claim[w].job].status)
      BY <1>1, WorkerState, ConstantsOK
         DEF PersistUnanswered, LocalOK, OwnOK, Own, Recent, AtStage, jobVars, Places,
             Calls, Beats, Claims, Leased, Executing, Reporting, Calling, InFlight,
             Beating, Stopping, Sent, NoCall, NoBeat
    <2>3. claim[w].lease # NoLease => Behind(doing[w]) \subseteq Behind(doing'[w])
      BY <1>1, WorkerState DEF PersistUnanswered, LocalOK, Behind, Leased, Executing,
                               Reporting
    <2>4. \A r \in strays' \ strays : /\ doing[w] \in {"algorithm", "ai"}
                                     /\ r = Request(w, doing[w])
                                     /\ doing'[w] \in {"retry", "fail", "release"}
      BY <1>0, <1>1, CallLeftBehind, WorkerState
         DEF PersistUnanswered, LocalOK, Calling, Executing, Reporting
    <2> QED
      BY <1>0, <1>1, <2>1, <2>2, <2>3, <2>4, WorkerMoves DEF PersistUnanswered
  <1>2. CASE GraceOver(w)
    <2>1. LocalOK(w)'
      BY <1>2, WorkerState, ConstantsOK
         DEF GraceOver, GraceIsOver, LocalOK, jobVars, Places, Calls, Beats, Claims,
             Leased, Executing, Reporting, Calling, InFlight, Beating, Stopping, Sent,
             NoCall, NoBeat
    <2>2. Own(w) => /\ Recent(doing'[w], call'[w], beat'[w], sinceOk'[w], grace'[w],
                              jobs[claim[w].job].age)
                    /\ AtStage(doing'[w], call'[w], jobs[claim[w].job].status)
      BY <1>2, WorkerState, ConstantsOK
         DEF GraceOver, GraceIsOver, LocalOK, OwnOK, Own, Recent, AtStage, jobVars,
             Places, Calls, Beats, Claims, Leased, Executing, Reporting, Calling,
             InFlight, Beating, Stopping, Sent, NoCall, NoBeat
    <2>3. claim[w].lease # NoLease => Behind(doing[w]) \subseteq Behind(doing'[w])
      BY <1>2, WorkerState DEF GraceOver, GraceIsOver, LocalOK, Behind, Leased,
                               Executing, Reporting
    <2>4. \A r \in strays' \ strays : /\ doing[w] \in {"algorithm", "ai"}
                                     /\ r = Request(w, doing[w])
                                     /\ doing'[w] \in {"retry", "fail", "release"}
      BY <1>0, <1>2, CallLeftBehind, WorkerState
         DEF GraceOver, GraceIsOver, LocalOK, Calling, Executing, Reporting
    <2> QED
      BY <1>0, <1>2, <2>1, <2>2, <2>3, <2>4, WorkerMoves DEF GraceOver
  <1> QED
    BY <1>1, <1>2

\* The heartbeat task goes on.
LEMMA BeatMoves ==
  ASSUME JobInv, ClaimsInv, LeaseInv, NEW w \in Workers,
         SendBeat(w) \/ BeatAnswered(w) \/ BeatUnanswered(w)
  PROVE  LeaseInv'
  <1>0. /\ sinceOk \in [Workers -> 0..Safe] /\ grace \in [Workers -> 0..Slack]
        /\ doing \in [Workers -> Places] /\ call \in [Workers -> Calls]
        /\ beat \in [Workers -> Beats]
    BY WorkerState
  <1>1. CASE SendBeat(w)
    <2>1. LocalOK(w)'
      BY <1>1, WorkerState, ConstantsOK
         DEF SendBeat, LocalOK, jobVars, Places, Calls, Beats, Claims, Leased,
             Executing, Reporting, Calling, InFlight, Beating, Stopping, Sent, NoCall,
             NoBeat
    <2>2. Own(w) => /\ Recent(doing'[w], call'[w], beat'[w], sinceOk'[w], grace'[w],
                              jobs[claim[w].job].age)
                    /\ AtStage(doing'[w], call'[w], jobs[claim[w].job].status)
      BY <1>1, WorkerState, ConstantsOK
         DEF SendBeat, LocalOK, OwnOK, Own, Recent, AtStage, jobVars, Places, Calls,
             Beats, Claims, Leased, Executing, Reporting, Calling, InFlight, Beating,
             Stopping, Sent, NoCall, NoBeat
    <2>3. claim[w].lease # NoLease => Behind(doing[w]) \subseteq Behind(doing'[w])
      BY <1>1, WorkerState DEF SendBeat, LocalOK, Behind, Leased, Executing, Reporting
    <2> QED
      BY <1>0, <1>1, <2>1, <2>2, <2>3, WorkerMoves DEF SendBeat
  <1>2. CASE BeatAnswered(w)
    <2>1. LocalOK(w)'
      BY <1>2, WorkerState, ConstantsOK
         DEF BeatAnswered, LocalOK, jobVars, Places, Calls, Beats, Claims, Leased,
             Executing, Reporting, Calling, InFlight, Beating, Stopping, Sent, NoCall,
             NoBeat
    <2>2. Own(w) => /\ Recent(doing'[w], call'[w], beat'[w], sinceOk'[w], grace'[w],
                              jobs[claim[w].job].age)
                    /\ AtStage(doing'[w], call'[w], jobs[claim[w].job].status)
      BY <1>2, WorkerState, ConstantsOK
         DEF BeatAnswered, LocalOK, OwnOK, Own, Recent, AtStage, jobVars, Places, Calls,
             Beats, Claims, Leased, Executing, Reporting, Calling, InFlight, Beating,
             Stopping, Sent, NoCall, NoBeat
    <2>3. claim[w].lease # NoLease => Behind(doing[w]) \subseteq Behind(doing'[w])
      BY <1>2, WorkerState DEF BeatAnswered, LocalOK, Behind, Leased, Executing,
                               Reporting
    <2> QED
      BY <1>0, <1>2, <2>1, <2>2, <2>3, WorkerMoves, ConstantsOK DEF BeatAnswered
  <1>3. CASE BeatUnanswered(w)
    <2>1. LocalOK(w)'
      BY <1>3, WorkerState, ConstantsOK
         DEF BeatUnanswered, LocalOK, jobVars, Places, Calls, Beats, Claims, Leased,
             Executing, Reporting, Calling, InFlight, Beating, Stopping, Sent, NoCall,
             NoBeat
    <2>2. Own(w) => /\ Recent(doing'[w], call'[w], beat'[w], sinceOk'[w], grace'[w],
                              jobs[claim[w].job].age)
                    /\ AtStage(doing'[w], call'[w], jobs[claim[w].job].status)
      BY <1>3, WorkerState, ConstantsOK
         DEF BeatUnanswered, LocalOK, OwnOK, Own, Recent, AtStage, jobVars, Places,
             Calls, Beats, Claims, Leased, Executing, Reporting, Calling, InFlight,
             Beating, Stopping, Sent, NoCall, NoBeat
    <2>3. claim[w].lease # NoLease => Behind(doing[w]) \subseteq Behind(doing'[w])
      BY <1>3, WorkerState DEF BeatUnanswered, LocalOK, Behind, Leased, Executing,
                               Reporting
    <2>4. \A r \in strays' \ strays : r = Request(w, "heartbeat") /\ claim[w].lease # NoLease
      BY <1>3, BeatLeftBehind, WorkerState DEF BeatUnanswered, InFlight, LocalOK
    <2> QED
      BY <1>0, <1>3, <2>1, <2>2, <2>3, <2>4, WorkerMoves DEF BeatUnanswered
  <1> QED
    BY <1>1, <1>2, <1>3

\* The workers of W have let go of their claims.  What they had sent may still
\* travel, and nobody goes on with the leases it is for.
LEMMA SettleMoves ==
  ASSUME JobInv, ClaimsInv, LeaseInv, NEW W \in SUBSET Workers, NEW to \in {"off", "idle"},
         Settle(W, to), UNCHANGED jobVars, BudgetOK',
         \A v \in Workers \ W : Stopping(v)' <=> Stopping(v)
  PROVE  LeaseInv'
  <1>1. \A w \in W : /\ doing'[w] = to /\ claim'[w] = NoClaim /\ call'[w] = NoCall
                     /\ beat'[w] = NoBeat /\ sinceOk'[w] = 0 /\ grace'[w] = 0
    BY DEF Settle
  <1>2. \A w \in Workers \ W :
          /\ doing'[w] = doing[w] /\ claim'[w] = claim[w] /\ call'[w] = call[w]
          /\ beat'[w] = beat[w] /\ sinceOk'[w] = sinceOk[w] /\ grace'[w] = grace[w]
    BY DEF Settle
  <1>3. sinceOk' \in [Workers -> 0..Safe] /\ grace' \in [Workers -> 0..Slack]
    BY ConstantsOK DEF Settle, LeaseInv
  <1>4. ASSUME NEW w \in Workers PROVE LocalOK(w)'
    <2>1. CASE w \in W
      <3>1. /\ call'[w].at = "none" /\ call'[w].age = 0 /\ beat'[w].at = "off"
            /\ claim'[w].lease = NoLease /\ doing'[w] \in {"off", "idle"}
        BY <1>1, <2>1 DEF NoClaim, NoCall, NoBeat
      <3>2. lastLease' \in Nat
        BY DEF JobInv, TypeOK, jobVars
      <3> QED
        BY <3>1, <3>2, ConstantsOK
           DEF LocalOK, InFlight, NoLease, Leased, Executing, Reporting, Calling
    <2>2. CASE w \notin W
      BY <1>2, <2>2 DEF LeaseInv, LocalOK, Beating, jobVars
    <2> QED
      BY <2>1, <2>2
  <1>5. ASSUME NEW w \in Workers PROVE OwnOK(w)'
    <2>1. CASE w \in W
      BY <1>1, <2>1 DEF OwnOK, Own, NoClaim
    <2>2. CASE w \notin W
      BY <1>2, <2>2 DEF LeaseInv, OwnOK, Own, jobVars
    <2> QED
      BY <2>1, <2>2
  <1>6. Apart'
    BY <1>1, <1>2 DEF LeaseInv, Apart, NoClaim
  <1>7. ASSUME NEW r \in strays' PROVE StrayOK(r)'
    <2>1. CASE r \in strays
      BY <1>1, <1>2, <2>1 DEF LeaseInv, StrayOK, NoClaim, jobVars
    <2>2. ASSUME NEW v \in W, r.lease = claim[v].lease, r.job = claim[v].job,
                 \/ r.op = "heartbeat" /\ beat[v].at = "sent"
                 \/ r.op = doing[v] /\ call[v].at = "sent"
          PROVE  StrayOK(r)'
      <3>1. /\ LocalOK(v) /\ OwnOK(v) /\ claim[v].lease \in Nat
            /\ r.op # "claim" <=> r.lease # NoLease
        BY <2>2, WorkerState DEF LocalOK, Leased, Executing, Reporting, Calling, Claims
      <3>2. \A w \in Workers : r.lease # NoLease => r.lease # claim'[w].lease
        BY <1>1, <1>2, <2>2 DEF LeaseInv, Apart, NoClaim
      <3>3. r.op = "complete" /\ jobs[r.job].lease = r.lease => jobs[r.job].status = "ai_enriching"
        BY <2>2, <3>1 DEF OwnOK, Own, AtStage
      <3> QED
        BY <2>2, <3>1, <3>2, <3>3 DEF StrayOK, LocalOK, jobVars
    <2>3. r \in strays \cup OpenCalls(W) \cup OpenBeats(W)
      BY <1>7 DEF Settle, LeaveBehind
    <2>4. CASE r \in OpenCalls(W)
      <3>1. PICK v \in W : call[v].at = "sent" /\ r = Request(v, doing[v])
        BY <2>4 DEF OpenCalls
      <3> QED
        BY <3>1, <2>2 DEF Request
    <2>5. CASE r \in OpenBeats(W)
      <3>1. PICK v \in W : beat[v].at = "sent" /\ r = Request(v, "heartbeat")
        BY <2>5 DEF OpenBeats
      <3> QED
        BY <3>1, <2>2 DEF Request
    <2> QED
      BY <2>1, <2>3, <2>4, <2>5
  <1> QED
    BY <1>3, <1>4, <1>5, <1>6, <1>7 DEF LeaseInv

\* A claim is answered or given up, or its lease may be lost: the worker stops.
LEMMA LettingGoMoves ==
  ASSUME JobInv, ClaimsInv, LeaseInv, NEW w \in Workers,
         ReceiveReported(w) \/ Unanswered(w) \/ BeatEnds(w)
  PROVE  LeaseInv'
  <1>1. ASSUME Settle({w}, "idle"), UNCHANGED <<jobVars, stopping, budget>>
        PROVE  LeaseInv'
    BY <1>1, SettleMoves DEF LeaseInv, BudgetOK, Stopping
  <1>2. ASSUME HostDies(HostOf[w]), UNCHANGED <<jobVars, budget>>
        PROVE  LeaseInv'
    BY <1>2, SettleMoves DEF HostDies, WorkersOf, LeaseInv, BudgetOK, Stopping
  <1>3. CASE /\ MustEnd(w)
             /\ ~(doing[w] \in Executing /\ ~Stopping(w))
             /\ LeaveBehind(OpenBeats({w}))
             /\ beat' = [beat EXCEPT ![w] = [NoBeat EXCEPT !.at = "ended"]]
             /\ sinceOk' = [sinceOk EXCEPT ![w] = 0]
             /\ UNCHANGED <<doing, claim, call, grace>>
             /\ UNCHANGED <<jobVars, stopping, budget>>
    <2>0. /\ sinceOk \in [Workers -> 0..Safe] /\ grace \in [Workers -> 0..Slack]
          /\ beat \in [Workers -> Beats] /\ LocalOK(w) /\ OwnOK(w)
      BY WorkerState
    <2>1. beat'[w].at = "ended" /\ beat[w].at # "off"
      BY <1>3, <2>0 DEF MustEnd, NoBeat
    <2>2. LocalOK(w)'
      BY <1>3, <2>0, <2>1 DEF LocalOK, Beating, InFlight, Stopping, jobVars
    <2>3. Own(w) => /\ Recent(doing'[w], call'[w], beat'[w], sinceOk'[w], grace'[w],
                              jobs[claim[w].job].age)
                    /\ AtStage(doing'[w], call'[w], jobs[claim[w].job].status)
      BY <1>3, <2>0, <2>1 DEF OwnOK, Recent
    <2>4. \A r \in strays' \ strays : r = Request(w, "heartbeat") /\ claim[w].lease # NoLease
      BY <1>3, <2>0, <2>1, BeatLeftBehind DEF LocalOK
    <2>5. sinceOk' \in [Workers -> 0..Safe]
      BY <1>3, <2>0, ConstantsOK
    <2> QED
      BY <1>3, <2>0, <2>2, <2>3, <2>4, <2>5, WorkerMoves
  <1> QED
    BY <1>1, <1>2, <1>3 DEF ReceiveReported, Unanswered, BeatEnds

-----------------------------------------------------------------------------
\* What a step does to the row of a job whose lease lasts.
SameLease(j) ==
  /\ jobs'[j].lease = jobs[j].lease /\ jobs'[j].lockedBy = jobs[j].lockedBy
  /\ jobs'[j].age <= jobs[j].age

RowKept(j) == SameLease(j) /\ jobs'[j].status = jobs[j].status

RowStaged(j, A) ==
  /\ SameLease(j)
  /\ jobs[j].status = "ai_enriching" => jobs'[j].status = "ai_enriching"
  /\ \A v \in Workers \ A :
       Own(v) /\ claim[v].job = j => doing[v] \in {"retry", "fail", "release"}

\* Rows change, and with them what the workers of A (at most one) know of their
\* calls: leases end, new ones are drawn, or a job goes on under the lease it has.
LEMMA RowsMove ==
  ASSUME JobInv, JobInv', ClaimsInv, LeaseInv, NEW A \in SUBSET Workers,
         UNCHANGED <<doing, sinceOk, grace, stopping>>, strays' \subseteq strays, BudgetOK',
         lastLease' >= lastLease,
         \A v, w \in A : v = w,
         \A v \in Workers \ A :
           claim'[v] = claim[v] /\ call'[v] = call[v] /\ beat'[v] = beat[v],
         \A w \in A : /\ LocalOK(w)' /\ OwnOK(w)'
                      /\ claim'[w] = claim[w] \/ claim'[w].lease > lastLease,
         \A j \in JobIds : \/ jobs'[j].lease = NoLease \/ jobs'[j].lease > lastLease
                           \/ RowKept(j) \/ RowStaged(j, A)
  PROVE  LeaseInv'
  <1>1. /\ lastLease \in Nat /\ lastLease' \in Nat
        /\ \A j \in JobIds : /\ jobs[j].age \in Nat /\ jobs[j].lease \in Nat
                             /\ jobs'[j].age \in Nat /\ jobs'[j].lease \in Nat
        /\ \A v \in Workers : claim[v].lease \in Nat
    BY DEF JobInv, TypeOK, Rows, ClaimsInv, ClaimsTypeOK, Claims
  <1>2. ASSUME NEW v \in Workers PROVE LocalOK(v)'
    <2>1. CASE v \in A
      BY <2>1
    <2>2. CASE v \notin A
      <3>1. LocalOK(v) /\ claim[v].lease <= lastLease'
        BY <1>1 DEF LeaseInv, LocalOK
      <3> QED
        BY <2>2, <3>1 DEF LocalOK, Beating, Stopping
    <2> QED
      BY <2>1, <2>2
  <1>3. ASSUME NEW v \in Workers PROVE OwnOK(v)'
    <2>1. CASE v \in A
      BY <2>1
    <2>2. ASSUME v \notin A, Own(v)' PROVE OwnOK(v)'
      <3> DEFINE j == claim[v].job
      <3>1. j \in JobIds /\ claim[v].lease # NoLease /\ claim[v].lease <= lastLease
        BY <2>2, WorkerTypes DEF Own, LeaseInv, LocalOK
      <3>2. jobs'[j].lease = claim[v].lease
        BY <2>2 DEF Own
      <3>3. SameLease(j) /\ (RowKept(j) \/ RowStaged(j, A))
        BY <1>1, <3>1, <3>2 DEF RowKept, RowStaged
      <3>4. Own(v) /\ OwnOK(v)
        BY <3>1, <3>2, <3>3 DEF SameLease, Own, LeaseInv
      <3>5. jobs'[j].age <= jobs[j].age /\ jobs'[j].lockedBy = v
        BY <3>3, <3>4 DEF SameLease, OwnOK
      <3>6. Recent(doing[v], call[v], beat[v], sinceOk[v], grace[v], jobs'[j].age)
        <4>1. Recent(doing[v], call[v], beat[v], sinceOk[v], grace[v], jobs[j].age)
          BY <3>4 DEF OwnOK
        <4>2. /\ call[v].age \in Nat /\ beat[v].age \in Nat /\ sinceOk[v] \in Nat
              /\ grace[v] \in Nat /\ jobs[j].age \in Nat /\ jobs'[j].age <= jobs[j].age
              /\ jobs'[j].age \in Nat
          BY <1>1, <3>1, <3>5, WorkerTypes, ConstantsOK DEF Calls, Beats
        <4> QED
          BY <4>1, <4>2, ConstantsOK DEF Recent
      <3>7. AtStage(doing[v], call[v], jobs'[j].status)
        <4>1. CASE RowKept(j)
          BY <3>4, <4>1 DEF RowKept, OwnOK
        <4>2. CASE RowStaged(j, A)
          BY <2>2, <3>4, <4>2 DEF RowStaged, AtStage
        <4> QED
          BY <3>3, <4>1, <4>2
      <3> QED
        BY <2>2, <3>5, <3>6, <3>7 DEF OwnOK
    <2> QED
      BY <2>1, <2>2 DEF OwnOK
  <1>4. Apart'
    <2>1. ASSUME NEW v \in Workers, NEW w \in Workers, v # w, claim'[v].lease # NoLease,
                 claim'[v].lease = claim'[w].lease
          PROVE  FALSE
      <3>1. \A u \in Workers : claim[u].lease <= lastLease
        BY DEF LeaseInv, LocalOK
      <3>2. \/ claim'[v] = claim[v] /\ claim'[w] = claim[w]
            \/ claim'[v] = claim[v] /\ claim'[w].lease > lastLease
            \/ claim'[w] = claim[w] /\ claim'[v].lease > lastLease
        BY <2>1
      <3> QED
        BY <1>1, <2>1, <3>1, <3>2 DEF LeaseInv, Apart
    <2> QED
      BY <2>1 DEF Apart
  <1>5. ASSUME NEW r \in strays' PROVE StrayOK(r)'
    <2>1. StrayOK(r) /\ RequestOK(r)
      BY DEF LeaseInv, ClaimsInv
    <2>2. r.lease \in Nat /\ r.lease <= lastLease /\ r.lease <= lastLease'
      BY <1>1, <2>1 DEF StrayOK
    <2>3. ASSUME NEW w \in Workers, r.lease # NoLease, r.lease = claim'[w].lease
          PROVE  r.op \in Behind(doing'[w])
      <3>1. claim'[w] = claim[w]
        BY <1>1, <2>2, <2>3
      <3> QED
        BY <2>1, <2>3, <3>1 DEF StrayOK
    <2>4. ASSUME r.op = "complete", jobs'[r.job].lease = r.lease
          PROVE  jobs'[r.job].status = "ai_enriching"
      <3>1. r.job \in JobIds /\ r.lease # NoLease
        BY <2>1, <2>4 DEF RequestOK, StrayOK
      <3>2. SameLease(r.job) /\ (RowKept(r.job) \/ RowStaged(r.job, A))
        BY <1>1, <2>2, <2>4, <3>1 DEF RowKept, RowStaged
      <3>3. jobs[r.job].status = "ai_enriching"
        BY <2>1, <2>4, <3>2 DEF SameLease, StrayOK
      <3> QED
        BY <3>2, <3>3 DEF RowKept, RowStaged
    <2> QED
      BY <2>1, <2>2, <2>3, <2>4 DEF StrayOK
  <1>6. sinceOk' \in [Workers -> 0..Safe] /\ grace' \in [Workers -> 0..Slack]
    BY DEF LeaseInv
  <1> QED
    BY <1>2, <1>3, <1>4, <1>5, <1>6 DEF LeaseInv

\* What a request does to the rows when the database executes it.
Executed(op, j, w, t) ==
  /\ jobs[j].lease = t /\ jobs[j].lockedBy = w /\ lastLease' = lastLease
  /\ \A k \in JobIds \ {j} : jobs'[k] = jobs[k]
  /\ op \in {"heartbeat", "algorithm", "ai"} => SameLease(j)
  /\ op \in {"heartbeat", "algorithm", "ai"} => jobs'[j].age = 0
  /\ op = "heartbeat" => jobs'[j].status = jobs[j].status
  /\ op = "algorithm" => /\ jobs[j].status \in {"processing", "algorithm_completed"}
                         /\ jobs'[j].status = "algorithm_completed"
  /\ op = "ai" => jobs'[j].status = "ai_enriching"
  /\ op \notin {"heartbeat", "algorithm", "ai"} => jobs'[j].lease = NoLease

LEMMA ExecuteRows ==
  ASSUME JobInv, NEW op, NEW j \in JobIds, NEW w, NEW t, Execute(op, j, w, t)
  PROVE  Executed(op, j, w, t)
  <1> USE DEF Executed
  <1>1. jobs[j] \in Rows /\ jobs[j].age >= 0 /\ jobs \in [JobIds -> Rows]
    BY DEF JobInv, TypeOK, Rows
  <1>2. CASE op = "heartbeat" /\ Heartbeat(j, w, t)
    BY <1>1, <1>2 DEF Heartbeat, Owns, SameLease, Rows
  <1>3. CASE op = "algorithm" /\ PersistAlgorithm(j, w, t)
    BY <1>1, <1>3 DEF PersistAlgorithm, Owns, SameLease, Staged
  <1>4. CASE op = "ai" /\ PersistAi(j, w, t)
    BY <1>1, <1>4 DEF PersistAi, Owns, SameLease, Staged
  <1>5. CASE op = "complete" /\ Complete(j, w, t)
    BY <1>1, <1>5 DEF Complete, Owns, Unlocked
  <1>6. CASE op = "retry" /\ Fail(j, w, t, TRUE)
    BY <1>1, <1>6 DEF Fail, Owns, Unlocked
  <1>7. CASE op = "fail" /\ Fail(j, w, t, FALSE)
    BY <1>1, <1>7 DEF Fail, Owns, Unlocked
  <1>8. CASE op = "release" /\ Release(j, w, t)
    BY <1>1, <1>8 DEF Release, Owns, Released
  <1> QED
    BY <1>2, <1>3, <1>4, <1>5, <1>6, <1>7, <1>8 DEF Execute

\* Rows that nobody has touched.
LEMMA SameRowKept ==
  ASSUME JobInv, NEW j \in JobIds, jobs'[j] = jobs[j]
  PROVE  RowKept(j)
  BY DEF RowKept, SameLease, JobInv, TypeOK, Rows

\* A worker gets a job under a lease nobody had before.
LEMMA ClaimMoves ==
  ASSUME JobInv, JobInv', ClaimsInv, LeaseInv, NEW w \in Workers, ExecuteClaim(w)
  PROVE  LeaseInv'
  <1>1. PICK j \in JobIds : /\ Claim(j, w)
                            /\ claim' = [claim EXCEPT ![w] = [job |-> j, lease |-> lastLease']]
    BY DEF ExecuteClaim
  <1>2. /\ lastLease \in Nat /\ lastLease' = lastLease + 1
        /\ jobs' = [jobs EXCEPT ![j] = ClaimedRow(jobs[j], w, lastLease + 1)]
        /\ jobs \in [JobIds -> Rows]
    BY <1>1 DEF Claim, JobInv, TypeOK
  <1>3. /\ jobs'[j].lease = lastLease' /\ jobs'[j].lockedBy = w
        /\ jobs'[j].status = "processing" /\ jobs'[j].age = 0
        /\ \A k \in JobIds \ {j} : jobs'[k] = jobs[k]
    BY <1>2 DEF ClaimedRow
  <1>4. /\ claim'[w].job = j /\ claim'[w].lease = lastLease'
        /\ \A v \in Workers \ {w} : claim'[v] = claim[v] /\ call'[v] = call[v]
        /\ doing[w] = "claim" /\ call'[w].at = "ok" /\ call'[w].age = call[w].age
        /\ UNCHANGED <<doing, beat, sinceOk, grace, stopping, strays, budget>>
        /\ call[w].age \in Nat
    BY <1>1, WorkerState DEF ExecuteClaim, Calls
  <1>5. beat[w].at = "off" /\ LocalOK(w)
    BY <1>4, WorkerState DEF LocalOK, Leased, Executing, Reporting
  <1>6. LocalOK(w)'
    BY <1>2, <1>4, <1>5 DEF LocalOK, Leased, Executing, Reporting, Calling, InFlight,
                            NoLease
  <1>7. OwnOK(w)'
    BY <1>3, <1>4, <1>5 DEF OwnOK, Recent, AtStage, Executing, Reporting
  <1>8. ASSUME NEW k \in JobIds PROVE jobs'[k].lease > lastLease \/ RowKept(k)
    BY <1>2, <1>3, SameRowKept
  <1>9. BudgetOK'
    BY <1>4 DEF LeaseInv, BudgetOK
  <1> DEFINE A == {w}
  <1>10. /\ A \in SUBSET Workers /\ \A u, v \in A : u = v
         /\ \A v \in Workers \ A :
              claim'[v] = claim[v] /\ call'[v] = call[v] /\ beat'[v] = beat[v]
         /\ \A v \in A : /\ LocalOK(v)' /\ OwnOK(v)'
                         /\ claim'[v] = claim[v] \/ claim'[v].lease > lastLease
    BY <1>2, <1>4, <1>6, <1>7
  <1>11. /\ UNCHANGED <<doing, sinceOk, grace, stopping>> /\ strays' \subseteq strays
         /\ lastLease' >= lastLease
    BY <1>2, <1>4
  <1> HIDE DEF A
  <1> QED
    BY <1>8, <1>9, <1>10, <1>11, RowsMove

\* The database executes the call of a worker, or refuses it.
LEMMA CallMoves ==
  ASSUME JobInv, JobInv', ClaimsInv, LeaseInv, NEW w \in Workers, ExecuteCall(w)
  PROVE  LeaseInv'
  <1>0. PICK op, j, t : op = doing[w] /\ j = claim[w].job /\ t = claim[w].lease
    OBVIOUS
  <1>1. /\ doing[w] \in {"algorithm", "ai"} \cup Reporting
        /\ call[w].at = "sent" /\ call'[w].at \in {"ok", "refused", "misfit"} /\ call'[w].age = call[w].age
        /\ \A v \in Workers \ {w} : call'[v] = call[v]
        /\ UNCHANGED <<doing, claim, beat, sinceOk, grace, stopping, strays, budget>>
        /\ call[w].age \in Nat
    BY WorkerState DEF ExecuteCall, Calls, Calling
  <1>2. /\ LocalOK(w) /\ OwnOK(w) /\ claim[w].lease # NoLease /\ j \in JobIds
        /\ beat[w].age \in Nat /\ sinceOk[w] \in Nat /\ grace[w] \in Nat
    BY <1>0, <1>1, WorkerState, WorkerTypes, ConstantsOK
       DEF LocalOK, Leased, Executing, Reporting, Beats
  <1>3. \/ call'[w].at = "ok" /\ Execute(op, j, w, t)
        \/ call'[w].at \in {"refused", "misfit"} /\ UNCHANGED jobVars
        \/ EndedAlready(op, j) /\ UNCHANGED jobVars
    BY <1>0, WorkerState DEF ExecuteCall, Calls
  <1>a. ASSUME Execute(op, j, w, t) PROVE Executed(op, j, w, t)
    BY <1>2, <1>a, ExecuteRows
  <1>4. lastLease' = lastLease /\ lastLease \in Nat
    BY <1>3, <1>a DEF Executed, jobVars, JobInv, TypeOK
  <1>5. LocalOK(w)'
    BY <1>1, <1>2, <1>4 DEF LocalOK, Beating, Stopping
  <1>6. OwnOK(w)'
    <2>1. CASE call'[w].at \in {"refused", "misfit"} /\ UNCHANGED jobVars
      BY <1>1, <1>2, <2>1 DEF OwnOK, Own, Recent, AtStage, Reporting, jobVars
    <2>3. CASE EndedAlready(op, j) /\ UNCHANGED jobVars
      <3>1. jobs'[j].lease = NoLease
        BY <1>2, <2>3 DEF EndedAlready, JobInv, TypeOK, Locked, Active, jobVars
      <3> QED
        BY <1>0, <1>1, <1>2, <3>1 DEF OwnOK, Own
    <2>2. CASE call'[w].at = "ok" /\ Execute(op, j, w, t)
      <3>1. CASE op \in {"algorithm", "ai"}
        <4>1. /\ jobs'[j].lockedBy = w /\ jobs'[j].age = 0
              /\ op = "algorithm" => jobs'[j].status = "algorithm_completed"
              /\ op = "ai" => jobs'[j].status = "ai_enriching"
          BY <1>2, <2>2, <3>1, <1>a DEF Executed, SameLease
        <4> QED
          BY <1>0, <1>1, <1>2, <2>2, <3>1, <4>1, ConstantsOK
             DEF OwnOK, Recent, AtStage, Executing, Reporting
      <3>2. CASE op \in Reporting
        <4>1. jobs'[j].lease = NoLease
          BY <1>2, <2>2, <3>2, <1>a DEF Executed, Reporting
        <4> QED
          BY <1>0, <1>1, <1>2, <4>1 DEF OwnOK, Own
      <3> QED
        BY <1>0, <1>1, <3>1, <3>2
    <2> QED
      BY <1>3, <2>1, <2>2, <2>3
  <1> DEFINE A == {w}
  <1>7. ASSUME NEW k \in JobIds PROVE jobs'[k].lease = NoLease \/ RowKept(k) \/ RowStaged(k, A)
    <2>1. CASE jobs'[k] = jobs[k]
      BY <2>1, SameRowKept
    <2>2. CASE k = j /\ Execute(op, j, w, t)
      <3>1. CASE op \in {"algorithm", "ai"}
        <4>1. SameLease(j) /\ (jobs[j].status = "ai_enriching" => jobs'[j].status = "ai_enriching")
          BY <1>2, <2>2, <3>1, <1>a DEF Executed
        <4>2. \A v \in Workers \ A : ~(Own(v) /\ claim[v].job = j)
          <5>1. jobs[j].lease = claim[w].lease
            BY <1>0, <1>2, <2>2, <1>a DEF Executed
          <5> QED
            BY <1>0, <1>2, <5>1 DEF Own, LeaseInv, Apart
        <4> QED
          BY <2>2, <4>1, <4>2 DEF RowStaged
      <3>2. CASE op \in Reporting
        BY <1>2, <2>2, <3>2, <1>a DEF Executed, Reporting
      <3> QED
        BY <1>0, <1>1, <3>1, <3>2
    <2> QED
      BY <1>2, <1>3, <2>1, <2>2, <1>a DEF Executed, jobVars
  <1>8. BudgetOK'
    BY <1>1 DEF LeaseInv, BudgetOK
  <1>9. /\ A \in SUBSET Workers /\ \A u, v \in A : u = v
        /\ \A v \in Workers \ A :
             claim'[v] = claim[v] /\ call'[v] = call[v] /\ beat'[v] = beat[v]
        /\ \A v \in A : LocalOK(v)' /\ OwnOK(v)' /\ claim'[v] = claim[v]
    BY <1>1, <1>5, <1>6
  <1> HIDE DEF A
  <1> QED
    BY <1>1, <1>4, <1>7, <1>8, <1>9, RowsMove

\* A beat reaches the database, or is refused because the lease is gone.
LEMMA BeatExecutedMoves ==
  ASSUME JobInv, JobInv', ClaimsInv, LeaseInv, NEW w \in Workers, ExecuteBeat(w)
  PROVE  LeaseInv'
  <1>0. PICK j, t : j = claim[w].job /\ t = claim[w].lease
    OBVIOUS
  <1>1. /\ beat[w].at = "sent" /\ beat'[w].at \in {"ok", "refused"} /\ beat'[w].age = beat[w].age
        /\ \A v \in Workers \ {w} : beat'[v] = beat[v]
        /\ UNCHANGED <<doing, claim, call, sinceOk, grace, stopping, strays, budget>>
        /\ beat[w].age \in Nat
    BY WorkerState DEF ExecuteBeat, Beats
  <1>2. /\ LocalOK(w) /\ OwnOK(w) /\ claim[w].lease # NoLease /\ j \in JobIds
        /\ call[w].age \in Nat /\ sinceOk[w] \in Nat /\ grace[w] \in Nat
        /\ jobs[j].age \in Nat
    <2>1. claim[w].lease # NoLease /\ j \in JobIds
      BY <1>0, <1>1, WorkerState, WorkerTypes DEF LocalOK
    <2> QED
      BY <1>0, <1>1, <2>1, WorkerState, ConstantsOK DEF Calls, JobInv, TypeOK, Rows
  <1>3. \/ beat'[w].at = "ok" /\ Execute("heartbeat", j, w, t)
        \/ beat'[w].at = "refused" /\ UNCHANGED jobVars
    BY <1>0, WorkerState DEF ExecuteBeat, Execute, Beats
  <1>4. ASSUME Execute("heartbeat", j, w, t) PROVE Executed("heartbeat", j, w, t)
    BY <1>2, <1>4, ExecuteRows
  <1>5. lastLease' = lastLease /\ lastLease \in Nat
    BY <1>3, <1>4 DEF Executed, jobVars, JobInv, TypeOK
  <1>6. LocalOK(w)'
    BY <1>1, <1>2, <1>5 DEF LocalOK, Beating, Stopping, InFlight
  <1>7. OwnOK(w)'
    <2>1. CASE beat'[w].at = "refused" /\ UNCHANGED jobVars
      BY <1>1, <1>2, <2>1 DEF OwnOK, Own, Recent, jobVars
    <2>2. CASE beat'[w].at = "ok" /\ Execute("heartbeat", j, w, t)
      <3>1. /\ jobs[j].lease = t /\ SameLease(j) /\ jobs'[j].age = 0
            /\ jobs'[j].status = jobs[j].status
        BY <2>2, <1>4 DEF Executed
      <3>2. Own(w) /\ jobs'[j].lockedBy = w /\ AtStage(doing[w], call[w], jobs'[j].status)
        BY <1>0, <1>2, <3>1 DEF Own, OwnOK, SameLease
      <3>3. Recent(doing[w], call[w], beat'[w], sinceOk[w], grace[w], 0)
        BY <1>1, <1>2, ConstantsOK DEF Recent
      <3> QED
        BY <1>0, <1>1, <3>1, <3>2, <3>3 DEF OwnOK
    <2> QED
      BY <1>3, <2>1, <2>2
  <1> DEFINE A == {w}
  <1>8. ASSUME NEW k \in JobIds PROVE RowKept(k)
    <2>1. CASE jobs'[k] = jobs[k]
      BY <2>1, SameRowKept
    <2>2. CASE k = j /\ Execute("heartbeat", j, w, t)
      BY <1>4, <2>2 DEF Executed, RowKept
    <2> QED
      BY <1>2, <1>3, <1>4, <2>1, <2>2 DEF Executed, jobVars
  <1>9. BudgetOK'
    BY <1>1 DEF LeaseInv, BudgetOK
  <1>10. /\ A \in SUBSET Workers /\ \A u, v \in A : u = v
         /\ \A v \in Workers \ A :
              claim'[v] = claim[v] /\ call'[v] = call[v] /\ beat'[v] = beat[v]
         /\ \A v \in A : LocalOK(v)' /\ OwnOK(v)' /\ claim'[v] = claim[v]
    BY <1>1, <1>6, <1>7
  <1> HIDE DEF A
  <1> QED
    BY <1>1, <1>5, <1>8, <1>9, <1>10, RowsMove

\* Nobody but the database moves: leases end or are drawn for nobody who waits.
LEMMA QueueMoves ==
  ASSUME JobInv, JobInv', ClaimsInv, LeaseInv, UNCHANGED <<workerVars, stopping>>,
         strays' \subseteq strays, BudgetOK', lastLease' >= lastLease,
         \A j \in JobIds : \/ jobs'[j].lease = NoLease \/ jobs'[j].lease > lastLease
                           \/ RowKept(j) \/ RowStaged(j, {})
  PROVE  LeaseInv'
  <1> DEFINE A == {}
  <1>1. /\ A \in SUBSET Workers /\ \A u, v \in A : u = v
        /\ \A v \in Workers \ A :
             claim'[v] = claim[v] /\ call'[v] = call[v] /\ beat'[v] = beat[v]
        /\ \A v \in A : LocalOK(v)' /\ OwnOK(v)' /\ claim'[v] = claim[v]
        /\ UNCHANGED <<doing, sinceOk, grace, stopping>>
        /\ \A j \in JobIds : \/ jobs'[j].lease = NoLease \/ jobs'[j].lease > lastLease
                             \/ RowKept(j) \/ RowStaged(j, A)
    BY DEF workerVars
  <1> HIDE DEF A
  <1> QED
    BY <1>1, RowsMove

LEMMA EndAttemptsEnds ==
  ASSUME JobInv, NEW S \in SUBSET JobIds, EndAttempts(S), NEW j \in JobIds
  PROVE  jobs'[j].lease = NoLease \/ RowKept(j)
  BY EndAttemptsFrame, SameRowKept

\* The reaper, the web site and the administrators.
LEMMA OthersMove ==
  ASSUME JobInv, JobInv', ClaimsInv, LeaseInv,
         \/ \E w \in Workers : Reap(w)
         \/ \E j \in JobIds, r \in Requests : Create(j, r)
         \/ Intervene
  PROVE  LeaseInv'
  <1>0. lastLease \in Nat /\ BudgetOK /\ jobs \in [JobIds -> Rows]
    BY DEF JobInv, TypeOK, LeaseInv
  <1>1. ASSUME NEW w \in Workers, Reap(w) PROVE LeaseInv'
    <2>1. PICK cutoff \in (Lease - Skew)..Lease : ReleaseStale(cutoff)
      BY <1>1 DEF Reap
    <2>2. Stale(cutoff) \in SUBSET JobIds /\ EndAttempts(Stale(cutoff)) /\ lastLease' = lastLease
      BY <2>1 DEF ReleaseStale, Stale
    <2>3. UNCHANGED <<workerVars, stopping, strays, budget>> /\ BudgetOK'
      BY <1>0, <1>1 DEF Reap, BudgetOK
    <2>4. \A j \in JobIds : jobs'[j].lease = NoLease \/ RowKept(j)
      BY <2>2, EndAttemptsEnds
    <2> QED
      BY <1>0, <2>2, <2>3, <2>4, QueueMoves
  <1>2. ASSUME NEW j \in JobIds, NEW r \in Requests, Create(j, r) PROVE LeaseInv'
    <2>1. /\ jobs' = [jobs EXCEPT ![j] = NewRow(r)] /\ lastLease' = lastLease
          /\ UNCHANGED <<workerVars, stopping, strays, budget>> /\ BudgetOK'
      BY <1>0, <1>2 DEF Create, Insert, BudgetOK
    <2>2. ASSUME NEW k \in JobIds PROVE jobs'[k].lease = NoLease \/ RowKept(k)
      <3>1. jobs'[k] = NewRow(r) \/ jobs'[k] = jobs[k]
        BY <1>0, <2>1
      <3> QED
        BY <3>1, SameRowKept DEF NewRow
    <2> QED
      BY <1>0, <2>1, <2>2, QueueMoves
  <1>3. ASSUME Intervene PROVE LeaseInv'
    <2>1. UNCHANGED <<workerVars, stopping, strays>> /\ BudgetOK'
      BY <1>0, <1>3, BoundsAssumption DEF Intervene, BudgetOK
    <2>2. ASSUME NEW k \in JobIds
          PROVE  /\ jobs'[k].lease = NoLease \/ RowKept(k)
                 /\ lastLease' = lastLease
      <3>1. CASE \E r \in Requests : ExpireInputs({r})
        BY <1>0, <3>1, SameRowKept DEF ExpireInputs, Unlocked
      <3>2. ASSUME NEW j \in JobIds, AdminRetry(j)
            PROVE  /\ jobs'[k].lease = NoLease \/ RowKept(k)
                   /\ lastLease' = lastLease
        <4>1. jobs'[k] = jobs[k] \/ (k = j /\ jobs'[k].lease = jobs[k].lease)
          BY <1>0, <3>2 DEF AdminRetry, Rows
        <4>2. jobs[j].lease = NoLease
          BY <3>2 DEF AdminRetry, JobInv, TypeOK, Locked, Active
        <4> QED
          BY <3>2, <4>1, <4>2, SameRowKept DEF AdminRetry
      <3>3. ASSUME NEW j \in JobIds, AdminCancel(j)
            PROVE  /\ jobs'[k].lease = NoLease \/ RowKept(k)
                   /\ lastLease' = lastLease
        BY <1>0, <3>3, SameRowKept DEF AdminCancel, Unlocked
      <3>4. ASSUME NEW j \in JobIds, AdminReap(j)
            PROVE  /\ jobs'[k].lease = NoLease \/ RowKept(k)
                   /\ lastLease' = lastLease
        BY <3>4, EndAttemptsEnds DEF AdminReap
      <3> QED
        BY <1>3, <3>1, <3>2, <3>3, <3>4 DEF Intervene, AdminCall
    <2>3. lastLease' = lastLease
      BY <1>3 DEF Intervene, AdminCall, AdminRetry, AdminCancel, AdminReap, ExpireInputs
    <2> QED
      BY <1>0, <2>1, <2>2, <2>3, QueueMoves
  <1> QED
    BY <1>1, <1>2, <1>3

\* A request whose client has given up is executed: it ends a lease nobody goes
\* on with, or repeats what its worker has already given up.
LEMMA StrayMoves ==
  ASSUME JobInv, JobInv', ClaimsInv, LeaseInv, NEW r \in strays, ExecuteStray(r)
  PROVE  LeaseInv'
  <1>0. /\ lastLease \in Nat /\ BudgetOK /\ jobs \in [JobIds -> Rows]
        /\ StrayOK(r) /\ RequestOK(r)
    BY DEF JobInv, TypeOK, LeaseInv, ClaimsInv
  <1>1. UNCHANGED <<workerVars, stopping, budget>> /\ strays' \subseteq strays /\ BudgetOK'
    BY <1>0 DEF ExecuteStray, BudgetOK
  <1>2. ASSUME r.op = "claim", NEW j \in JobIds, Claim(j, r.worker)
        PROVE  LeaseInv'
    <2>1. /\ jobs' = [jobs EXCEPT ![j] = ClaimedRow(jobs[j], r.worker, lastLease + 1)]
          /\ lastLease' = lastLease + 1
      BY <1>2 DEF Claim
    <2>2. ASSUME NEW k \in JobIds PROVE jobs'[k].lease > lastLease \/ RowKept(k)
      <3>1. CASE k = j
        BY <1>0, <2>1, <3>1 DEF ClaimedRow
      <3>2. CASE k # j
        BY <1>0, <2>1, <3>2, SameRowKept
      <3> QED
        BY <3>1, <3>2
    <2>3. lastLease' >= lastLease
      BY <1>0, <2>1
    <2> QED
      BY <1>1, <2>2, <2>3, QueueMoves
  <1>3. ASSUME r.op # "claim", Execute(r.op, r.job, r.worker, r.lease)
        PROVE  LeaseInv'
    <2>1. r.job \in JobIds /\ r.lease # NoLease
      BY <1>0, <1>3 DEF RequestOK, StrayOK
    <2>2. Executed(r.op, r.job, r.worker, r.lease)
      BY <1>3, <2>1, ExecuteRows
    <2>3. ASSUME NEW k \in JobIds
          PROVE  jobs'[k].lease = NoLease \/ RowKept(k) \/ RowStaged(k, {})
      <3>1. CASE k # r.job
        BY <2>2, <3>1, SameRowKept DEF Executed
      <3>2. CASE k = r.job /\ r.op = "heartbeat"
        BY <2>2, <3>2 DEF Executed, RowKept
      <3>3. CASE k = r.job /\ r.op \in {"algorithm", "ai"}
        <4>1. \A v \in Workers :
                Own(v) /\ claim[v].job = k => doing[v] \in {"retry", "fail", "release"}
          <5>1. ASSUME NEW v \in Workers, Own(v), claim[v].job = k
                PROVE  doing[v] \in {"retry", "fail", "release"}
            <6>1. claim[v].lease = r.lease
              BY <2>2, <3>3, <5>1 DEF Executed, Own
            <6>2. r.op \in Behind(doing[v])
              BY <1>0, <2>1, <6>1 DEF StrayOK
            <6> QED
              BY <3>3, <6>2 DEF Behind
          <5> QED
            BY <5>1
        <4>2. SameLease(k) /\ (jobs[k].status = "ai_enriching" => jobs'[k].status = "ai_enriching")
          BY <2>2, <3>3 DEF Executed
        <4> QED
          BY <4>1, <4>2 DEF RowStaged
      <3>4. CASE k = r.job /\ r.op \notin {"heartbeat", "algorithm", "ai"}
        BY <2>2, <3>4 DEF Executed
      <3> QED
        BY <3>1, <3>2, <3>3, <3>4
    <2>4. lastLease' >= lastLease
      BY <1>0, <2>2 DEF Executed
    <2> QED
      BY <1>1, <2>3, <2>4, QueueMoves
  <1> QED
    BY <1>2, <1>3 DEF ExecuteStray

\* Processes are told to stop, die and start again; a request is lost.
LEMMA HostsMove ==
  ASSUME JobInv, ClaimsInv, LeaseInv,
         \/ \E h \in Hosts : SigTerm(h) \/ Start(h) \/ Crash(h)
         \/ \E r \in strays : LoseStray(r)
  PROVE  LeaseInv'
  <1>0. BudgetOK
    BY DEF LeaseInv
  <1>1. ASSUME NEW h \in Hosts, SigTerm(h) PROVE LeaseInv'
    <2>1. BudgetOK'
      BY <1>0, <1>1, BoundsAssumption DEF SigTerm, BudgetOK
    <2>2. \A w \in Workers : LocalOK(w)'
      BY <1>1 DEF SigTerm, LeaseInv, LocalOK, Beating, Stopping, workerVars, jobVars
    <2>3. \A w \in Workers : OwnOK(w)'
      BY <1>1 DEF SigTerm, LeaseInv, OwnOK, Own, workerVars, jobVars
    <2> QED
      BY <1>1, <2>1, <2>2, <2>3
         DEF SigTerm, LeaseInv, Apart, StrayOK, workerVars, jobVars
  <1>2. ASSUME NEW h \in Hosts, Start(h) PROVE LeaseInv'
    <2>1. BudgetOK'
      BY <1>0, <1>2 DEF Start, BudgetOK
    <2>2. ASSUME NEW w \in Workers
          PROVE  \/ doing'[w] = doing[w] /\ (Stopping(w)' <=> Stopping(w))
                 \/ doing[w] = "off" /\ doing'[w] = "idle"
      BY <1>2, WorkerState DEF Start, WorkersOf, Stopping
    <2>3. ASSUME NEW w \in Workers PROVE LocalOK(w)'
      <3>1. LocalOK(w)
        BY DEF LeaseInv
      <3> QED
        BY <1>2, <2>2, <3>1
           DEF Start, LocalOK, Beating, jobVars, Leased, Executing, Reporting, Calling
    <2>4. ASSUME NEW w \in Workers PROVE OwnOK(w)'
      <3>1. LocalOK(w) /\ OwnOK(w)
        BY DEF LeaseInv
      <3>2. CASE doing'[w] = doing[w]
        BY <1>2, <3>1, <3>2 DEF Start, OwnOK, Own, jobVars
      <3>3. CASE doing[w] = "off"
        <4>1. claim'[w].lease = NoLease
          BY <1>2, <3>1, <3>3 DEF Start, LocalOK, Leased, Executing, Reporting
        <4> QED
          BY <4>1 DEF OwnOK, Own
      <3> QED
        BY <2>2, <3>2, <3>3
    <2>5. ASSUME NEW r \in strays' PROVE StrayOK(r)'
      <3>1. \A w \in Workers : Behind(doing'[w]) = Behind(doing[w])
        BY <2>2 DEF Behind
      <3> QED
        BY <1>2, <3>1 DEF Start, LeaseInv, StrayOK, jobVars
    <2> QED
      BY <1>2, <2>1, <2>3, <2>4, <2>5 DEF Start, LeaseInv, Apart
  <1>3. ASSUME NEW h \in Hosts, Crash(h) PROVE LeaseInv'
    <2>1. BudgetOK'
      BY <1>0, <1>3 DEF Crash, HostDies, BudgetOK
    <2>2. \A v \in Workers \ WorkersOf(h) : Stopping(v)' <=> Stopping(v)
      BY <1>3 DEF Crash, HostDies, WorkersOf, Stopping
    <2> QED
      BY <1>3, <2>1, <2>2, SettleMoves DEF Crash, HostDies, WorkersOf
  <1>4. ASSUME NEW r \in strays, LoseStray(r) PROVE LeaseInv'
    BY <1>0, <1>4
       DEF LoseStray, LeaseInv, BudgetOK, LocalOK, Beating, Stopping, OwnOK, Own, Apart,
           StrayOK, workerVars, jobVars
  <1> QED
    BY <1>1, <1>2, <1>3, <1>4

\* Time passes: a lease and the clocks of its worker grow together, and no clock
\* grows beyond what makes a task due.
LEMMA TimeMoves ==
  ASSUME JobInv, JobInv', ClaimsInv, LeaseInv, TimePasses
  PROVE  LeaseInv'
  <1>1. /\ UNCHANGED <<doing, claim, stopping, strays, budget>> /\ lastLease' = lastLease
        /\ \A j \in JobIds : /\ jobs'[j].lease = jobs[j].lease
                             /\ jobs'[j].status = jobs[j].status
                             /\ jobs'[j].lockedBy = jobs[j].lockedBy
                             /\ jobs[j].age \in Nat /\ jobs'[j].age \in Nat
                             /\ jobs'[j].age <= jobs[j].age + 1
    <2>1. ASSUME NEW j \in JobIds
          PROVE  jobs'[j] = jobs[j] \/ jobs'[j] = [jobs[j] EXCEPT !.age = Older(jobs[j].age)]
      BY DEF TimePasses, Tick
    <2>2. ASSUME NEW j \in JobIds
          PROVE  jobs[j] \in Rows /\ jobs[j].age \in Nat /\ Older(jobs[j].age) \in Nat
                 /\ Older(jobs[j].age) <= jobs[j].age + 1
      BY AgeAssumption DEF JobInv, TypeOK, Rows, Older
    <2> QED
      BY <2>1, <2>2 DEF TimePasses, Tick, Rows
  <1>2. ASSUME NEW w \in Workers
        PROVE  /\ call'[w].at = call[w].at
               /\ call[w].at = "none" => call'[w].age = 0
               /\ call[w].at # "none" =>
                    call'[w].age = call[w].age + 1 /\ call[w].age < RequestTimeout
               /\ call[w].age \in Nat
    BY WorkerState, ConstantsOK DEF TimePasses, Due, NoCall, Calls
  <1>3. ASSUME NEW w \in Workers
        PROVE  /\ beat'[w].at = beat[w].at /\ beat[w].age \in Nat
               /\ InFlight(beat[w]) =>
                    beat'[w].age = beat[w].age + 1 /\ beat[w].age < RequestTimeout
    BY WorkerState, ConstantsOK DEF TimePasses, Due, Passed, Beats, InFlight
  <1>4. ASSUME NEW w \in Workers
        PROVE  /\ sinceOk[w] \in Nat /\ sinceOk[w] <= Safe
               /\ Beating(w) => sinceOk'[w] = sinceOk[w] + 1 /\ sinceOk[w] < Safe
               /\ ~Beating(w) => sinceOk'[w] = 0
    BY WorkerState, ConstantsOK DEF TimePasses, Due, MustEnd, Beating, Beats
  <1>5. ASSUME NEW w \in Workers
        PROVE  /\ grace[w] \in Nat /\ grace[w] <= Slack
               /\ doing[w] \in Executing /\ Stopping(w) =>
                    grace'[w] = grace[w] + 1 /\ grace[w] < Slack
               /\ ~(doing[w] \in Executing /\ Stopping(w)) => grace'[w] = grace[w]
    <2>1. grace[w] \in Nat /\ grace[w] <= Slack
      BY WorkerState, ConstantsOK
    <2>2. Stopping(w) => Slack = Grace
      BY DEF LeaseInv, BudgetOK, Stopping, Slack
    <2>3. doing[w] \in Executing /\ Stopping(w) => ~(grace[w] >= Grace)
      BY DEF TimePasses, Due, GraceIsOver
    <2> QED
      BY <2>1, <2>2, <2>3, ConstantsOK DEF TimePasses
  <1>6. sinceOk' \in [Workers -> 0..Safe] /\ grace' \in [Workers -> 0..Slack]
    <2>1. \A w \in Workers : sinceOk'[w] \in 0..Safe /\ grace'[w] \in 0..Slack
      BY <1>4, <1>5, ConstantsOK
    <2> QED
      BY <2>1 DEF TimePasses
  <1>7. ASSUME NEW w \in Workers PROVE LocalOK(w)'
    <2>1. LocalOK(w)
      BY DEF LeaseInv
    <2>2. call'[w].age <= RequestTimeout
      BY <1>2, ConstantsOK
    <2>3. InFlight(beat'[w]) => beat'[w].age <= RequestTimeout
      BY <1>3, ConstantsOK DEF InFlight
    <2>4. Beating(w)' <=> Beating(w)
      BY <1>3 DEF Beating
    <2> QED
      BY <1>1, <1>2, <1>3, <2>1, <2>2, <2>3, <2>4 DEF LocalOK, InFlight, Stopping
  <1>8. ASSUME NEW w \in Workers, Own(w)' PROVE OwnOK(w)'
    <2> DEFINE j == claim[w].job
    <2>1. j \in JobIds
      BY <1>1, <1>8, WorkerTypes DEF Own
    <2>2. Own(w) /\ LocalOK(w) /\ OwnOK(w)
      BY <1>1, <1>8, <2>1 DEF Own, LeaseInv
    <2>3. PICK a, b : a = jobs[j].age /\ b = jobs'[j].age
      OBVIOUS
    <2>4. a \in Nat /\ b \in Nat /\ b <= a + 1
      BY <1>1, <2>1, <2>3
    <2>5. Recent(doing[w], call[w], beat[w], sinceOk[w], grace[w], a)
      BY <2>2, <2>3 DEF OwnOK
    <2>6. Recent(doing[w], call'[w], beat'[w], sinceOk'[w], grace'[w], b)
      <3>1. doing[w] = "claim" => b <= call'[w].age
        BY <1>2, <2>2, <2>4, <2>5 DEF Recent, LocalOK, Calling
      <3>2. Beating(w) => b <= sinceOk'[w] + RequestTimeout
        BY <1>4, <2>4, <2>5, ConstantsOK DEF Recent, Beating
      <3>3. beat[w].at = "ok" => b <= beat'[w].age
        BY <1>3, <2>4, <2>5 DEF Recent, InFlight
      <3>4. doing[w] \in Executing => b <= Safe + RequestTimeout + grace'[w]
        <4>1. CASE Beating(w)
          BY <1>4, <1>5, <3>2, <4>1, <2>4, ConstantsOK
        <4>2. CASE ~Beating(w)
          BY <1>5, <2>2, <2>4, <2>5, <4>2, ConstantsOK DEF Recent, LocalOK
        <4> QED
          BY <4>1, <4>2
      <3>5. doing[w] \in Reporting /\ call[w].at = "sent" =>
              b <= Safe + RequestTimeout + Slack + call'[w].age
        BY <1>2, <2>4, <2>5, ConstantsOK DEF Recent
      <3> QED
        BY <1>2, <1>3, <3>1, <3>2, <3>3, <3>4, <3>5 DEF Recent, Beating
    <2>7. AtStage(doing[w], call'[w], jobs'[j].status)
      BY <1>1, <1>2, <2>1, <2>2 DEF OwnOK, AtStage
    <2> QED
      BY <1>1, <2>1, <2>2, <2>3, <2>6, <2>7 DEF OwnOK
  <1>9. ASSUME NEW r \in strays' PROVE StrayOK(r)'
    <2>1. StrayOK(r) /\ RequestOK(r)
      BY <1>1 DEF LeaseInv, ClaimsInv
    <2>2. r.op = "complete" => r.job \in JobIds
      BY <2>1 DEF RequestOK
    <2> QED
      BY <1>1, <2>1, <2>2 DEF StrayOK
  <1> QED
    BY <1>1, <1>6, <1>7, <1>8, <1>9 DEF LeaseInv, BudgetOK, Apart, OwnOK

LEMMA LeaseInit == WorkerInit => LeaseInv
  <1> SUFFICES ASSUME WorkerInit PROVE LeaseInv
    OBVIOUS
  <1>1. lastLease = 0 /\ \A w \in Workers : claim[w].lease = 0
    BY DEF WorkerInit, JobInit, NoClaim, NoLease
  <1>2. ASSUME NEW w \in Workers PROVE LocalOK(w)
    BY <1>1, ConstantsOK
       DEF WorkerInit, LocalOK, NoCall, NoBeat, InFlight, Leased, Executing, Reporting,
           Calling, NoLease
  <1>3. BudgetOK
    BY BoundsAssumption DEF WorkerInit, BudgetOK
  <1> QED
    BY <1>1, <1>2, <1>3, ConstantsOK DEF WorkerInit, LeaseInv, OwnOK, Own, Apart,
                                         NoLease

LEMMA LeaseStep ==
  ASSUME JobInv, ClaimsInv, LeaseInv, [WorkerNext]_vars
  PROVE  LeaseInv'
  <1>0. JobInv'
    BY StepUsesQueue, StepInv
  <1>1. ASSUME NEW w \in Workers, Proceed(w) \/ EndCall(w) \/ SendBeat(w) \/ EndBeat(w)
        PROVE  LeaseInv'
    BY <1>1, MainMoves, CallGivenUp, BeatMoves, LettingGoMoves
       DEF Proceed, EndCall, EndBeat
  <1>2. ASSUME NEW w \in Workers, ExecuteClaim(w) \/ ExecuteCall(w) \/ ExecuteBeat(w)
        PROVE  LeaseInv'
    BY <1>0, <1>2, ClaimMoves, CallMoves, BeatExecutedMoves
  <1>3. CASE UNCHANGED vars
    BY <1>3
       DEF vars, workerVars, LeaseInv, BudgetOK, LocalOK, Beating, Stopping, OwnOK, Own,
           Apart, StrayOK, jobVars
  <1> QED
    BY <1>0, <1>1, <1>2, <1>3, OthersMove, StrayMoves, HostsMove, TimeMoves
       DEF WorkerNext

\* Workers and queue together.
WorkerInv == JobInv /\ ClaimsInv /\ LeaseInv

LEMMA WorkerInvariant == WorkerSpec => []WorkerInv
  <1>1. WorkerInit => WorkerInv
    BY WorkersInit, InitInv, LeaseInit DEF WorkerInv
  <1>2. WorkerInv /\ [WorkerNext]_vars => WorkerInv'
    BY StepUsesQueue, StepInv, ClaimsStep, LeaseStep DEF WorkerInv
  <1> QED
    BY <1>1, <1>2, PTL DEF WorkerSpec

\* Whatever the settings, a handler that runs under a lease runs while that lease
\* is younger than the safe window, one request and the grace of a shutdown.
LeaseWatched ==
  \A w \in Workers :
    doing[w] \in Executing /\ jobs[claim[w].job].lease = claim[w].lease =>
      jobs[claim[w].job].age <= Safe + RequestTimeout + Slack

THEOREM HandlersWatchTheirLease == WorkerSpec => []LeaseWatched
  <1>1. ASSUME WorkerInv, NEW w \in Workers, doing[w] \in Executing,
               jobs[claim[w].job].lease = claim[w].lease
        PROVE  jobs[claim[w].job].age <= Safe + RequestTimeout + Slack
    <2>1. Own(w) /\ OwnOK(w) /\ grace[w] \in 0..Slack
      BY <1>1, WorkerState DEF WorkerInv, Own, LocalOK, Leased
    <2>2. jobs[claim[w].job].age \in Nat
      BY <1>1, <2>1, WorkerState DEF WorkerInv
    <2> QED
      BY <1>1, <2>1, <2>2, ConstantsOK DEF OwnOK, Recent
  <1>2. WorkerInv => LeaseWatched
    BY <1>1 DEF LeaseWatched
  <1> QED
    BY <1>2, WorkerInvariant, PTL

\* With a safety margin that covers one request, the grace and the skew of the
\* clocks, no reaper can take a lease whose handler still runs.
THEOREM HandlersStopInTime ==
  ASSUME RequestTimeout + Slack + Skew <= Margin
  PROVE  WorkerSpec => []HandlerStopsBeforeLease
  <1>1. ASSUME WorkerInv PROVE HandlerStopsBeforeLease
    <2>1. ASSUME NEW w \in Workers, doing[w] \in Executing,
                 jobs[claim[w].job].lease = claim[w].lease
          PROVE  jobs[claim[w].job].age <= Lease - Skew
      <3>1. Own(w) /\ OwnOK(w) /\ grace[w] \in 0..Slack
        BY <1>1, <2>1, WorkerState DEF WorkerInv, Own, LocalOK, Leased
      <3>2. jobs[claim[w].job].age \in Nat
        BY <1>1, <3>1, WorkerState DEF WorkerInv
      <3>3. jobs[claim[w].job].age <= Safe + RequestTimeout + grace[w]
        BY <2>1, <3>1 DEF OwnOK, Recent
      <3> QED
        BY <3>1, <3>2, <3>3, ConstantsOK
    <2> QED
      BY <2>1 DEF HandlerStopsBeforeLease
  <1> QED
    BY <1>1, WorkerInvariant, PTL

-----------------------------------------------------------------------------
\* complete_breeding_job is only ever executed for a job whose lease has stored
\* both results, also when the request for it is late.
LEMMA CompleteIsAtLastStage ==
  ASSUME JobInv, NEW j \in JobIds, NEW w, NEW t, Complete(j, w, t),
         jobs[j].lease = t => jobs[j].status = "ai_enriching"
  PROVE  CompletionIsWhole
  <1>1. /\ jobs[j].status = "ai_enriching" /\ plans' = plans
        /\ \A k \in JobIds \ {j} : jobs'[k] = jobs[k]
    BY DEF Complete, Owns, JobInv, TypeOK
  <1>2. \A r \in Results : plans[j][r] = jobs[j].lease
    BY <1>1 DEF JobInv, StageTellsResults, Results
  <1> QED
    BY <1>1, <1>2 DEF CompletionIsWhole

\* No other step completes a job.
LEMMA NothingElseCompletes ==
  ASSUME \A j \in JobIds : jobs'[j].status = "completed" => jobs[j].status = "completed"
  PROVE  CompletionIsWhole
  BY DEF CompletionIsWhole

LEMMA ExecuteCompletes ==
  ASSUME JobInv, NEW op, NEW j \in JobIds, NEW w, NEW t, Execute(op, j, w, t),
         op = "complete" /\ jobs[j].lease = t => jobs[j].status = "ai_enriching"
  PROVE  CompletionIsWhole
  <1>1. CASE op = "complete" /\ Complete(j, w, t)
    BY <1>1, CompleteIsAtLastStage
  <1>2. CASE \/ Heartbeat(j, w, t) \/ PersistAlgorithm(j, w, t) \/ PersistAi(j, w, t)
             \/ Fail(j, w, t, TRUE) \/ Fail(j, w, t, FALSE) \/ Release(j, w, t)
    <2>1. jobs \in [JobIds -> Rows]
      BY DEF JobInv, TypeOK
    <2>2. \A k \in JobIds : jobs'[k].status = "completed" => jobs[k].status = "completed"
      BY <1>2, <2>1
         DEF Heartbeat, PersistAlgorithm, PersistAi, Fail, Release, Staged, Unlocked,
             AfterAttempt, Released, Rows
    <2> QED
      BY <2>2, NothingElseCompletes
  <1> QED
    BY <1>1, <1>2 DEF Execute

LEMMA CompletionStep ==
  ASSUME WorkerInv, [WorkerNext]_vars
  PROVE  CompletionIsWhole
  <1>0. JobInv /\ ClaimsInv /\ LeaseInv /\ jobs \in [JobIds -> Rows]
    BY DEF WorkerInv, JobInv, TypeOK
  <1>1. CASE UNCHANGED jobs
    BY <1>1, NothingElseCompletes
  <1>2. ASSUME NEW w \in Workers, ExecuteClaim(w) PROVE CompletionIsWhole
    BY <1>0, <1>2, NothingElseCompletes DEF ExecuteClaim, Claim, ClaimedRow
  <1>3. ASSUME NEW w \in Workers, Execute(doing[w], claim[w].job, w, claim[w].lease),
               doing[w] \in Leased, call[w].at = "sent"
        PROVE  CompletionIsWhole
    <2>1. OwnOK(w) /\ LocalOK(w) /\ claim[w].lease # NoLease /\ claim[w].job \in JobIds
      BY <1>0, <1>3, WorkerTypes, WorkerState DEF LocalOK
    <2>2. doing[w] = "complete" /\ jobs[claim[w].job].lease = claim[w].lease
            => jobs[claim[w].job].status = "ai_enriching"
      BY <1>3, <2>1 DEF OwnOK, Own, AtStage
    <2> QED
      BY <1>0, <1>3, <2>1, <2>2, ExecuteCompletes
  <1>4. ASSUME NEW w \in Workers, ExecuteCall(w) PROVE CompletionIsWhole
    BY <1>1, <1>3, <1>4 DEF ExecuteCall, jobVars, Calling, Leased, Executing, Reporting
  <1>5. ASSUME NEW w \in Workers, ExecuteBeat(w) PROVE CompletionIsWhole
    <2>1. CASE UNCHANGED jobVars
      BY <1>1, <2>1 DEF jobVars
    <2>2. CASE Heartbeat(claim[w].job, w, claim[w].lease)
      BY <1>0, <2>2, NothingElseCompletes DEF Heartbeat, Rows
    <2> QED
      BY <1>5, <2>1, <2>2 DEF ExecuteBeat
  <1>6. ASSUME NEW S \in SUBSET JobIds, EndAttempts(S) PROVE CompletionIsWhole
    BY <1>0, <1>6, EndAttemptsFrame, NothingElseCompletes
  <1>7. ASSUME NEW w \in Workers, Reap(w) PROVE CompletionIsWhole
    <2>1. PICK cutoff \in (Lease - Skew)..Lease : ReleaseStale(cutoff)
      BY <1>7 DEF Reap
    <2> QED
      BY <1>6, <2>1 DEF ReleaseStale, Stale
  <1>8. ASSUME NEW r \in strays, ExecuteStray(r) PROVE CompletionIsWhole
    <2>1. CASE \E j \in JobIds : Claim(j, r.worker)
      BY <1>0, <2>1, NothingElseCompletes DEF Claim, ClaimedRow
    <2>2. CASE r.op # "claim" /\ Execute(r.op, r.job, r.worker, r.lease)
      <3>1. r.job \in JobIds /\ StrayOK(r)
        BY <1>0, <2>2 DEF LeaseInv, ClaimsInv, RequestOK
      <3>2. r.op = "complete" /\ jobs[r.job].lease = r.lease => jobs[r.job].status = "ai_enriching"
        BY <3>1 DEF StrayOK
      <3> QED
        BY <1>0, <2>2, <3>1, <3>2, ExecuteCompletes
    <2> QED
      BY <1>8, <2>1, <2>2 DEF ExecuteStray
  <1>9. ASSUME NEW j \in JobIds, NEW r \in Requests, Create(j, r) PROVE CompletionIsWhole
    BY <1>0, <1>9, NothingElseCompletes DEF Create, Insert, NewRow
  <1>10. CASE Intervene
    <2>1. ASSUME NEW j \in JobIds, AdminReap(j) PROVE CompletionIsWhole
      BY <1>6, <2>1 DEF AdminReap
    <2>2. ASSUME NEW j \in JobIds, AdminRetry(j) \/ AdminCancel(j) PROVE CompletionIsWhole
      BY <1>0, <2>2, NothingElseCompletes DEF AdminRetry, AdminCancel, Unlocked, Rows
    <2>3. ASSUME NEW r \in Requests, ExpireInputs({r}) PROVE CompletionIsWhole
      BY <1>0, <2>3, NothingElseCompletes DEF ExpireInputs, Unlocked
    <2> QED
      BY <1>10, <2>1, <2>2, <2>3 DEF Intervene, AdminCall
  <1>11. CASE TimePasses
    BY <1>0, <1>11, TickFrame, NothingElseCompletes DEF TimePasses
  <1>12. ASSUME NEW w \in Workers, Proceed(w) \/ EndCall(w) \/ SendBeat(w) \/ EndBeat(w)
         PROVE  UNCHANGED jobs
    BY <1>12 DEF Proceed, EndCall, EndBeat, SendClaim, ReceiveClaim, Work, Explain,
                 Call, Quit, GraceOver, NothingToClaim, ReceivePersisted,
                 PersistUnanswered, ReceiveReported, Unanswered, SendBeat, BeatAnswered,
                 BeatUnanswered, BeatEnds, jobVars
  <1>13. ASSUME NEW h \in Hosts, SigTerm(h) \/ Start(h) \/ Crash(h) PROVE UNCHANGED jobs
    BY <1>13 DEF SigTerm, Start, Crash, jobVars
  <1>14. ASSUME NEW r \in strays, LoseStray(r) PROVE UNCHANGED jobs
    BY <1>14 DEF LoseStray, jobVars
  <1>15. CASE UNCHANGED vars
    BY <1>1, <1>15 DEF vars, jobVars
  <1> QED
    BY <1>1, <1>2, <1>4, <1>5, <1>7, <1>8, <1>9, <1>10, <1>11, <1>12, <1>13, <1>14, <1>15
       DEF WorkerNext

\* A completed job has a plan and an explanation of the attempt that completed
\* it, although complete_breeding_job checks neither.
THEOREM CompletedJobsAreWhole == WorkerSpec => CompletedIsWhole
  BY WorkerInvariant, CompletionStep, PTL DEF WorkerSpec, CompletedIsWhole


-----------------------------------------------------------------------------
(***************************************************************************)
(* As long as nobody intervenes from outside, a worker that runs a handler *)
(* or waits for its report owns the job, and none of its calls is refused. *)
(***************************************************************************)
Holding(d, c) ==
  \/ d \in Executing
  \/ d = "claim" /\ c.at = "ok"
  \/ d \in Reporting /\ c.at = "sent"

HoldOK(w) == (Holding(doing[w], call[w]) => Own(w)) /\ call[w].at # "refused"
HoldInv   == Untouched => \A w \in Workers : HoldOK(w)

\* Nobody starts to hold a job, and whoever goes on holding one keeps its lease.
LEMMA Steady ==
  ASSUME HoldInv, Untouched' => Untouched,
         \A v \in Workers :
           /\ Holding(doing'[v], call'[v]) =>
                /\ Holding(doing[v], call[v]) /\ claim'[v] = claim[v]
                /\ Own(v) => jobs'[claim[v].job].lease = claim[v].lease
           /\ call'[v].at = "refused" => call[v].at = "refused"
  PROVE  HoldInv'
  <1> SUFFICES ASSUME Untouched', NEW v \in Workers PROVE HoldOK(v)'
    BY DEF HoldInv
  <1>1. HoldOK(v)
    BY DEF HoldInv
  <1> QED
    BY <1>1 DEF HoldOK, Own

\* A row without a lease is nobody's.
LEMMA UnleasedIsFree ==
  ASSUME JobInv, ClaimsInv, LeaseInv, NEW j \in JobIds, jobs[j].status \notin Active,
         NEW v \in Workers, Own(v)
  PROVE  claim[v].job # j
  BY DEF Own, JobInv, TypeOK, Locked

\* Whoever settles holds nothing any more.
LEMMA SettlersLetGo ==
  ASSUME HoldInv, Untouched' => Untouched, UNCHANGED jobs,
         NEW W \in SUBSET Workers, NEW to \in {"off", "idle"}, Settle(W, to)
  PROVE  HoldInv'
  <1>1. \A v \in Workers :
          \/ doing'[v] = doing[v] /\ claim'[v] = claim[v] /\ call'[v] = call[v]
          \/ doing'[v] = to /\ call'[v].at = "none"
    BY DEF Settle, NoCall
  <1> QED
    BY <1>1, Steady DEF Own, Holding, Executing, Reporting

LEMMA HoldersKeep ==
  ASSUME ClaimsInv, LeaseInv, JobInv, HoldInv, NEW w \in Workers,
         Proceed(w) \/ EndCall(w) \/ SendBeat(w) \/ EndBeat(w)
  PROVE  HoldInv'
  <1>1. /\ doing \in [Workers -> Places] /\ call \in [Workers -> Calls]
        /\ claim \in [Workers -> Claims]
    BY WorkerState
  <1>2. UNCHANGED <<jobs, budget>>
    BY DEF Proceed, EndCall, EndBeat, SendClaim, ReceiveClaim, Work, Explain, Call,
           Quit, GraceOver, NothingToClaim, ReceivePersisted, PersistUnanswered,
           ReceiveReported, Unanswered, SendBeat, BeatAnswered, BeatUnanswered, BeatEnds,
           jobVars
  <1> DEFINE Keeps(v) == doing'[v] = doing[v] /\ claim'[v] = claim[v] /\ call'[v] = call[v]
             Goes(v)  == /\ Holding(doing[v], call[v]) /\ claim'[v] = claim[v]
                         /\ call'[v].at # "refused"
             Stops(v) == ~Holding(doing'[v], call'[v]) /\ call'[v].at # "refused"
  <1>3. CASE SendClaim(w) \/ NothingToClaim(w) \/ Quit(w)
    <2>1. \A v \in Workers \ {w} : Keeps(v)
      BY <1>1, <1>3 DEF SendClaim, NothingToClaim, Quit
    <2>2. Stops(w) \/ (Quit(w) /\ call'[w] = call[w] /\ doing'[w] = "off")
      BY <1>1, <1>3 DEF SendClaim, NothingToClaim, Quit, Holding, Executing, Reporting,
                        Sent, NoCall
    <2>3. \A v \in Workers : Keeps(v) \/ Stops(v) \/ (call'[v] = call[v] /\ doing'[v] = "off")
      BY <2>1, <2>2
    <2> QED
      BY <1>2, <2>3, Steady DEF Untouched, Own, Holding, Executing, Reporting
  <1>4. CASE ReceiveClaim(w) \/ Work(w) \/ Explain(w) \/ PersistUnanswered(w)
             \/ ReceivePersisted(w) \/ GraceOver(w)
    <2>1. \A v \in Workers \ {w} : Keeps(v)
      BY <1>1, <1>4 DEF ReceiveClaim, Work, Explain, Call, PersistUnanswered,
                        ReceivePersisted, GraceOver
    <2>2. Goes(w)
      BY <1>1, <1>4 DEF ReceiveClaim, Work, Explain, Call, PersistUnanswered,
             ReceivePersisted, GraceOver, GraceIsOver, Holding, Executing, Sent, NoCall
    <2>3. \A v \in Workers : Keeps(v) \/ Goes(v)
      BY <2>1, <2>2
    <2> QED
      BY <1>2, <2>3, Steady DEF Untouched, Own
  <1>5. CASE \/ SendBeat(w) \/ BeatAnswered(w) \/ BeatUnanswered(w)
             \/ BeatEnds(w) /\ UNCHANGED <<doing, claim, call>>
    <2>1. \A v \in Workers : Keeps(v)
      BY <1>5 DEF SendBeat, BeatAnswered, BeatUnanswered
    <2> QED
      BY <1>2, <2>1, Steady DEF Untouched, Own
  <1>6. ASSUME NEW W \in SUBSET Workers, NEW to \in {"off", "idle"}, Settle(W, to)
        PROVE  HoldInv'
    BY <1>2, <1>6, SettlersLetGo DEF Untouched
  <1>7. CASE ReceiveReported(w) \/ Unanswered(w)
    <2>1. Settle({w}, "idle") \/ Settle(WorkersOf(HostOf[w]), "off")
      BY <1>7 DEF ReceiveReported, Unanswered, HostDies
    <2> QED
      BY <1>6, <2>1 DEF WorkersOf
  <1>8. CASE BeatEnds(w)
    <2>1. Settle({w}, "idle") \/ UNCHANGED <<doing, claim, call>>
      BY <1>8 DEF BeatEnds
    <2> QED
      BY <1>5, <1>6, <1>8, <2>1
  <1> QED
    BY <1>3, <1>4, <1>5, <1>7, <1>8 DEF Proceed, EndCall, EndBeat

\* Rows change, and with them at most what one worker knows of its own call.
LEMMA RowsSteady ==
  ASSUME HoldInv, UNCHANGED <<doing, claim, call>>, budget'.admin = budget.admin,
         \A v \in Workers :
           Untouched /\ Holding(doing[v], call[v]) /\ Own(v) =>
             jobs'[claim[v].job].lease = claim[v].lease
  PROVE  HoldInv'
  <1> SUFFICES ASSUME Untouched', NEW v \in Workers PROVE HoldOK(v)'
    BY DEF HoldInv
  <1>1. Untouched /\ HoldOK(v)
    BY DEF HoldInv, Untouched
  <1> QED
    BY <1>1 DEF HoldOK, Own

LEMMA ClaimHolds ==
  ASSUME JobInv, ClaimsInv, LeaseInv, HoldInv, NEW w \in Workers, ExecuteClaim(w)
  PROVE  HoldInv'
  <1>1. PICK j \in JobIds : /\ Claim(j, w)
                            /\ claim' = [claim EXCEPT ![w] = [job |-> j, lease |-> lastLease']]
    BY DEF ExecuteClaim
  <1>2. /\ lastLease \in Nat /\ jobs[j].status \notin Active
        /\ jobs' = [jobs EXCEPT ![j] = ClaimedRow(jobs[j], w, lastLease + 1)]
        /\ jobs \in [JobIds -> Rows] /\ lastLease' = lastLease + 1
    BY <1>1 DEF Claim, Claimable, Queued, Active, JobInv, TypeOK
  <1>3. UNCHANGED <<doing, budget>> /\ call' = [call EXCEPT ![w].at = "ok"]
        /\ call \in [Workers -> Calls] /\ claim \in [Workers -> Claims]
    BY WorkerState DEF ExecuteClaim
  <1> SUFFICES ASSUME Untouched', NEW v \in Workers PROVE HoldOK(v)'
    BY DEF HoldInv
  <1>4. HoldOK(v)
    BY <1>3 DEF HoldInv, Untouched
  <1>5. CASE v = w
    <2>1. claim'[v].lease = lastLease + 1 /\ claim'[v].job = j /\ call'[v].at = "ok"
      BY <1>1, <1>2, <1>3, <1>5
    <2>2. jobs'[j].lease = lastLease + 1
      BY <1>2 DEF ClaimedRow
    <2> QED
      BY <1>2, <2>1, <2>2 DEF HoldOK, Own, NoLease
  <1>6. CASE v # w
    <2>1. claim'[v] = claim[v] /\ call'[v] = call[v]
      BY <1>1, <1>3, <1>6
    <2>2. Own(v) => claim[v].job # j /\ claim[v].job \in JobIds
      BY <1>2, UnleasedIsFree, WorkerTypes DEF Own
    <2> QED
      BY <1>2, <1>3, <1>4, <2>1, <2>2 DEF HoldOK, Own
  <1> QED
    BY <1>5, <1>6

\* Nothing a worker that owns its job asks of the database is refused.
LEMMA OwnersAreAccepted ==
  ASSUME JobInv, ClaimsInv, LeaseInv, NEW w \in Workers, Own(w),
         doing[w] \in Calling \ {"claim"}, call[w].at = "sent"
  PROVE  Accepted(doing[w], claim[w].job, w, claim[w].lease)
  <1> DEFINE j == claim[w].job
  <1>1. j \in JobIds /\ OwnOK(w) /\ jobs[j].lease = claim[w].lease /\ jobs[j].lease # NoLease
    BY WorkerState, WorkerTypes DEF Own
  <1>2. Owns(j, w, claim[w].lease)
    BY <1>1 DEF Owns, OwnOK, JobInv, TypeOK, Locked
  <1>3. doing[w] = "algorithm" => jobs[j].status = "processing"
    BY <1>1 DEF OwnOK, AtStage
  <1>4. doing[w] = "ai" => jobs[j].status = "algorithm_completed"
    BY <1>1 DEF OwnOK, AtStage
  <1>5. jobs[j].status = "algorithm_completed" => plans[j]["algorithm"] # NoLease
    BY <1>1 DEF JobInv, StageTellsResults
  <1> QED
    BY <1>2, <1>3, <1>4, <1>5 DEF Accepted

LEMMA CallHolds ==
  ASSUME JobInv, ClaimsInv, LeaseInv, HoldInv, NEW w \in Workers, ExecuteCall(w)
  PROVE  HoldInv'
  <1> SUFFICES ASSUME Untouched', NEW v \in Workers PROVE HoldOK(v)'
    BY DEF HoldInv
  <1>0. PICK op, j, t : op = doing[w] /\ j = claim[w].job /\ t = claim[w].lease
    OBVIOUS
  <1>1. /\ op \in {"algorithm", "ai"} \cup Reporting /\ op \in Calling \ {"claim"}
        /\ call[w].at = "sent" /\ UNCHANGED <<doing, claim, budget>>
        /\ \A u \in Workers \ {w} : call'[u] = call[u]
    BY <1>0, WorkerState DEF ExecuteCall, Calling
  <1>2. Untouched /\ HoldOK(v) /\ HoldOK(w)
    BY <1>1 DEF HoldInv, Untouched
  <1>3. Own(w) /\ j \in JobIds /\ jobs[j].lease = t
    BY <1>0, <1>1, <1>2, WorkerTypes DEF HoldOK, Holding, Executing, Own
  <1>4. Accepted(op, j, w, t)
    BY <1>0, <1>1, <1>3, OwnersAreAccepted
  <1>5. \/ Execute(op, j, w, t) /\ call'[w].at = "ok"
        \/ op = "algorithm" /\ UNCHANGED jobVars /\ call'[w].at = "misfit"
    <2>1. ~EndedAlready(op, j)
      BY <1>4 DEF EndedAlready, Accepted, Owns, Active
    <2> QED
      BY <1>0, <1>4, <2>1, WorkerState DEF ExecuteCall, Calls, MayMisfit
  <1>6. CASE op = "algorithm" /\ UNCHANGED jobVars /\ call'[w].at = "misfit"
    BY <1>0, <1>1, <1>2, <1>6 DEF HoldOK, Holding, Own, Executing, Reporting, jobVars
  <1>9. Execute(op, j, w, t) => Executed(op, j, w, t)
    BY <1>3, ExecuteRows
  <1>7. CASE v = w /\ Execute(op, j, w, t) /\ call'[w].at = "ok"
    <2>1. op \in {"algorithm", "ai"} => jobs'[j].lease = jobs[j].lease
      BY <1>7, <1>9 DEF Executed, SameLease
    <2> QED
      BY <1>0, <1>1, <1>3, <1>7, <2>1
         DEF HoldOK, Holding, Own, Executing, Reporting
  <1>8. CASE v # w /\ Execute(op, j, w, t)
    <2>1. Own(v) => claim[v].job \in JobIds /\ claim[v].job # j
      BY <1>0, <1>3, <1>8, WorkerTypes DEF Own, LeaseInv, Apart
    <2> QED
      BY <1>1, <1>2, <1>8, <1>9, <2>1 DEF HoldOK, Own, Executed
  <1> QED
    BY <1>5, <1>6, <1>7, <1>8

LEMMA BeatHolds ==
  ASSUME JobInv, ClaimsInv, LeaseInv, HoldInv, NEW w \in Workers, ExecuteBeat(w)
  PROVE  HoldInv'
  <1>1. UNCHANGED <<doing, claim, call>> /\ budget' = budget
    BY DEF ExecuteBeat
  <1>2. CASE UNCHANGED jobVars
    BY <1>1, <1>2, RowsSteady DEF Own, jobVars
  <1>3. CASE Heartbeat(claim[w].job, w, claim[w].lease)
    <2>1. jobs \in [JobIds -> Rows] /\ \A k \in JobIds : jobs'[k].lease = jobs[k].lease
      BY <1>3 DEF Heartbeat, JobInv, TypeOK, Rows
    <2>2. \A v \in Workers : Own(v) => claim[v].job \in JobIds
      BY WorkerTypes DEF Own
    <2> QED
      BY <1>1, <2>1, <2>2, RowsSteady DEF Own
  <1> QED
    BY <1>2, <1>3 DEF ExecuteBeat

\* A request left behind ends no lease that its worker still holds.
LEMMA StrayHolds ==
  ASSUME JobInv, ClaimsInv, LeaseInv, HoldInv, NEW r \in strays, ExecuteStray(r)
  PROVE  HoldInv'
  <1>1. /\ UNCHANGED <<doing, claim, call>> /\ budget' = budget
        /\ StrayOK(r) /\ RequestOK(r) /\ jobs \in [JobIds -> Rows]
    BY DEF ExecuteStray, workerVars, LeaseInv, ClaimsInv, JobInv, TypeOK
  <1>2. ASSUME r.op = "claim", NEW j \in JobIds, Claim(j, r.worker) PROVE HoldInv'
    <2>1. jobs[j].status \notin Active /\ \A k \in JobIds \ {j} : jobs'[k] = jobs[k]
      BY <1>1, <1>2 DEF Claim, Claimable, Queued, Active
    <2>2. \A v \in Workers : Own(v) => claim[v].job \in JobIds \ {j}
      BY <2>1, UnleasedIsFree, WorkerTypes DEF Own
    <2> QED
      BY <1>1, <2>1, <2>2, RowsSteady DEF Own
  <1>3. ASSUME r.op # "claim", Execute(r.op, r.job, r.worker, r.lease) PROVE HoldInv'
    <2>1. r.job \in JobIds /\ r.lease # NoLease
      BY <1>1, <1>3 DEF RequestOK, StrayOK
    <2>2. Executed(r.op, r.job, r.worker, r.lease)
      BY <1>3, <2>1, ExecuteRows
    <2>3. ASSUME NEW v \in Workers, Holding(doing[v], call[v]), Own(v)
          PROVE  jobs'[claim[v].job].lease = claim[v].lease
      <3>1. claim[v].job \in JobIds
        BY <2>3, WorkerTypes DEF Own
      <3>2. CASE claim[v].job # r.job
        BY <2>2, <2>3, <3>1, <3>2 DEF Executed, Own
      <3>3. CASE claim[v].job = r.job
        <4>1. r.op \in Behind(doing[v])
          BY <1>1, <2>1, <2>2, <2>3, <3>3 DEF Executed, Own, StrayOK
        <4> QED
          BY <2>2, <2>3, <3>3, <4>1 DEF Behind, Executed, SameLease, Own
      <3> QED
        BY <3>2, <3>3
    <2> QED
      BY <1>1, <2>3, RowsSteady
  <1> QED
    BY <1>2, <1>3 DEF ExecuteStray

\* A reaper never finds the lease of a worker that holds its job stale.
LEMMA ReapHolds ==
  ASSUME 2 * RequestTimeout + Slack + Skew <= Margin,
         JobInv, ClaimsInv, LeaseInv, HoldInv, NEW w \in Workers, Reap(w)
  PROVE  HoldInv'
  <1>1. PICK cutoff \in (Lease - Skew)..Lease : ReleaseStale(cutoff)
    BY DEF Reap
  <1>2. /\ EndAttempts(Stale(cutoff)) /\ UNCHANGED <<doing, claim, call>> /\ budget' = budget
    BY <1>1 DEF ReleaseStale, Reap, workerVars
  <1>3. ASSUME NEW v \in Workers, Holding(doing[v], call[v]), Own(v)
        PROVE  jobs'[claim[v].job].lease = claim[v].lease
    <2>1. PICK age : age = jobs[claim[v].job].age
      OBVIOUS
    <2>2. /\ age \in Nat /\ claim[v].job \in JobIds /\ OwnOK(v) /\ call[v].age \in Nat
          /\ call[v].age <= RequestTimeout /\ grace[v] \in Nat /\ grace[v] <= Slack
      BY <1>3, <2>1, WorkerState, WorkerTypes, ConstantsOK DEF Own, Calls, LocalOK
    <2>3. Recent(doing[v], call[v], beat[v], sinceOk[v], grace[v], age)
      BY <1>3, <2>1, <2>2 DEF OwnOK
    <2>4. age <= Safe + 2 * RequestTimeout + Slack
      BY <1>3, <2>2, <2>3, ConstantsOK DEF Recent, Holding
    <2>5. ~(age > cutoff)
      BY <1>1, <2>2, <2>4, ConstantsOK
    <2>6. claim[v].job \notin Stale(cutoff)
      BY <2>1, <2>5 DEF Stale
    <2> QED
      BY <1>2, <1>3, <2>2, <2>6 DEF EndAttempts, Own
  <1> QED
    BY <1>2, <1>3, RowsSteady

LEMMA OthersHold ==
  ASSUME JobInv, ClaimsInv, LeaseInv, HoldInv,
         \/ \E j \in JobIds, r \in Requests : Create(j, r)
         \/ Intervene \/ TimePasses
         \/ \E h \in Hosts : SigTerm(h) \/ Start(h) \/ Crash(h)
         \/ \E r \in strays : LoseStray(r)
  PROVE  HoldInv'
  <1>0. /\ \A v \in Workers : Own(v) => claim[v].job \in JobIds
        /\ jobs \in [JobIds -> Rows]
    BY WorkerTypes DEF Own, JobInv, TypeOK
  <1>1. ASSUME NEW j \in JobIds, NEW r \in Requests, Create(j, r) PROVE HoldInv'
    <2>1. /\ jobs[j].status \notin Active /\ \A k \in JobIds \ {j} : jobs'[k] = jobs[k]
          /\ UNCHANGED <<doing, claim, call>> /\ budget' = budget
      BY <1>0, <1>1 DEF Create, Insert, Active, workerVars
    <2>2. \A v \in Workers : Own(v) => claim[v].job # j
      BY <2>1, UnleasedIsFree
    <2> QED
      BY <1>0, <2>1, <2>2, RowsSteady DEF Own
  <1>2. CASE Intervene
    <2>1. ~Untouched'
      BY <1>2, BoundsAssumption DEF Intervene, Untouched, LeaseInv, BudgetOK
    <2> QED
      BY <2>1 DEF HoldInv
  <1>3. CASE TimePasses
    <2>1. \A j \in JobIds : jobs'[j].lease = jobs[j].lease
      BY <1>0, <1>3 DEF TimePasses, Tick, Rows
    <2>2. /\ UNCHANGED <<doing, claim>> /\ budget' = budget
          /\ \A v \in Workers : call'[v].at = call[v].at
      BY <1>3, WorkerState DEF TimePasses, NoCall, Calls
    <2> QED
      BY <1>0, <2>1, <2>2, Steady DEF Own, Untouched, Holding
  <1>4. ASSUME NEW h \in Hosts, SigTerm(h) PROVE HoldInv'
    BY <1>4, Steady DEF SigTerm, LeaseInv, BudgetOK, Own, Untouched, jobVars, workerVars
  <1>5. ASSUME NEW h \in Hosts, Start(h) PROVE HoldInv'
    <2>1. /\ UNCHANGED <<jobs, claim, call>> /\ budget' = budget
          /\ \A v \in Workers : doing'[v] = doing[v] \/ doing'[v] = "idle"
      BY <1>5, WorkerState DEF Start, jobVars
    <2> QED
      BY <2>1, Steady DEF Own, Untouched, Holding, Executing, Reporting
  <1>6. ASSUME NEW h \in Hosts, Crash(h) PROVE HoldInv'
    <2>1. Untouched' => Untouched
      BY <1>6 DEF Crash, Untouched, LeaseInv, BudgetOK
    <2> QED
      BY <1>6, <2>1, SettlersLetGo DEF Crash, HostDies, WorkersOf, jobVars
  <1>7. ASSUME NEW r \in strays, LoseStray(r) PROVE HoldInv'
    BY <1>7, Steady DEF LoseStray, Own, Untouched, jobVars, workerVars
  <1> QED
    BY <1>1, <1>2, <1>3, <1>4, <1>5, <1>6, <1>7

\* Two leases are never in one row, so two handlers are never on one job.
LEMMA HoldersDoNotCollide ==
  ASSUME WorkerInv, HoldInv
  PROVE  NoCollision
  <1>1. NeverFenced
    BY DEF HoldInv, HoldOK, NeverFenced
  <1>2. ASSUME Untouched, NEW v \in Workers, NEW w \in Workers, v # w,
               doing[v] \in Executing, doing[w] \in Executing
        PROVE  claim[v].job # claim[w].job
    <2>1. Own(v) /\ Own(w)
      BY <1>2 DEF HoldInv, HoldOK, Holding
    <2> QED
      BY <1>2, <2>1 DEF Own, WorkerInv, LeaseInv, Apart
  <1> QED
    BY <1>1, <1>2 DEF NoCollision, OneHandlerPerJob

\* With a safety margin of two requests, the grace and the skew of the clocks, no
\* two workers calculate one job and no report is refused, whatever calls are
\* lost or late and whoever dies: only an intervention from outside does that.
THEOREM HandlersDoNotCollide ==
  ASSUME 2 * RequestTimeout + Slack + Skew <= Margin
  PROVE  WorkerSpec => []NoCollision
  <1>1. WorkerInit => HoldInv
    BY DEF WorkerInit, HoldInv, HoldOK, Holding, Executing, Reporting, NoCall
  <1>2. WorkerInv /\ HoldInv /\ [WorkerNext]_vars => HoldInv'
    <2> SUFFICES ASSUME WorkerInv, HoldInv, [WorkerNext]_vars PROVE HoldInv'
      OBVIOUS
    <2>0. JobInv /\ ClaimsInv /\ LeaseInv
      BY DEF WorkerInv
    <2>1. CASE UNCHANGED vars
      BY <2>1, Steady DEF vars, jobVars, workerVars, Untouched, Own
    <2>2. ASSUME NEW w \in Workers,
                 \/ Proceed(w) \/ EndCall(w) \/ SendBeat(w) \/ EndBeat(w)
                 \/ ExecuteClaim(w) \/ ExecuteCall(w) \/ ExecuteBeat(w) \/ Reap(w)
          PROVE  HoldInv'
      BY <2>0, <2>2, HoldersKeep, ClaimHolds, CallHolds, BeatHolds, ReapHolds
    <2>3. ASSUME NEW r \in strays, ExecuteStray(r) PROVE HoldInv'
      BY <2>0, <2>3, StrayHolds
    <2> QED
      BY <2>0, <2>1, <2>2, <2>3, OthersHold DEF WorkerNext
  <1>3. WorkerInv /\ HoldInv => NoCollision
    BY HoldersDoNotCollide
  <1> QED
    BY <1>1, <1>2, <1>3, WorkerInvariant, PTL DEF WorkerSpec
=============================================================================
