------------------------------ MODULE Pages_proofs ------------------------------
(***************************************************************************)
(* The pages of the web application that breed pals, for any number of     *)
(* tabs, pals, requests and plans.                                         *)
(*                                                                         *)
(* The form: whatever the tabs submit at the same time, a request has one  *)
(* live job, the page that is opened is that of a job for the request that *)
(* was submitted, and the checks of the server refuse what the form lets   *)
(* through only if the world has changed since.  The page of the job:      *)
(* whatever order its answers arrive in, a result that is shown as the end *)
(* is the one that is kept, the routes shown as saved are the saved ones,  *)
(* and the pages of plans list each plan that stays once.                  *)
(*                                                                         *)
(* The tree of a route: whatever its steps, the arrows lead on, the cards  *)
(* do not overlap and show the pals that the route names.                  *)
(*                                                                         *)
(* The list of pals: whatever is published and whoever presses its         *)
(* switches, its pages show all of the user's own pals of one snapshot,    *)
(* and its address stays a query as the server reads it.                   *)
(***************************************************************************)
EXTENDS MCPages, FiniteSetTheorems, SequenceTheorems, TLAPS

-----------------------------------------------------------------------------
(* The form. *)

Worlds == [snapshot : Nat, version : DOMAIN Catalogs]
Generations == Typed \cup {5}
Requests == [target : Targets \cup {None}, passives : SUBSET Passives,
             generations : Generations, options : Options]
Forms == [target : Targets \cup {None}, passives : SUBSET Passives,
          generations : Generations, options : Options, shown : Worlds]
Jobs == [request : Requests \cup {None}, pinned : Worlds \cup {None}, live : BOOLEAN]
Errors == {None, "max_four", "invalid", "refused", "settings", "conflict", "unavailable"}
Calls == [pc : Submitting \cup {"none"}, request : Requests \cup {None},
          pinned : Worlds \cup {None}, job : Nat, error : Errors]

Typing ==
  /\ world \in Worlds
  /\ jobs \in Seq(Jobs)
  /\ form \in [Tabs -> Forms]
  /\ call \in [Tabs -> Calls]

\* The job that a submission has found or made is one for its request.
Answered(c, js) == c.job # 0 => c.job \in DOMAIN js /\ js[c.job].request = c.request

Inv ==
  /\ Typing
  /\ \A t \in Tabs : Answered(call[t], jobs)
  /\ OneLiveJob

\* A step that leaves the jobs alone keeps the invariant if the calls that it
\* changes are answered still.
LEMMA OfCalls ==
  ASSUME Inv, UNCHANGED jobs, Typing', \A t \in Tabs : Answered(call'[t], jobs)
  PROVE  Inv'
BY DEF Inv, OneLiveJob, Answered

-----------------------------------------------------------------------------
LEMMA FreshIsTyped ==
  ASSUME NEW w \in Worlds
  PROVE  Fresh(w) \in Forms
  <1>1. (CHOOSE o \in Options : TRUE) \in Options
    BY OptionsAssumption
  <1> QED
    BY <1>1 DEF Fresh, Forms, Generations

LEMMA NoCallIsTyped == NoCall \in Calls
BY DEF NoCall, Calls, Errors

\* A call is replaced by one that is answered among js.
LEMMA CallChanges ==
  ASSUME Inv, NEW t \in Tabs, NEW c \in Calls, NEW js, Answered(c, js),
         \A u \in Tabs : Answered(call[u], js), call' = [call EXCEPT ![t] = c]
  PROVE  /\ call' \in [Tabs -> Calls]
         /\ \A u \in Tabs : Answered(call'[u], js)
BY DEF Inv, Typing

\* The form's own errors.
LEMMA ErrorIsAnswered ==
  ASSUME Inv, NEW t \in Tabs, NEW e \in Errors, call' = [call EXCEPT ![t].error = e]
  PROVE  /\ call' \in [Tabs -> Calls]
         /\ \A u \in Tabs : Answered(call'[u], jobs)
  <1> DEFINE c == [call[t] EXCEPT !.error = e]
  <1>1. call[t] \in Calls /\ Answered(call[t], jobs)
    BY DEF Inv, Typing
  <1>2. c \in Calls /\ c.job = call[t].job /\ c.request = call[t].request
    BY <1>1 DEF Calls
  <1>3. Answered(c, jobs)
    BY <1>1, <1>2 DEF Answered
  <1>4. call' = [call EXCEPT ![t] = c]
    BY DEF Inv, Typing
  <1> QED
    BY <1>2, <1>3, <1>4, CallChanges DEF Inv

LEMMA InvHoldsAtFirst ==
  ASSUME Init
  PROVE  Inv
  <1>1. world \in Worlds
    BY FirstCatalogAssumption DEF Init, Worlds
  <1>2. form \in [Tabs -> Forms]
    BY <1>1, FreshIsTyped DEF Init
  <1>3. call \in [Tabs -> Calls] /\ \A t \in Tabs : Answered(call[t], jobs)
    BY NoCallIsTyped DEF Init, Answered, NoCall
  <1>4. jobs \in Seq(Jobs) /\ DOMAIN jobs = {}
    BY DEF Init
  <1> QED
    BY <1>1, <1>2, <1>3, <1>4 DEF Inv, Typing, OneLiveJob

-----------------------------------------------------------------------------
LEMMA EditKeepsInv ==
  ASSUME NEW t \in Tabs, Inv, Edit(t)
  PROVE  Inv'
  <1> USE DEF Inv, Typing
  <1>1. CASE ChooseTarget(t)
    <2>1. PICK p \in Catalogs[form[t].shown.version] \cap Targets :
            form' = [form EXCEPT ![t].target = p]
      BY <1>1 DEF ChooseTarget
    <2>2. p \in Targets
      BY <2>1
    <2>3. form' \in [Tabs -> Forms]
      BY <2>1, <2>2 DEF Forms
    <2>4. /\ call' \in [Tabs -> Calls]
          /\ \A u \in Tabs : Answered(call'[u], jobs)
      BY <1>1, ErrorIsAnswered DEF ChooseTarget, Errors
    <2> QED
      BY <2>3, <2>4, OfCalls DEF Edit
  <1>2. CASE TogglePassive(t)
    <2>1. PICK p \in Catalogs[form[t].shown.version] \cap Passives :
            /\ \/ form' = form
               \/ form' = [form EXCEPT ![t].passives =
                              IF p \in form[t].passives THEN @ \ {p} ELSE @ \cup {p}]
            /\ \/ call' = [call EXCEPT ![t].error = None]
               \/ call' = [call EXCEPT ![t].error = "max_four"]
      BY <1>2 DEF TogglePassive
    <2>2. form' \in [Tabs -> Forms]
      <3>1. PICK ps \in SUBSET Passives : form' = form \/ form' = [form EXCEPT ![t].passives = ps]
        <4>1. /\ form[t].passives \ {p} \in SUBSET Passives
              /\ form[t].passives \cup {p} \in SUBSET Passives
          BY DEF Forms
        <4> QED
          BY <2>1, <4>1
      <3>2. [form[t] EXCEPT !.passives = ps] \in Forms
        BY DEF Forms
      <3> QED
        BY <3>1, <3>2
    <2>3. /\ call' \in [Tabs -> Calls]
          /\ \A u \in Tabs : Answered(call'[u], jobs)
      BY <2>1, ErrorIsAnswered DEF Errors
    <2> QED
      BY <2>2, <2>3, OfCalls DEF Edit
  <1>3. CASE Configure(t)
    <2>1. form' \in [Tabs -> Forms]
      <3>1. PICK g \in Typed, o \in Options :
              form' = [form EXCEPT ![t].generations = g, ![t].options = o]
        BY <1>3 DEF Configure
      <3>2. [form[t] EXCEPT !.generations = g, !.options = o] \in Forms
        BY DEF Forms, Generations
      <3> QED
        BY <3>1, <3>2
    <2> QED
      BY <1>3, <2>1, OfCalls DEF Edit, Configure
  <1>4. CASE Reload(t)
    <2>1. form' \in [Tabs -> Forms]
      BY <1>4, FreshIsTyped DEF Reload
    <2>2. /\ call' \in [Tabs -> Calls]
          /\ \A u \in Tabs : Answered(call'[u], jobs)
      BY <1>4, NoCallIsTyped DEF Reload, Answered, NoCall
    <2> QED
      BY <2>1, <2>2, OfCalls DEF Edit
  <1> QED
    BY <1>1, <1>2, <1>3, <1>4 DEF Edit

LEMMA RequestIsTyped ==
  ASSUME NEW t \in Tabs, Inv
  PROVE  Request(t) \in Requests
BY DEF Inv, Typing, Request, Requests, Forms

LEMMA SubmitKeepsInv ==
  ASSUME NEW t \in Tabs, Inv, Submit(t)
  PROVE  Inv'
  <1> USE DEF Inv, Typing
  <1>1. CASE Buildable(Request(t))
    <2> DEFINE asked == [NoCall EXCEPT !.pc = "lookup", !.request = Request(t)]
    <2>1. asked \in Calls /\ asked.job = 0
      BY RequestIsTyped, NoCallIsTyped DEF Calls, NoCall, Submitting
    <2>2. call' = [call EXCEPT ![t] = asked]
      BY <1>1 DEF Submit
    <2>3. /\ call' \in [Tabs -> Calls]
          /\ \A u \in Tabs : Answered(call'[u], jobs)
      BY <2>1, <2>2 DEF Answered
    <2> QED
      BY <2>3, OfCalls DEF Submit
  <1>2. CASE ~Buildable(Request(t))
    <2>1. /\ call' \in [Tabs -> Calls]
          /\ \A u \in Tabs : Answered(call'[u], jobs)
      BY <1>2, ErrorIsAnswered DEF Submit, Errors
    <2> QED
      BY <2>1, OfCalls DEF Submit
  <1> QED
    BY <1>1, <1>2

-----------------------------------------------------------------------------
\* The two ways in which the server moves a submission on.
LEMMA EndIsAnswered ==
  ASSUME NEW t \in Tabs, Inv, NEW j \in {0, call[t].job}, NEW error \in Errors, End(t, j, error)
  PROVE  /\ call' \in [Tabs -> Calls]
         /\ \A u \in Tabs : Answered(call'[u], jobs)
  <1> DEFINE c == [call[t] EXCEPT !.pc = "none", !.job = j, !.error = error]
  <1>1. call[t] \in Calls /\ Answered(call[t], jobs)
    BY DEF Inv, Typing
  <1>2. c \in Calls /\ c.job = j /\ c.request = call[t].request
    <2>1. j \in Nat /\ "none" \in Submitting \cup {"none"}
      BY <1>1 DEF Calls
    <2> QED
      BY <1>1, <2>1 DEF Calls
  <1>3. Answered(c, jobs)
    BY <1>1, <1>2 DEF Answered
  <1>4. call' = [call EXCEPT ![t] = c]
    BY DEF Inv, Typing, End
  <1> QED
    BY <1>2, <1>3, <1>4, CallChanges DEF Inv

LEMMA GotoIsAnswered ==
  ASSUME NEW t \in Tabs, Inv, NEW pc \in Submitting, NEW js \in Seq(Jobs),
         \A u \in Tabs : Answered(call[u], js),
         NEW j \in Nat, j # 0 => j \in DOMAIN js /\ js[j].request = call[t].request,
         Goto(t, pc, j)
  PROVE  /\ call' \in [Tabs -> Calls]
         /\ \A u \in Tabs : Answered(call'[u], js)
  <1> DEFINE c == [call[t] EXCEPT !.pc = pc, !.pinned = world, !.job = j]
  <1>1. call[t] \in Calls /\ world \in Worlds
    BY DEF Inv, Typing
  <1>2. c \in Calls /\ c.job = j /\ c.request = call[t].request
    BY <1>1 DEF Calls
  <1>3. Answered(c, js)
    BY <1>2 DEF Answered
  <1>4. call' = [call EXCEPT ![t] = c]
    BY DEF Inv, Typing, Goto
  <1> QED
    BY <1>2, <1>3, <1>4, CallChanges

LEMMA LiveJobsMatch ==
  ASSUME NEW request, NEW pinned, NEW j \in LiveJobs(request, pinned), Inv
  PROVE  j \in Nat /\ j \in DOMAIN jobs /\ jobs[j].request = request
BY DEF LiveJobs, Same, Inv, Typing

LEMMA LookupKeepsInv ==
  ASSUME NEW t \in Tabs, Inv, Lookup(t)
  PROVE  Inv'
  <1>1. ASSUME End(t, 0, "refused")
        PROVE  /\ call' \in [Tabs -> Calls] /\ \A u \in Tabs : Answered(call'[u], jobs)
    BY <1>1, EndIsAnswered DEF Errors
  <1>2. ASSUME Goto(t, "insert", 0)
        PROVE  /\ call' \in [Tabs -> Calls] /\ \A u \in Tabs : Answered(call'[u], jobs)
    BY <1>2, GotoIsAnswered DEF Inv, Typing, Submitting
  <1>3. ASSUME NEW j \in LiveJobs(call[t].request, world), Goto(t, "status", j)
        PROVE  /\ call' \in [Tabs -> Calls] /\ \A u \in Tabs : Answered(call'[u], jobs)
    BY <1>3, LiveJobsMatch, GotoIsAnswered DEF Inv, Typing, Submitting
  <1>4. /\ call' \in [Tabs -> Calls] /\ \A u \in Tabs : Answered(call'[u], jobs)
    BY <1>1, <1>2, <1>3 DEF Lookup
  <1> QED
    BY <1>4, OfCalls DEF Lookup, Inv, Typing

LEMMA InsertKeepsInv ==
  ASSUME NEW t \in Tabs, Inv, Insert(t)
  PROVE  Inv'
  <1> DEFINE new == [request |-> call[t].request, pinned |-> call[t].pinned, live |-> TRUE]
             older == LiveJobs(call[t].request, call[t].pinned)
  <1>0. CASE RefusedBySettings(call[t].request) /\ End(t, 0, "settings") /\ UNCHANGED jobs
    <2>1. /\ call' \in [Tabs -> Calls] /\ \A u \in Tabs : Answered(call'[u], jobs)
      BY <1>0, EndIsAnswered DEF Errors
    <2> QED
      BY <1>0, <2>1, OfCalls DEF Insert, Inv, Typing
  <1>1. CASE ~RefusedBySettings(call[t].request) /\ older = {}
    <2>1. jobs' = Append(jobs, new) /\ Goto(t, "status", Len(jobs'))
      BY <1>1 DEF Insert, InsertNew
    <2>2. new \in Jobs
      BY DEF Inv, Typing, Calls, Jobs
    <2>3. /\ jobs' \in Seq(Jobs)
          /\ Len(jobs') = Len(jobs) + 1
          /\ DOMAIN jobs' = DOMAIN jobs \cup {Len(jobs')}
          /\ Len(jobs') \notin DOMAIN jobs
          /\ jobs'[Len(jobs')] = new
          /\ \A j \in DOMAIN jobs : jobs'[j] = jobs[j]
      BY <2>1, <2>2 DEF Inv, Typing
    <2>4. \A u \in Tabs : Answered(call[u], jobs')
      BY <2>3 DEF Inv, Answered
    <2>5. /\ call' \in [Tabs -> Calls] /\ \A u \in Tabs : Answered(call'[u], jobs')
      <3>1. Len(jobs') \in Nat /\ Len(jobs') \in DOMAIN jobs'
            /\ jobs'[Len(jobs')].request = call[t].request
        BY <2>3 DEF Inv, Typing
      <3> QED
        BY <2>1, <2>3, <2>4, <3>1, GotoIsAnswered DEF Submitting
    <2>6. \A j \in DOMAIN jobs :
             ~(jobs[j].live /\ jobs[j].request = new.request /\ jobs[j].pinned = new.pinned)
      BY <1>1 DEF LiveJobs, Same
    <2>7. OneLiveJob'
      <3> SUFFICES ASSUME NEW j \in DOMAIN jobs', NEW k \in DOMAIN jobs', j # k,
                          jobs'[j].live, jobs'[k].live,
                          jobs'[j].request = jobs'[k].request, jobs'[j].pinned = jobs'[k].pinned
                   PROVE  FALSE
        BY DEF OneLiveJob
      <3>1. CASE j \in DOMAIN jobs /\ k \in DOMAIN jobs
        BY <3>1, <2>3 DEF Inv, OneLiveJob
      <3>2. CASE j = Len(jobs')
        BY <3>2, <2>3, <2>6
      <3>3. CASE k = Len(jobs')
        BY <3>3, <2>3, <2>6
      <3> QED
        BY <3>1, <3>2, <3>3, <2>3
    <2> QED
      BY <2>3, <2>5, <2>7 DEF Inv, Typing, Insert
  <1>2. CASE ~RefusedBySettings(call[t].request) /\ older # {}
    <2>1. /\ call' \in [Tabs -> Calls] /\ \A u \in Tabs : Answered(call'[u], jobs)
      BY <1>2, GotoIsAnswered DEF Insert, Inv, Typing, Submitting
    <2> QED
      BY <1>2, <2>1, OfCalls DEF Insert, Inv, Typing
  <1> QED
    BY <1>0, <1>1, <1>2 DEF Insert

LEMMA ReselectKeepsInv ==
  ASSUME NEW t \in Tabs, Inv, Reselect(t)
  PROVE  Inv'
  <1>1. ASSUME End(t, 0, "conflict")
        PROVE  /\ call' \in [Tabs -> Calls] /\ \A u \in Tabs : Answered(call'[u], jobs)
    BY <1>1, EndIsAnswered DEF Errors
  <1>2. ASSUME NEW j \in LiveJobs(call[t].request, call[t].pinned), Goto(t, "status", j)
        PROVE  /\ call' \in [Tabs -> Calls] /\ \A u \in Tabs : Answered(call'[u], jobs)
    BY <1>2, LiveJobsMatch, GotoIsAnswered DEF Inv, Typing, Submitting
  <1>3. /\ call' \in [Tabs -> Calls] /\ \A u \in Tabs : Answered(call'[u], jobs)
    BY <1>1, <1>2 DEF Reselect
  <1> QED
    BY <1>3, OfCalls DEF Reselect, Inv, Typing

LEMMA AnswersKeepInv ==
  ASSUME NEW t \in Tabs, Inv, Status(t) \/ Answer(t) \/ LoseAnswer(t)
  PROVE  Inv'
  <1>1. \/ call' = [call EXCEPT ![t].pc = "answer"]
        \/ \E j \in {0, call[t].job}, error \in {None, "unavailable"} : End(t, j, error)
    BY DEF Status, Answer, LoseAnswer
  <1>2. /\ call' \in [Tabs -> Calls] /\ \A u \in Tabs : Answered(call'[u], jobs)
    <2>1. CASE call' = [call EXCEPT ![t].pc = "answer"]
      BY <2>1 DEF Inv, Typing, Calls, Submitting, Answered
    <2>2. CASE \E j \in {0, call[t].job}, error \in {None, "unavailable"} : End(t, j, error)
      BY <2>2, EndIsAnswered DEF Errors
    <2> QED
      BY <1>1, <2>1, <2>2
  <1> QED
    BY <1>2, OfCalls DEF Status, Answer, LoseAnswer, Inv, Typing

LEMMA EndJobKeepsInv ==
  ASSUME Inv, EndJob
  PROVE  Inv'
  <1>1. PICK j \in DOMAIN jobs : jobs' = [jobs EXCEPT ![j].live = FALSE]
    BY DEF EndJob
  <1> DEFINE ended == [jobs[j] EXCEPT !.live = FALSE]
  <1>2. jobs[j] \in Jobs /\ j \in DOMAIN jobs
    BY <1>1 DEF Inv, Typing
  <1>3. /\ ended \in Jobs /\ ended.live = FALSE
        /\ ended.request = jobs[j].request /\ ended.pinned = jobs[j].pinned
    BY <1>2 DEF Jobs
  <1>4. jobs' = [jobs EXCEPT ![j] = ended]
    BY <1>1
  <1>5. jobs' \in Seq(Jobs) /\ DOMAIN jobs' = DOMAIN jobs
    BY <1>2, <1>3, <1>4 DEF Inv, Typing
  <1>6. \A k \in DOMAIN jobs : k # j => jobs'[k] = jobs[k]
    BY <1>4 DEF Inv, Typing
  <1>7. jobs'[j] = ended
    BY <1>2, <1>4 DEF Inv, Typing
  <1>8. \A k \in DOMAIN jobs : /\ jobs'[k].request = jobs[k].request
                              /\ jobs'[k].pinned = jobs[k].pinned
                              /\ jobs'[k].live => jobs[k].live
    BY <1>3, <1>6, <1>7
  <1> QED
    BY <1>5, <1>8 DEF Inv, Typing, EndJob, OneLiveJob, Answered

LEMMA PublishKeepsInv ==
  ASSUME Inv, Publish
  PROVE  Inv'
  <1>1. world' \in Worlds
    BY DEF Publish, Inv, Typing, Worlds
  <1> QED
    BY <1>1, OfCalls DEF Publish, Inv, Typing

LEMMA AdministerKeepsInv ==
  ASSUME Inv, Administer
  PROVE  Inv'
BY OfCalls DEF Administer, Inv, Typing

LEMMA StepsKeepInv ==
  ASSUME Inv, [Next]_vars
  PROVE  Inv'
  <1>1. CASE \E t \in Tabs : Edit(t) \/ Submit(t)
    BY <1>1, EditKeepsInv, SubmitKeepsInv
  <1>2. CASE \E t \in Tabs : Served(t)
    BY <1>2, LookupKeepsInv, InsertKeepsInv, ReselectKeepsInv, AnswersKeepInv DEF Served
  <1>3. CASE EndJob \/ Publish \/ Administer
    BY <1>3, EndJobKeepsInv, PublishKeepsInv, AdministerKeepsInv
  <1>4. CASE UNCHANGED vars
    BY <1>4 DEF vars, Inv, Typing, OneLiveJob
  <1> QED
    BY <1>1, <1>2, <1>3, <1>4 DEF Next

-----------------------------------------------------------------------------
\* However many tabs submit a request, and however often, it has one live job per
\* inventory and catalogue.
THEOREM RequestHasOneLiveJob == Spec => []OneLiveJob
  <1>1. Inv => OneLiveJob
    BY DEF Inv
  <1> QED
    BY InvHoldsAtFirst, StepsKeepInv, <1>1, PTL DEF Spec

\* The page that opens is that of a job for the request as it was submitted.
THEOREM OpenedJobIsAsked == Spec => []OpenedIsAsked
  <1>1. Inv => OpenedIsAsked
    BY DEF Inv, Answered, OpenedIsAsked
  <1> QED
    BY InvHoldsAtFirst, StepsKeepInv, <1>1, PTL DEF Spec

-----------------------------------------------------------------------------
(* What the form lets through is right for the catalogue that it shows. *)

\* What is chosen is of the catalogue that is shown, and so is what was submitted,
\* which passed the form's own checks, until the server looks at it.
Loaded(f, c) ==
  /\ f.target \in Catalogs[f.shown.version] \cup {None}
  /\ f.passives \subseteq Catalogs[f.shown.version]
  /\ c.pc = "lookup" =>
       /\ c.request \in Requests /\ Buildable(c.request)
       /\ c.request.passives \cup {c.request.target} \subseteq Catalogs[f.shown.version]

FormInv == Inv /\ \A t \in Tabs : Loaded(form[t], call[t])

LEMMA EditKeepsLoaded ==
  ASSUME NEW t \in Tabs, FormInv, Edit(t)
  PROVE  \A u \in Tabs : Loaded(form'[u], call'[u])
  <1> USE DEF FormInv, Inv, Typing
  <1>1. CASE ChooseTarget(t)
    <2>1. PICK p \in Catalogs[form[t].shown.version] \cap Targets :
            form' = [form EXCEPT ![t].target = p]
      BY <1>1 DEF ChooseTarget
    <2>2. /\ form'[t].target = p /\ form'[t].shown = form[t].shown
          /\ form'[t].passives = form[t].passives
      BY <2>1 DEF Forms
    <2>3. call'[t].pc = call[t].pc /\ call'[t].request = call[t].request
      BY <1>1 DEF ChooseTarget, Calls
    <2>4. \A u \in Tabs \ {t} : form'[u] = form[u] /\ call'[u] = call[u]
      BY <1>1, <2>1 DEF ChooseTarget
    <2>5. Loaded(form[t], call[t])
      OBVIOUS
    <2>6. Loaded(form'[t], call'[t])
      BY <2>1, <2>2, <2>3, <2>5 DEF Loaded
    <2> QED
      BY <2>4, <2>6
  <1>2. CASE TogglePassive(t) \/ Configure(t)
    <2>1. form'[t].target = form[t].target /\ form'[t].shown = form[t].shown
      BY <1>2 DEF TogglePassive, Configure, Forms
    <2>2. Loaded(form[t], call[t])
      OBVIOUS
    <2>3. form'[t].passives \subseteq Catalogs[form[t].shown.version]
      <3>1. CASE form'[t].passives = form[t].passives
        BY <3>1 DEF Loaded
      <3>2. CASE TogglePassive(t) /\ form'[t].passives # form[t].passives
        <4>1. PICK p \in Catalogs[form[t].shown.version] \cap Passives :
                form' = [form EXCEPT ![t].passives =
                           IF p \in form[t].passives THEN @ \ {p} ELSE @ \cup {p}]
          BY <3>2 DEF TogglePassive
        <4>2. form'[t].passives \subseteq form[t].passives \cup {p}
          BY <4>1 DEF Forms
        <4> QED
          BY <4>2 DEF Loaded
      <3>3. CASE Configure(t)
        BY <3>1, <3>3 DEF Configure, Forms
      <3> QED
        BY <1>2, <3>1, <3>2, <3>3
    <2>4. call'[t].pc = call[t].pc /\ call'[t].request = call[t].request
      BY <1>2 DEF TogglePassive, Configure, Calls
    <2>5. \A u \in Tabs \ {t} : form'[u] = form[u] /\ call'[u] = call[u]
      BY <1>2 DEF TogglePassive, Configure
    <2>6. Loaded(form'[t], call'[t])
      BY <2>1, <2>4, <2>3, <2>2 DEF Loaded
    <2> QED
      BY <2>5, <2>6
  <1>3. CASE Reload(t)
    <2>1. form'[t].target = None /\ form'[t].passives = {} /\ call'[t].pc = "none"
      BY <1>3 DEF Reload, Fresh, NoCall
    <2>2. \A u \in Tabs \ {t} : form'[u] = form[u] /\ call'[u] = call[u]
      BY <1>3 DEF Reload
    <2> QED
      BY <2>1, <2>2 DEF Loaded
  <1> QED
    BY <1>1, <1>2, <1>3 DEF Edit

LEMMA SubmitKeepsLoaded ==
  ASSUME NEW t \in Tabs, FormInv, Submit(t)
  PROVE  \A u \in Tabs : Loaded(form'[u], call'[u])
  <1> USE DEF FormInv, Inv, Typing
  <1>1. form' = form /\ \A u \in Tabs \ {t} : call'[u] = call[u]
    BY DEF Submit
  <1>2. Loaded(form[t], call'[t])
    <2>1. CASE Buildable(Request(t))
      <3>1. call'[t].pc = "lookup" /\ call'[t].request = Request(t)
        BY <2>1 DEF Submit, NoCall
      <3> QED
        BY <2>1, <3>1, RequestIsTyped DEF Loaded, Buildable, Request
    <2>2. CASE ~Buildable(Request(t))
      <3>1. call'[t].pc = call[t].pc /\ call'[t].request = call[t].request
        BY <2>2 DEF Submit, Calls
      <3> QED
        BY <3>1 DEF Loaded
    <2> QED
      BY <2>1, <2>2
  <1> QED
    BY <1>1, <1>2

\* What the server does leaves the fields alone and takes the call further.
LEMMA ServedKeepsLoaded ==
  ASSUME NEW t \in Tabs, FormInv, Served(t)
  PROVE  \A u \in Tabs : Loaded(form'[u], call'[u])
  <1> USE DEF FormInv, Inv, Typing
  <1>1. form' = form
    BY DEF Served, Lookup, Insert, Reselect, Status, Answer, LoseAnswer
  <1>2. \/ \E j, error : End(t, j, error)
        \/ \E pc \in {"insert", "reselect", "status"} : \E j : Goto(t, pc, j)
        \/ call' = [call EXCEPT ![t].pc = "answer"]
    <2>1. CASE Lookup(t)
      BY <2>1 DEF Lookup
    <2>2. CASE Insert(t)
      BY <2>2 DEF Insert, InsertNew
    <2>3. CASE Reselect(t)
      BY <2>3 DEF Reselect
    <2>4. CASE Status(t) \/ Answer(t) \/ LoseAnswer(t)
      BY <2>4 DEF Status, Answer, LoseAnswer
    <2> QED
      BY <2>1, <2>2, <2>3, <2>4 DEF Served
  <1>3. call'[t].pc # "lookup" /\ \A u \in Tabs \ {t} : call'[u] = call[u]
    BY <1>2 DEF End, Goto, Calls
  <1> QED
    BY <1>1, <1>3 DEF Loaded

LEMMA StepsKeepFormInv ==
  ASSUME FormInv, [Next]_vars
  PROVE  FormInv'
  <1>1. Inv'
    BY StepsKeepInv DEF FormInv
  <1>2. CASE \E t \in Tabs : Edit(t) \/ Submit(t) \/ Served(t)
    BY <1>1, <1>2, EditKeepsLoaded, SubmitKeepsLoaded, ServedKeepsLoaded DEF FormInv
  <1>3. CASE EndJob \/ Publish \/ Administer \/ UNCHANGED vars
    BY <1>1, <1>3 DEF EndJob, Publish, Administer, vars, FormInv
  <1> QED
    BY <1>2, <1>3 DEF Next

LEMMA FormInvHoldsAtFirst ==
  ASSUME Init
  PROVE  FormInv
BY InvHoldsAtFirst, FirstCatalogAssumption DEF FormInv, Init, Fresh, NoCall, Loaded

\* The checks of the server that look at nothing but the request are the form's.
LEMMA OnlyTheWorldRefuses ==
  ASSUME NEW request \in Requests, Buildable(request), Refused(request)
  PROVE  \/ service.missing # {}
         \/ ~ (request.passives \cup {request.target} \subseteq Catalogs[world.version])
  <1>1. Cardinality(request.passives) \in Nat
    BY FS_Subset, FS_CardinalityType, PassivesAssumption DEF Requests
  <1> QED
    BY <1>1, PassivesAssumption DEF Buildable, Refused

\* However many tabs there are, and whatever is edited, sent again, ended, published
\* or set: what opens is what was asked for, once.  The route and the checks of the
\* function refuse what the form has let through only when the catalogue is a new one or
\* when what the page asked for is missing now; the trigger may refuse the insert by the
\* runtime settings besides.
THEOREM FormServes == Spec => []FormIsServed
  <1>1. FormInv => FormIsServed
    <2>1. ASSUME FormInv, NEW t \in Tabs, call[t].pc = "lookup", Refused(call[t].request)
          PROVE  world.version # form[t].shown.version \/ service.missing # {}
      <3>1. call[t].request \in Requests /\ Buildable(call[t].request)
        BY <2>1 DEF FormInv, Loaded
      <3> QED
        BY <2>1, <3>1, OnlyTheWorldRefuses DEF FormInv, Loaded
    <2> QED
      BY <2>1 DEF FormInv, Inv, Answered, OpenedIsAsked, RefusedIsStale, FormIsServed
  <1> QED
    BY FormInvHoldsAtFirst, StepsKeepFormInv, <1>1, PTL DEF Spec

-----------------------------------------------------------------------------
(* The ranks of an order, and the start of a list. *)

\* The rank of an element of a finite set in a strict total order of it.
Rank(M, R, r) == Cardinality({s \in M : <<s, r>> \in R})

LEMMA Ranked ==
  ASSUME NEW M, IsFiniteSet(M), NEW R,
         \A r \in M : <<r, r>> \notin R,
         \A r, s, t \in M : <<r, s>> \in R /\ <<s, t>> \in R => <<r, t>> \in R,
         \A r, s \in M : r = s \/ <<r, s>> \in R \/ <<s, r>> \in R
  PROVE  /\ Cardinality(M) \in Nat
         /\ \A r \in M : Rank(M, R, r) \in 0..(Cardinality(M) - 1)
         /\ \A r, s \in M : <<r, s>> \in R <=> Rank(M, R, r) < Rank(M, R, s)
         /\ \A n \in 0..(Cardinality(M) - 1) : \E r \in M : Rank(M, R, r) = n
  <1> DEFINE Below(r) == {s \in M : <<s, r>> \in R}
             N == Cardinality(M)
  <1>1. N \in Nat
    BY FS_CardinalityType
  <1>2. ASSUME NEW A \in SUBSET M, NEW B \in SUBSET A, A # B
        PROVE  Cardinality(A) \in Nat /\ Cardinality(B) \in Nat /\ Cardinality(B) < Cardinality(A)
    <2>1. IsFiniteSet(A)
      BY FS_Subset
    <2>2. IsFiniteSet(B) /\ Cardinality(B) <= Cardinality(A) /\ Cardinality(A) # Cardinality(B)
      BY <1>2, <2>1, FS_Subset
    <2> QED
      BY <2>1, <2>2, FS_CardinalityType
  <1>3. ASSUME NEW r \in M
        PROVE  Cardinality(Below(r)) \in 0..(N - 1)
    <2>1. Below(r) \in SUBSET M /\ r \notin Below(r)
      OBVIOUS
    <2> HIDE DEF Below
    <2>2. Cardinality(Below(r)) \in Nat /\ Cardinality(Below(r)) < N
      BY <1>2, <2>1
    <2> QED
      BY <1>1, <2>2
  <1>4. ASSUME NEW r \in M, NEW s \in M, <<r, s>> \in R
        PROVE  Cardinality(Below(r)) < Cardinality(Below(s))
    <2>1. Below(s) \in SUBSET M /\ Below(r) \in SUBSET Below(s)
      BY <1>4
    <2>2. r \in Below(s) /\ r \notin Below(r)
      BY <1>4
    <2> QED
      BY <1>2, <2>1, <2>2
  <1>5. \A r \in M : Rank(M, R, r) = Cardinality(Below(r))
    BY DEF Rank
  <1> HIDE DEF Below, N
  <1>6. \A r, s \in M : <<r, s>> \in R <=> Rank(M, R, r) < Rank(M, R, s)
    <2> SUFFICES ASSUME NEW r \in M, NEW s \in M
                 PROVE  <<r, s>> \in R <=> Rank(M, R, r) < Rank(M, R, s)
      OBVIOUS
    <2>1. Rank(M, R, r) \in Int /\ Rank(M, R, s) \in Int
      BY <1>1, <1>3, <1>5
    <2>2. <<r, s>> \in R => Rank(M, R, r) < Rank(M, R, s)
      BY <1>4, <1>5
    <2>3. <<s, r>> \in R => Rank(M, R, s) < Rank(M, R, r)
      BY <1>4, <1>5
    <2> QED
      BY <2>1, <2>2, <2>3
  <1>7. \A n \in 0..(N - 1) : \E r \in M : Rank(M, R, r) = n
    <2> DEFINE f == [r \in M |-> Rank(M, R, r)]
    <2>1. f \in [M -> 0..(N - 1)]
      BY <1>3, <1>5
    <2>2. ASSUME NEW r \in M, NEW s \in M, f[r] = f[s]
          PROVE  r = s
      BY <1>1, <1>3, <1>5, <1>6, <2>2
    <2>3. f \in Injection(M, 0..(N - 1))
      BY <2>1, <2>2 DEF Injection, IsInjective
    <2>4. IsFiniteSet(0..(N - 1)) /\ Cardinality(0..(N - 1)) = N
      BY <1>1, FS_Interval
    <2> HIDE DEF f
    <2>5. f \in Surjection(M, 0..(N - 1))
      BY <2>3, <2>4, FS_Injection DEF N
    <2> QED
      BY <2>5 DEF Surjection, f
  <1> QED
    BY <1>1, <1>3, <1>5, <1>6, <1>7 DEF N

LEMMA PrefixIsPart ==
  ASSUME NEW S, NEW list \in Seq(S), NEW k \in 0..Len(list)
  PROVE  /\ SubSeq(list, 1, k) \in Seq(S) /\ Len(SubSeq(list, 1, k)) = k
         /\ DOMAIN SubSeq(list, 1, k) = 1..k /\ 1..k \subseteq DOMAIN list
         /\ \A n \in 1..k : SubSeq(list, 1, k)[n] = list[n]
  <1>1. k \in Nat /\ k <= Len(list)
    OBVIOUS
  <1> QED
    BY <1>1


\* Products and quotients.
LEMMA Product ==
  ASSUME NEW x \in Nat, NEW y \in Nat
  PROVE  x * y \in Nat
OBVIOUS

LEMMA Larger ==
  ASSUME NEW x \in Int, NEW y \in Int, NEW d \in Nat, x <= y
  PROVE  d * x <= d * y
  <1>1. y - x \in Nat
    OBVIOUS
  <1>2. d * (y - x) \in Nat
    BY <1>1, Product
  <1>3. d * (y - x) = d * y - d * x
    OBVIOUS
  <1> QED
    BY <1>2, <1>3

LEMMA Quotient ==
  ASSUME NEW a \in Int, NEW d \in Nat \ {0}
  PROVE  /\ a \div d \in Int /\ d * (a \div d) \in Int
         /\ d * (a \div d) <= a /\ a < d * (a \div d) + d
OBVIOUS

LEMMA QuotientGrows ==
  ASSUME NEW a \in Int, NEW b \in Int, NEW d \in Nat \ {0}, b >= a + d
  PROVE  a \div d < b \div d
  <1> DEFINE p == a \div d
             q == b \div d
  <1>1. p \in Int /\ q \in Int /\ d * p <= a /\ b < d * q + d /\ d * p \in Int /\ d * q \in Int
    BY Quotient
  <1> HIDE DEF p, q
  <1>2. ASSUME q <= p
        PROVE  FALSE
    BY <1>1, <1>2, Larger
  <1> QED
    BY <1>1, <1>2 DEF p, q

LEMMA QuotientIs ==
  ASSUME NEW a \in Int, NEW d \in Nat \ {0}, NEW q \in Int, d * q <= a, a < d * q + d
  PROVE  a \div d = q
  <1> DEFINE p == a \div d
  <1>1. p \in Int /\ d * p <= a /\ a < d * p + d /\ d * p \in Int /\ d * q \in Int
    BY Quotient
  <1> HIDE DEF p
  <1>2. ASSUME q + 1 <= p
        PROVE  FALSE
    <2>1. d * (q + 1) <= d * p
      BY <1>1, <1>2, Larger
    <2>2. d * (q + 1) = d * q + d
      OBVIOUS
    <2> QED
      BY <1>1, <2>1, <2>2
  <1>3. ASSUME p + 1 <= q
        PROVE  FALSE
    <2>1. d * (p + 1) <= d * q
      BY <1>1, <1>3, Larger
    <2>2. d * (p + 1) = d * p + d
      BY <1>1
    <2> QED
      BY <1>1, <2>1, <2>2
  <1> QED
    BY <1>1, <1>2, <1>3 DEF p

-----------------------------------------------------------------------------
(* The view of a job. *)

Statuses == {"pending", "retry_pending"} \cup View!Running \cup View!Terminal
JobRows == [status : Statuses, plan : Plans \cup {None}, attempts : Nat]

\* An answer that tells of a job that is completed or cancelled tells what it is for good:
\* the one that is shown, and those on the way.
ViewInv ==
  /\ job \in JobRows /\ shown \in JobRows /\ answers \in [Slots -> JobRows \cup {None}]
  /\ timer \in [on : BOOLEAN, polls : Nat]
  /\ View!ResultIsFinal /\ View!PageIsWatched
  /\ \A s \in Slots :
       answers[s] # None /\ answers[s].status \in {"completed", "cancelled"} => answers[s] = job

LEMMA ChangedJobRow ==
  ASSUME NEW row \in JobRows, NEW status \in Statuses, NEW attempts \in Nat,
         NEW plan \in Plans \cup {None}
  PROVE  /\ [row EXCEPT !.status = status] \in JobRows
         /\ [row EXCEPT !.status = status, !.attempts = attempts] \in JobRows
         /\ [row EXCEPT !.status = status, !.plan = plan] \in JobRows
BY DEF JobRows

\* A job that is completed or cancelled is not changed any more.
LEMMA JobStepKeepsView ==
  ASSUME ViewInv, View!JobStep
  PROVE  ViewInv'
  <1>1. job \in JobRows /\ job.attempts + 1 \in Nat /\ job.plan \in Plans \cup {None}
    BY DEF ViewInv, JobRows
  <1>2. {"pending", "retry_pending", "processing", "algorithm_completed", "ai_enriching",
         "completed", "failed", "cancelled"} \subseteq Statuses
    BY DEF Statuses, View!Running, View!Terminal
  <1>3. job' \in JobRows /\ job.status \notin {"completed", "cancelled"}
    <2>1. CASE View!Claim
      BY <1>1, <1>2, <2>1, ChangedJobRow DEF View!Claim
    <2>2. CASE View!Persist
      <3>1. PICK plan \in Plans : job' = [job EXCEPT !.status = "algorithm_completed", !.plan = plan]
        BY <2>2 DEF View!Persist
      <3> QED
        BY <1>1, <1>2, <2>2, <3>1, ChangedJobRow DEF View!Persist
    <2>3. CASE \E status \in Statuses :
                 View!Becomes(status) /\ job.status \notin {"completed", "cancelled"}
      BY <1>1, <2>3, ChangedJobRow DEF View!Becomes
    <2> QED
      BY <1>2, <2>1, <2>2, <2>3 DEF View!JobStep, View!Running, View!Terminal
  <1>4. UNCHANGED <<shown, timer, paused, answers>>
    BY DEF View!JobStep, View!view
  <1>5. shown.status \notin {"completed", "cancelled"}
    BY <1>3 DEF ViewInv, View!ResultIsFinal
  <1>6. \A s \in Slots : answers[s] = None \/ answers[s].status \notin {"completed", "cancelled"}
    BY <1>3 DEF ViewInv
  <1> QED
    BY <1>3, <1>4, <1>5, <1>6 DEF ViewInv, View!ResultIsFinal, View!PageIsWatched

LEMMA AnswerKeepsView ==
  ASSUME ViewInv, NEW s \in Slots, View!Arrive(s)
  PROVE  ViewInv'
  <1>1. /\ answers[s] \in JobRows /\ shown' = answers[s] /\ UNCHANGED <<job, paused>>
        /\ answers[s].status \in {"completed", "cancelled"} => answers[s] = job
        /\ answers' = [answers EXCEPT ![s] = None] /\ timer' = View!TimerFor(answers[s].status)
    BY DEF View!Arrive, ViewInv
  <1>2. View!ResultIsFinal'
    BY <1>1 DEF View!ResultIsFinal
  <1>3. View!PageIsWatched'
    BY <1>1 DEF View!PageIsWatched, View!TimerFor, View!NewTimer, ViewInv
  <1>4. timer' \in [on : BOOLEAN, polls : Nat]
    BY <1>1 DEF View!TimerFor, View!NewTimer, ViewInv
  <1> QED
    BY <1>1, <1>2, <1>3, <1>4 DEF ViewInv

LEMMA PageKeepsView ==
  ASSUME ViewInv, View!Poll \/ View!Pick \/ View!Reload \/ \E s \in Slots : View!Lose(s)
  PROVE  ViewInv'
  <1>1. CASE View!Poll
    <2>1. /\ UNCHANGED <<job, shown>> /\ (timer'.on \/ paused')
          /\ timer' \in [on : BOOLEAN, polls : Nat]
          /\ \A s \in Slots : answers'[s] \in {answers[s], job}
          /\ answers' \in [Slots -> JobRows \cup {None}]
      <3>1. CASE timer.polls >= MaxPolls
        <4>1. timer' = [on |-> FALSE, polls |-> 0] /\ paused' = TRUE
              /\ UNCHANGED <<job, shown, answers>>
          BY <1>1, <3>1 DEF View!Poll, View!NoTimer
        <4> QED
          BY <4>1 DEF ViewInv
      <3>2. CASE ~(timer.polls >= MaxPolls)
        <4>1. /\ UNCHANGED <<job, shown>> /\ timer.on /\ timer' = [timer EXCEPT !.polls = @ + 1]
              /\ \E s \in Slots : answers' = [answers EXCEPT ![s] = job]
          BY <1>1, <3>2 DEF View!Poll
        <4>2. timer' \in [on : BOOLEAN, polls : Nat] /\ timer'.on
          BY <4>1 DEF ViewInv
        <4>3. /\ \A s \in Slots : answers'[s] \in {answers[s], job}
              /\ answers' \in [Slots -> JobRows \cup {None}]
          BY <4>1 DEF ViewInv
        <4> QED
          BY <4>1, <4>2, <4>3
      <3> QED
        BY <3>1, <3>2
    <2> QED
      BY <2>1 DEF ViewInv, View!ResultIsFinal, View!PageIsWatched
  <1>2. CASE View!Pick
    BY <1>2 DEF View!Pick, ViewInv, View!ResultIsFinal, View!PageIsWatched
  <1>3. CASE View!Reload
    BY <1>3 DEF View!Reload, View!Load, View!NewTimer, ViewInv, View!ResultIsFinal,
                View!PageIsWatched
  <1>4. CASE \E s \in Slots : View!Lose(s)
    BY <1>4 DEF View!Lose, ViewInv, View!ResultIsFinal, View!PageIsWatched
  <1> QED
    BY <1>1, <1>2, <1>3, <1>4

\* The page of a job, whichever answers arrive late, overtaken by others or not at all,
\* and however often the job is tried with other results: a result it shows as the end is
\* the one that the job has and keeps, and while it shows a job that goes on it asks again
\* or says that it does not.
THEOREM ShownResultIsFinal ==
  View!Spec => [](View!ResultIsFinal /\ View!PageIsWatched)
  <1>1. View!Init => ViewInv
    <2> SUFFICES ASSUME View!Init
                 PROVE  ViewInv
      OBVIOUS
    <2>1. /\ job = [status |-> "pending", plan |-> None, attempts |-> 0] /\ shown = job
          /\ timer = [on |-> TRUE, polls |-> 0] /\ answers = [s \in Slots |-> None]
      BY DEF View!Init, View!NewTimer, View!Terminal
    <2>2. job \in JobRows /\ job.status = "pending"
      BY <2>1 DEF JobRows, Statuses
    <2> QED
      BY <2>1, <2>2 DEF ViewInv, View!ResultIsFinal, View!PageIsWatched
  <1>2. ViewInv /\ [View!Next]_(View!vars) => ViewInv'
    <2>1. ViewInv /\ UNCHANGED View!vars => ViewInv'
      BY DEF View!vars, View!view, ViewInv, View!ResultIsFinal, View!PageIsWatched
    <2> QED
      BY <2>1, JobStepKeepsView, AnswerKeepsView, PageKeepsView DEF View!Next
  <1>3. ViewInv => View!ResultIsFinal /\ View!PageIsWatched
    BY DEF ViewInv
  <1> QED
    BY <1>1, <1>2, <1>3, PTL DEF View!Spec

-----------------------------------------------------------------------------
(* Saving and removing routes. *)

SaveRequests == [id : Nat, kind : {"save", "remove"}, route : Routes]
SaveReplies == [request : SaveRequests, ok : BOOLEAN]

\* The n-th of the answers on the way is the last one that tells of the route r.
TellsLast(n, r) ==
  /\ replies[n].ok /\ replies[n].request.route = r
  /\ \A m \in DOMAIN replies : m > n /\ replies[m].ok => replies[m].request.route # r

\* A route is saved if the last answer on the way that tells of it says so.  If there is
\* none, what the page takes for saved is, unless an answer was lost.
SavesInv ==
  /\ sent \in Nat /\ route \in Routes
  /\ requests \in SUBSET SaveRequests /\ replies \in Seq(SaveReplies)
  /\ \A n \in DOMAIN replies : \A r \in Routes :
       TellsLast(n, r) => (r \in savedRows <=> replies[n].request.kind = "save")
  /\ \A r \in Routes \ lost :
       (\A n \in DOMAIN replies : ~(replies[n].ok /\ replies[n].request.route = r)) =>
         (r \in savedRouteIds <=> r \in savedRows)

LEMMA SendKeepsSaves ==
  ASSUME SavesInv, Saves!Select \/ Saves!Save \/ Saves!Remove
  PROVE  SavesInv'
  <1>1. UNCHANGED <<savedRows, savedRouteIds, replies, lost>>
    BY DEF Saves!Select, Saves!Save, Saves!Remove, Saves!Send
  <1>2. sent' \in Nat /\ route' \in Routes /\ requests' \in SUBSET SaveRequests
    <2>1. CASE Saves!Select
      BY <2>1 DEF Saves!Select, SavesInv
    <2>2. ASSUME NEW kind \in {"save", "remove"}, Saves!Send(kind)
          PROVE  sent' \in Nat /\ route' \in Routes /\ requests' \in SUBSET SaveRequests
      BY <2>2 DEF Saves!Send, SavesInv, SaveRequests
    <2> QED
      BY <2>1, <2>2 DEF Saves!Save, Saves!Remove
  <1> QED
    BY <1>1, <1>2 DEF SavesInv, TellsLast

\* A request is executed: its answer is the last one that tells of its route.
LEMMA ExecuteKeepsSaves ==
  ASSUME SavesInv, NEW request \in requests, Saves!Execute(request)
  PROVE  SavesInv'
  <1>1. request \in SaveRequests /\ request.route \in Routes
    BY DEF SavesInv, SaveRequests
  <1>2. UNCHANGED <<savedRouteIds, route, sent, lost>> /\ requests' \in SUBSET SaveRequests
    BY DEF Saves!Execute, SavesInv
  <1>3. PICK ok \in BOOLEAN :
          /\ replies' = Append(replies, [request |-> request, ok |-> ok])
          /\ savedRows' = IF ok THEN Saves!Applied(savedRows, request.kind, request.route)
                          ELSE savedRows
    BY DEF Saves!Execute
  <1> DEFINE reply == [request |-> request, ok |-> ok]
             final == Len(replies) + 1
  <1>4. reply \in SaveReplies /\ replies \in Seq(SaveReplies)
    BY <1>1 DEF SavesInv, SaveReplies
  <1>5. /\ replies' \in Seq(SaveReplies) /\ final \in DOMAIN replies'
        /\ replies'[final].request = request /\ replies'[final].ok = ok
        /\ \A n \in DOMAIN replies' : n <= final /\ (n # final => n \in DOMAIN replies)
        /\ \A n \in DOMAIN replies : n \in DOMAIN replies' /\ n < final /\ replies'[n] = replies[n]
    BY <1>3, <1>4
  <1>6. \A r \in Routes : r # request.route \/ ~ok => (r \in savedRows' <=> r \in savedRows)
    BY <1>3 DEF Saves!Applied
  <1> HIDE DEF reply, final
  <1>7. ASSUME NEW n \in DOMAIN replies', NEW r \in Routes, TellsLast(n, r)'
        PROVE  r \in savedRows' <=> replies'[n].request.kind = "save"
    <2>1. CASE n = final
      <3>1. ok /\ r = request.route
        BY <1>5, <1>7, <2>1 DEF TellsLast
      <3> QED
        BY <1>1, <1>3, <1>5, <2>1, <3>1 DEF Saves!Applied
    <2>2. CASE n # final
      <3>1. /\ n \in DOMAIN replies /\ replies'[n] = replies[n]
            /\ final > n /\ n \in Int /\ final \in Int
        BY <1>4, <1>5, <2>2 DEF final
      <3>2. ~(ok /\ request.route = r)
        BY <1>5, <1>7, <3>1 DEF TellsLast
      <3>3. TellsLast(n, r)
        BY <1>5, <1>7, <3>1 DEF TellsLast
      <3> QED
        BY <1>6, <3>1, <3>2, <3>3 DEF SavesInv
    <2> QED
      BY <2>1, <2>2
  <1>8. ASSUME NEW r \in Routes \ lost,
               \A n \in DOMAIN replies' : ~(replies'[n].ok /\ replies'[n].request.route = r)
        PROVE  r \in savedRouteIds <=> r \in savedRows'
    BY <1>5, <1>6, <1>8 DEF SavesInv
  <1> QED
    BY <1>2, <1>5, <1>7, <1>8 DEF SavesInv

\* What is left of the answers tells the same of the routes.
LEMMA RestTells ==
  ASSUME SavesInv, replies # <<>>, replies' = Tail(replies), UNCHANGED savedRows
  PROVE  /\ replies' \in Seq(SaveReplies) /\ Head(replies) = replies[1] /\ 1 \in DOMAIN replies
         /\ \A n \in DOMAIN replies \ {1} :
              n - 1 \in DOMAIN replies' /\ replies'[n - 1] = replies[n]
         /\ \A n \in DOMAIN replies' : n + 1 \in DOMAIN replies /\ replies'[n] = replies[n + 1]
         /\ \A n \in DOMAIN replies' : \A r \in Routes :
              TellsLast(n, r)' => (r \in savedRows' <=> replies'[n].request.kind = "save")
  <1>1. replies \in Seq(SaveReplies)
    BY DEF SavesInv
  <1>2. /\ replies' \in Seq(SaveReplies) /\ Head(replies) = replies[1] /\ 1 \in DOMAIN replies
        /\ \A n \in DOMAIN replies \ {1} :
             n - 1 \in DOMAIN replies' /\ replies'[n - 1] = replies[n]
        /\ \A n \in DOMAIN replies' : n + 1 \in DOMAIN replies /\ replies'[n] = replies[n + 1]
        /\ DOMAIN replies \subseteq Nat \ {0} /\ DOMAIN replies' \subseteq Nat \ {0}
    BY <1>1
  <1>3. ASSUME NEW n \in DOMAIN replies', NEW r \in Routes, TellsLast(n, r)'
        PROVE  TellsLast(n + 1, r)
    <2>1. ASSUME NEW m \in DOMAIN replies, m > n + 1, replies[m].ok
          PROVE  replies[m].request.route # r
      <3>1. m - 1 \in DOMAIN replies' /\ replies'[m - 1] = replies[m] /\ m - 1 > n
        BY <1>2, <2>1
      <3> QED
        BY <1>3, <2>1, <3>1 DEF TellsLast
    <2> QED
      BY <1>2, <1>3, <2>1 DEF TellsLast
  <1> QED
    BY <1>2, <1>3 DEF SavesInv

LEMMA AnswerKeepsSaves ==
  ASSUME SavesInv, Saves!Answer
  PROVE  SavesInv'
  <1> DEFINE reply == replies[1]
  <1>1. /\ replies # <<>> /\ replies' = Tail(replies)
        /\ UNCHANGED <<savedRows, route, requests, sent>>
    BY DEF Saves!Answer
  <1>2. /\ Head(replies) = reply /\ 1 \in DOMAIN replies /\ replies' \in Seq(SaveReplies)
        /\ \A n \in DOMAIN replies \ {1} :
             n - 1 \in DOMAIN replies' /\ replies'[n - 1] = replies[n]
        /\ \A n \in DOMAIN replies' : \A r \in Routes :
             TellsLast(n, r)' => (r \in savedRows' <=> replies'[n].request.kind = "save")
    BY <1>1, RestTells
  <1>3. /\ savedRouteIds' =
             IF reply.ok THEN Saves!Applied(savedRouteIds, reply.request.kind, reply.request.route)
             ELSE savedRouteIds
        /\ lost' = IF reply.ok THEN lost \ {reply.request.route} ELSE lost
    BY <1>2 DEF Saves!Answer, Saves!Taken
  <1> HIDE DEF reply
  <1>4. ASSUME NEW r \in Routes \ lost',
               \A n \in DOMAIN replies' : ~(replies'[n].ok /\ replies'[n].request.route = r)
        PROVE  r \in savedRouteIds' <=> r \in savedRows
    <2>1. \A n \in DOMAIN replies : n # 1 => ~(replies[n].ok /\ replies[n].request.route = r)
      BY <1>2, <1>4
    <2>2. CASE reply.ok /\ reply.request.route = r
      <3>1. TellsLast(1, r)
        BY <2>1, <2>2, <1>2 DEF TellsLast, reply
      <3>2. r \in savedRows <=> reply.request.kind = "save"
        BY <1>2, <3>1 DEF SavesInv, reply
      <3> QED
        BY <1>3, <2>2, <3>2 DEF Saves!Applied
    <2>3. CASE ~(reply.ok /\ reply.request.route = r)
      <3>1. r \notin lost /\ (r \in savedRouteIds' <=> r \in savedRouteIds)
        BY <1>3, <1>4, <2>3 DEF Saves!Applied
      <3> QED
        BY <2>1, <2>3, <3>1 DEF SavesInv, reply
    <2> QED
      BY <2>2, <2>3
  <1> QED
    BY <1>1, <1>2, <1>4 DEF SavesInv

LEMMA LossKeepsSaves ==
  ASSUME SavesInv, Saves!LoseAnswer
  PROVE  SavesInv'
  <1>1. /\ replies # <<>> /\ replies' = Tail(replies)
        /\ UNCHANGED <<savedRows, savedRouteIds, route, requests, sent>>
        /\ lost' = lost \cup {Head(replies).request.route}
    BY DEF Saves!LoseAnswer
  <1>2. /\ Head(replies) = replies[1] /\ replies' \in Seq(SaveReplies)
        /\ \A n \in DOMAIN replies \ {1} :
             n - 1 \in DOMAIN replies' /\ replies'[n - 1] = replies[n]
        /\ \A n \in DOMAIN replies' : \A r \in Routes :
             TellsLast(n, r)' => (r \in savedRows' <=> replies'[n].request.kind = "save")
    BY <1>1, RestTells
  <1>3. ASSUME NEW r \in Routes \ lost',
               \A n \in DOMAIN replies' : ~(replies'[n].ok /\ replies'[n].request.route = r)
        PROVE  r \in savedRouteIds <=> r \in savedRows
    <2>1. \A n \in DOMAIN replies : ~(replies[n].ok /\ replies[n].request.route = r)
      BY <1>1, <1>2, <1>3
    <2> QED
      BY <1>1, <2>1 DEF SavesInv
  <1> QED
    BY <1>1, <1>2, <1>3 DEF SavesInv

\* Saving and removing routes of a job, however many requests are under way and
\* whatever becomes of them: when nothing is under way for a route, the page shows it
\* as saved if and only if it is, unless an answer about it was lost.
THEOREM SavedIsShown == Saves!Spec => []Saves!SavedAgrees
  <1>1. Saves!Init => SavesInv
    BY DEF Saves!Init, SavesInv
  <1>2. SavesInv /\ [Saves!Next]_(Saves!vars) => SavesInv'
    <2>1. SavesInv /\ UNCHANGED Saves!vars => SavesInv'
      BY DEF Saves!vars, SavesInv, TellsLast
    <2> QED
      BY <2>1, SendKeepsSaves, ExecuteKeepsSaves, AnswerKeepsSaves, LossKeepsSaves DEF Saves!Next
  <1>3. SavesInv => Saves!SavedAgrees
    <2> SUFFICES ASSUME SavesInv, NEW r \in Routes \ lost, ~Saves!UnderWay(r)
                 PROVE  r \in savedRouteIds <=> r \in savedRows
      BY DEF Saves!SavedAgrees
    <2> QED
      BY DEF SavesInv, Saves!UnderWay
  <1> QED
    BY <1>1, <1>2, <1>3, PTL DEF Saves!Spec

-----------------------------------------------------------------------------
(* The list of plans. *)

LEMMA PlanCardinality ==
  ASSUME NEW M
  PROVE  PlanList!Cardinality(M) = Cardinality(M)
BY DEF Cardinality, PlanList!Cardinality

\* InOrder lists the rows of a set of routes once each, the newer before the older.
LEMMA OrderIsWhole ==
  ASSUME NEW M \in SUBSET DOMAIN rows, IsFiniteSet(M), DOMAIN rows \subseteq Nat,
         \A r \in M : rows[r] \in Nat
  PROVE  LET order == PlanList!InOrder(M)
         IN /\ order \in Seq(M)
            /\ \A m, n \in DOMAIN order : m < n => PlanList!Newer(order[m], order[n])
            /\ \A r \in M : \E n \in DOMAIN order : order[n] = r
  <1> DEFINE R == {p \in M \X M : PlanList!Newer(p[1], p[2])}
             N == Cardinality(M)
             order == PlanList!InOrder(M)
  <1>1. M \subseteq Nat
    OBVIOUS
  <1>2. \A r, s \in M : <<r, s>> \in R <=> PlanList!Newer(r, s)
    OBVIOUS
  <1>3. /\ \A r \in M : ~PlanList!Newer(r, r)
        /\ \A r, s, t \in M : PlanList!Newer(r, s) /\ PlanList!Newer(s, t) => PlanList!Newer(r, t)
        /\ \A r, s \in M : r = s \/ PlanList!Newer(r, s) \/ PlanList!Newer(s, r)
    BY <1>1 DEF PlanList!Newer
  <1> HIDE DEF R
  <1>4. /\ \A r \in M : <<r, r>> \notin R
        /\ \A r, s, t \in M : <<r, s>> \in R /\ <<s, t>> \in R => <<r, t>> \in R
        /\ \A r, s \in M : r = s \/ <<r, s>> \in R \/ <<s, r>> \in R
    BY <1>2, <1>3
  <1>5. /\ N \in Nat
        /\ \A r \in M : Rank(M, R, r) \in 0..(N - 1)
        /\ \A r, s \in M : <<r, s>> \in R <=> Rank(M, R, r) < Rank(M, R, s)
        /\ \A n \in 0..(N - 1) : \E r \in M : Rank(M, R, r) = n
    BY <1>4, Ranked
  <1>6. \A r \in M : PlanList!Cardinality({s \in M : PlanList!Newer(s, r)}) = Rank(M, R, r)
    <2> SUFFICES ASSUME NEW r \in M
                 PROVE  PlanList!Cardinality({s \in M : PlanList!Newer(s, r)}) = Rank(M, R, r)
      OBVIOUS
    <2>1. {s \in M : PlanList!Newer(s, r)} = {s \in M : <<s, r>> \in R}
      BY <1>2
    <2> QED
      BY <2>1, PlanCardinality DEF Rank
  <1>7. order = [n \in 1..N |-> CHOOSE r \in M : Rank(M, R, r) = n - 1]
    BY <1>6, PlanCardinality DEF PlanList!InOrder
  <1> HIDE DEF order, N
  <1>8. ASSUME NEW n \in 1..N
        PROVE  order[n] \in M /\ Rank(M, R, order[n]) = n - 1
    <2>1. n - 1 \in 0..(N - 1)
      BY <1>5
    <2>2. \E r \in M : Rank(M, R, r) = n - 1
      BY <1>5, <2>1
    <2> QED
      BY <1>7, <2>2
  <1>9. DOMAIN order = 1..N /\ order \in Seq(M)
    BY <1>5, <1>7, <1>8
  <1>10. ASSUME NEW m \in DOMAIN order, NEW n \in DOMAIN order, m < n
         PROVE  PlanList!Newer(order[m], order[n])
    <2>1. /\ order[m] \in M /\ Rank(M, R, order[m]) = m - 1
          /\ order[n] \in M /\ Rank(M, R, order[n]) = n - 1 /\ m - 1 < n - 1
      <3>1. m \in 1..N /\ n \in 1..N /\ m \in Int /\ n \in Int
        BY <1>5, <1>9
      <3> QED
        BY <1>8, <1>10, <3>1
    <2>2. <<order[m], order[n]>> \in R
      BY <1>5, <2>1
    <2> QED
      BY <1>2, <2>1, <2>2
  <1>11. ASSUME NEW r \in M
         PROVE  \E n \in DOMAIN order : order[n] = r
    <2>1. Rank(M, R, r) + 1 \in 1..N
      BY <1>5
    <2>2. order[Rank(M, R, r) + 1] \in M /\ Rank(M, R, order[Rank(M, R, r) + 1]) = Rank(M, R, r)
      BY <1>5, <1>8, <2>1
    <2>3. order[Rank(M, R, r) + 1] = r
      BY <1>4, <1>5, <2>2
    <2> QED
      BY <1>9, <2>1, <2>3
  <1> QED
    BY <1>9, <1>10, <1>11 DEF order

PlanCursors == [at : Nat, route : Nat]
PlanSaves == [route : PlanRoutes, at : Nat]
RowsOK ==
  /\ DOMAIN rows \subseteq PlanRoutes /\ IsFiniteSet(DOMAIN rows)
  /\ \A r \in DOMAIN rows : rows[r] \in Nat
  /\ rows = [r \in DOMAIN rows |-> rows[r]]

\* A page is the next plans in their order; its cursor tells which have not been listed.
LEMMA PageIsNext ==
  ASSUME PlanList!PlanPagesAssumption, RowsOK, NEW cursor, NEW boundary
  PROVE  LET M == PlanList!Matching(cursor, boundary)
             p == PlanList!Page(cursor, boundary)
         IN /\ p.kind = "list" /\ p.boundary = boundary
            /\ p.items \in Seq(M)
            /\ \A m, n \in DOMAIN p.items : m < n => PlanList!Newer(p.items[m], p.items[n])
            /\ p.cursor = None => \A r \in M : \E n \in DOMAIN p.items : p.items[n] = r
            /\ p.cursor # None =>
                 /\ p.cursor \in PlanCursors /\ p.cursor.route \in M
                 /\ p.cursor.at = rows[p.cursor.route]
                 /\ \A r \in M : PlanList!After(r, p.cursor) <=>
                                   \A n \in DOMAIN p.items : p.items[n] # r
  <1> DEFINE M == PlanList!Matching(cursor, boundary)
             order == PlanList!InOrder(M)
             size == PlanList!Min({PlanLimit, Len(order)})
             visible == SubSeq(order, 1, size)
             p == PlanList!Page(cursor, boundary)
  <1>1. M \in SUBSET DOMAIN rows /\ DOMAIN rows \subseteq Nat /\ M \subseteq Nat
    BY DEF PlanList!Matching, RowsOK, PlanList!PlanPagesAssumption
  <1>2. IsFiniteSet(M) /\ \A r \in M : rows[r] \in Nat
    BY <1>1, FS_Subset DEF RowsOK
  <1>3. /\ order \in Seq(M)
        /\ \A m, n \in DOMAIN order : m < n => PlanList!Newer(order[m], order[n])
        /\ \A r \in M : \E n \in DOMAIN order : order[n] = r
    BY <1>1, <1>2, OrderIsWhole
  <1>4. p = [kind |-> "list", items |-> visible, boundary |-> boundary,
             cursor |->
               IF Len(order) <= PlanLimit THEN None
               ELSE [at |-> rows[PlanList!Last(visible)], route |-> PlanList!Last(visible)]]
    BY DEF PlanList!Page
  <1> HIDE DEF M, order, p
  <1>5. PlanLimit \in Nat \ {0} /\ None \notin PlanCursors
    BY DEF PlanList!PlanPagesAssumption, PlanCursors
  <1>6. size = (IF Len(order) <= PlanLimit THEN Len(order) ELSE PlanLimit) /\ size \in 0..Len(order)
    BY <1>3, <1>5 DEF PlanList!Min
  <1> HIDE DEF size
  <1>7. /\ visible \in Seq(M) /\ Len(visible) = size
        /\ DOMAIN visible = 1..size /\ DOMAIN visible \subseteq DOMAIN order
        /\ \A n \in DOMAIN visible : visible[n] = order[n]
    BY <1>3, <1>6, PrefixIsPart
  <1>8. /\ p.kind = "list" /\ p.boundary = boundary /\ p.items = visible
    BY <1>4
  <1>9. \A m, n \in DOMAIN visible : m < n => PlanList!Newer(visible[m], visible[n])
    BY <1>3, <1>7
  <1>10. CASE Len(order) <= PlanLimit
    <2>1. visible = order /\ p.cursor = None
      BY <1>3, <1>4, <1>6, <1>10
    <2> QED
      BY <1>3, <1>7, <1>8, <1>9, <2>1 DEF M, p
  <1>11. CASE ~(Len(order) <= PlanLimit)
    <2> DEFINE final == order[PlanLimit]
    <2>1. /\ Len(visible) = PlanLimit /\ DOMAIN visible = 1..PlanLimit
          /\ PlanLimit \in DOMAIN visible /\ PlanLimit \in DOMAIN order
          /\ visible[PlanLimit] = final
      BY <1>3, <1>5, <1>6, <1>7, <1>11
    <2>2. final \in M
      BY <1>3, <2>1
    <2> HIDE DEF visible, final
    <2>7. PlanList!Last(visible) = final
      BY <2>1 DEF PlanList!Last
    <2>3. p.cursor = [at |-> rows[final], route |-> final]
      BY <1>4, <1>11, <2>7 DEF visible
    <2>4. p.cursor \in PlanCursors /\ p.cursor # None
      BY <1>1, <1>2, <1>5, <2>2, <2>3 DEF PlanCursors
    <2>5. ASSUME NEW r \in M
          PROVE  PlanList!After(r, p.cursor) <=> PlanList!Newer(final, r)
      BY <1>1, <1>2, <2>2, <2>3, <2>5 DEF PlanList!After, PlanList!Newer
    <2>6. ASSUME NEW r \in M
          PROVE  PlanList!Newer(final, r) <=> \A n \in DOMAIN visible : visible[n] # r
      <3>1. PICK k \in DOMAIN order : order[k] = r
        BY <1>3, <2>6
      <3>2. \A s, t \in M : ~(PlanList!Newer(s, t) /\ (PlanList!Newer(t, s) \/ s = t))
        BY <1>1, <1>2 DEF PlanList!Newer
      <3>3. order \in Seq(M) /\ k \in Nat /\ PlanLimit \in Nat
        BY <1>3, <1>5
      <3>4. CASE k <= PlanLimit
        <4>1. k \in DOMAIN visible /\ visible[k] = r
          BY <1>3, <1>5, <1>7, <2>1, <3>1, <3>4
        <4>2. r = final \/ PlanList!Newer(r, final)
          BY <1>3, <2>1, <3>1, <3>3, <3>4 DEF final
        <4> QED
          BY <2>2, <2>6, <3>2, <4>1, <4>2
      <3>5. CASE PlanLimit < k
        <4>1. PlanList!Newer(final, r)
          BY <1>3, <2>1, <3>1, <3>5 DEF final
        <4>2. ASSUME NEW n \in DOMAIN visible
              PROVE  visible[n] # r
          <5>1. n \in DOMAIN order /\ n < k /\ visible[n] = order[n]
            BY <1>5, <1>7, <2>1, <3>3, <3>5
          <5>2. PlanList!Newer(order[n], r) /\ order[n] \in M
            BY <1>3, <3>1, <5>1
          <5> QED
            BY <2>6, <3>2, <5>1, <5>2
        <4> QED
          BY <4>1, <4>2
      <3> QED
        BY <3>3, <3>4, <3>5
    <2> QED
      BY <1>7, <1>8, <1>9, <2>2, <2>3, <2>4, <2>5, <2>6 DEF M, p
  <1> QED
    BY <1>10, <1>11

\* What the player has seen of the plans that have been there since the first page was
\* opened: all of those that are not after the cursor, once each and in their order.
Listed(cursor, boundary) ==
  /\ \A r \in steady : rows[r] <= boundary
  /\ planSeen \in Seq(PlanRoutes)
  /\ cursor # None => cursor \in PlanCursors
  /\ \A r \in steady :
       (\A n \in DOMAIN planSeen : planSeen[n] # r) <=> (cursor # None /\ PlanList!After(r, cursor))
  /\ \A m, n \in DOMAIN planSeen :
       m < n /\ planSeen[m] \in steady /\ planSeen[n] \in steady =>
         PlanList!Newer(planSeen[m], planSeen[n])

PlansInv ==
  /\ now \in Nat /\ RowsOK
  /\ saving \in SUBSET PlanSaves
  /\ steady \in SUBSET DOMAIN rows
  /\ planPage.kind # "list" => steady = {}
  /\ planPage.kind = "list" => Listed(planPage.cursor, planPage.boundary)

\* A step that leaves the page alone and the rows of the steady plans keeps what was listed.
LEMMA RestKeepsPlans ==
  ASSUME PlansInv, UNCHANGED <<planPage, planSeen>>,
         now' \in Nat, RowsOK', saving' \in SUBSET PlanSaves,
         steady' \in SUBSET steady, steady' \in SUBSET DOMAIN rows',
         \A r \in steady' : rows'[r] = rows[r]
  PROVE  PlansInv'
  <1>1. steady = {} => steady' = {}
    OBVIOUS
  <1>2. ASSUME planPage.kind = "list"
        PROVE  Listed(planPage.cursor, planPage.boundary)'
    BY <1>2 DEF PlansInv, Listed, PlanList!After, PlanList!Newer
  <1> QED
    BY <1>1, <1>2 DEF PlansInv

LEMMA SaveKeepsPlans ==
  ASSUME PlanList!PlanPagesAssumption, PlansInv,
         PlanList!Tick \/ PlanList!BeginSave \/ \E save \in saving : PlanList!CommitSave(save)
  PROVE  PlansInv'
  <1>1. CASE PlanList!Tick
    BY <1>1, RestKeepsPlans DEF PlanList!Tick, PlansInv, RowsOK
  <1>2. CASE PlanList!BeginSave
    <2>1. saving' \in SUBSET PlanSaves
      BY <1>2 DEF PlanList!BeginSave, PlansInv, PlanSaves
    <2> QED
      BY <1>2, <2>1, RestKeepsPlans DEF PlanList!BeginSave, PlansInv, RowsOK
  <1>3. ASSUME NEW save \in saving, PlanList!CommitSave(save)
        PROVE  PlansInv'
    <2>1. /\ save.route \in PlanRoutes /\ save.at \in Nat /\ saving' \in SUBSET PlanSaves
          /\ UNCHANGED <<now, planPage, planSeen, steady>>
      BY <1>3 DEF PlanList!CommitSave, PlansInv, PlanSaves
    <2>2. CASE save.route \in DOMAIN rows
      <3>1. UNCHANGED rows
        BY <1>3, <2>2 DEF PlanList!CommitSave
      <3> QED
        BY <2>1, <3>1, RestKeepsPlans DEF PlansInv, RowsOK
    <2>3. CASE save.route \notin DOMAIN rows
      <3>1. rows' = [r \in DOMAIN rows \cup {save.route} |->
                       IF r = save.route THEN save.at ELSE rows[r]]
        BY <1>3, <2>3 DEF PlanList!CommitSave, PlanList!With
      <3>2. IsFiniteSet(DOMAIN rows \cup {save.route})
        BY FS_AddElement DEF PlansInv, RowsOK
      <3>3. RowsOK' /\ \A r \in DOMAIN rows : r \in DOMAIN rows' /\ rows'[r] = rows[r]
        BY <2>1, <2>3, <3>1, <3>2 DEF PlansInv, RowsOK
      <3> QED
        BY <2>1, <3>3, RestKeepsPlans DEF PlansInv
    <2> QED
      BY <2>2, <2>3
  <1> QED
    BY <1>1, <1>2, <1>3

\* A route that is removed is not steady any more.
LEMMA RemovalKeepsPlans ==
  ASSUME PlansInv, PlanList!RemovePlan \/ PlanList!RemoveElsewhere
  PROVE  PlansInv'
  <1>1. ASSUME NEW r, PlanList!Removed(r)
        PROVE  /\ RowsOK' /\ DOMAIN rows' = DOMAIN rows \ {r}
               /\ \A s \in DOMAIN rows' : rows'[s] = rows[s]
    <2>1. rows' = [s \in DOMAIN rows \ {r} |-> rows[s]]
      BY <1>1 DEF PlanList!Removed, PlanList!Without
    <2>2. IsFiniteSet(DOMAIN rows \ {r})
      BY FS_RemoveElement DEF PlansInv, RowsOK
    <2> QED
      BY <2>1, <2>2 DEF PlansInv, RowsOK
  <1>2. CASE PlanList!RemovePlan
    <2>1. /\ steady = {} /\ steady' = {} /\ planPage'.kind = "none"
          /\ UNCHANGED <<now, saving>> /\ RowsOK'
      BY <1>1, <1>2 DEF PlanList!RemovePlan, PlansInv
    <2> QED
      BY <2>1 DEF PlansInv
  <1>3. CASE PlanList!RemoveElsewhere
    <2>1. PICK r \in DOMAIN rows : PlanList!Removed(r) /\ steady' = steady \ {r}
      BY <1>3 DEF PlanList!RemoveElsewhere
    <2>2. UNCHANGED <<now, saving, planPage, planSeen>>
      BY <1>3 DEF PlanList!RemoveElsewhere
    <2> QED
      BY <1>1, <2>1, <2>2, RestKeepsPlans DEF PlansInv
  <1> QED
    BY <1>2, <1>3

LEMMA FirstPageKeepsPlans ==
  ASSUME PlanList!PlanPagesAssumption, PlansInv, PlanList!OpenList
  PROVE  PlansInv'
  <1> DEFINE p == PlanList!Page(None, now)
             M == PlanList!Matching(None, now)
  <1>1. /\ planPage' = p /\ planSeen' = p.items /\ steady' = {r \in DOMAIN rows : rows[r] <= now}
        /\ UNCHANGED <<now, rows, saving>>
    BY DEF PlanList!OpenList
  <1>2. M = steady'
    BY <1>1 DEF PlanList!Matching
  <1>3. /\ p.kind = "list" /\ p.boundary = now /\ p.items \in Seq(M)
        /\ \A m, n \in DOMAIN p.items : m < n => PlanList!Newer(p.items[m], p.items[n])
        /\ p.cursor = None => \A r \in M : \E n \in DOMAIN p.items : p.items[n] = r
        /\ p.cursor # None =>
             /\ p.cursor \in PlanCursors
             /\ \A r \in M :
                  PlanList!After(r, p.cursor) <=> \A n \in DOMAIN p.items : p.items[n] # r
    BY PageIsNext DEF PlansInv
  <1> HIDE DEF p, M
  <1>4. M \subseteq DOMAIN rows /\ DOMAIN rows \subseteq PlanRoutes
    BY <1>1, <1>2 DEF PlansInv, RowsOK
  <1>5. planSeen' \in Seq(PlanRoutes)
    BY <1>1, <1>3, <1>4
  <1>6. /\ \A r, s : PlanList!Newer(r, s)' <=> PlanList!Newer(r, s)
        /\ \A r, c : PlanList!After(r, c)' <=> PlanList!After(r, c)
    BY <1>1 DEF PlanList!Newer, PlanList!After
  <1>7. /\ planPage'.cursor = p.cursor /\ planPage'.boundary = now /\ planPage'.kind = "list"
        /\ planSeen' = p.items /\ steady' = M /\ \A r \in M : rows'[r] <= now
    BY <1>1, <1>2, <1>3
  <1>8. \A r \in M : (\A n \in DOMAIN planSeen' : planSeen'[n] # r) <=>
                       (p.cursor # None /\ PlanList!After(r, p.cursor))
    BY <1>3, <1>7
  <1>9. \A m, n \in DOMAIN planSeen' : m < n => PlanList!Newer(planSeen'[m], planSeen'[n])
    BY <1>3, <1>7
  <1>10. Listed(planPage.cursor, planPage.boundary)'
    BY <1>3, <1>5, <1>6, <1>7, <1>8, <1>9 DEF Listed
  <1>11. now' \in Nat /\ RowsOK' /\ saving' \in SUBSET PlanSaves /\ steady' \in SUBSET DOMAIN rows'
    BY <1>1 DEF PlansInv, RowsOK
  <1> QED
    BY <1>7, <1>10, <1>11 DEF PlansInv

\* The next page begins after the cursor, before which the pages so far ended.
LEMMA NextPageKeepsPlans ==
  ASSUME PlanList!PlanPagesAssumption, PlansInv, PlanList!OpenNext
  PROVE  PlansInv'
  <1> DEFINE c == planPage.cursor
             b == planPage.boundary
             p == PlanList!Page(c, b)
             M == PlanList!Matching(c, b)
  <1>1. /\ planPage.kind = "list" /\ c # None /\ Listed(c, b)
        /\ planPage' = p /\ planSeen' = planSeen \o p.items
        /\ UNCHANGED <<now, rows, saving, steady>>
    BY DEF PlanList!OpenNext, PlansInv
  <1>2. /\ p.kind = "list" /\ p.boundary = b /\ p.items \in Seq(M)
        /\ \A m, n \in DOMAIN p.items : m < n => PlanList!Newer(p.items[m], p.items[n])
        /\ p.cursor = None => \A r \in M : \E n \in DOMAIN p.items : p.items[n] = r
        /\ p.cursor # None =>
             /\ p.cursor \in PlanCursors /\ p.cursor.route \in M
             /\ p.cursor.at = rows[p.cursor.route]
             /\ \A r \in M :
                  PlanList!After(r, p.cursor) <=> \A n \in DOMAIN p.items : p.items[n] # r
    BY PageIsNext DEF PlansInv
  <1>3. M = {r \in DOMAIN rows : rows[r] <= b /\ PlanList!After(r, c)}
    BY <1>1 DEF PlanList!Matching
  <1>4. /\ DOMAIN rows \subseteq PlanRoutes /\ DOMAIN rows \subseteq Nat
        /\ \A r \in DOMAIN rows : rows[r] \in Nat
        /\ steady \subseteq DOMAIN rows /\ c \in PlanCursors
    BY <1>1 DEF PlansInv, RowsOK, Listed, PlanList!PlanPagesAssumption
  <1> HIDE DEF p, M, c, b
  <1>5. \A r \in steady : r \in M <=> PlanList!After(r, c)
    BY <1>1, <1>3, <1>4 DEF Listed
  <1>6. p.items \in Seq(PlanRoutes) /\ planSeen \in Seq(PlanRoutes)
    BY <1>1, <1>2, <1>3, <1>4 DEF Listed
  <1>7. /\ planSeen' \in Seq(PlanRoutes)
        /\ \A n \in DOMAIN planSeen : n \in DOMAIN planSeen' /\ planSeen'[n] = planSeen[n]
        /\ \A n \in DOMAIN p.items : /\ n + Len(planSeen) \in DOMAIN planSeen'
                                     /\ planSeen'[n + Len(planSeen)] = p.items[n]
        /\ \A n \in DOMAIN planSeen' :
             \/ n \in DOMAIN planSeen
             \/ /\ n - Len(planSeen) \in DOMAIN p.items /\ n > Len(planSeen)
                /\ planSeen'[n] = p.items[n - Len(planSeen)]
        /\ DOMAIN planSeen = 1..Len(planSeen) /\ Len(planSeen) \in Nat
        /\ DOMAIN planSeen' \subseteq Nat
    BY <1>1, <1>6
  <1>8. /\ \A r, s : PlanList!Newer(r, s)' <=> PlanList!Newer(r, s)
        /\ \A r, x : PlanList!After(r, x)' <=> PlanList!After(r, x)
    BY <1>1 DEF PlanList!Newer, PlanList!After
  <1>9. \A r \in DOMAIN rows : \A s \in M : ~PlanList!After(r, c) => PlanList!Newer(r, s)
    BY <1>3, <1>4 DEF PlanList!Newer, PlanList!After, PlanCursors
  <1>10. ASSUME NEW r \in steady
         PROVE  (\A n \in DOMAIN planSeen' : planSeen'[n] # r) <=>
                  (p.cursor # None /\ PlanList!After(r, p.cursor))
    <2>1. (\A n \in DOMAIN planSeen : planSeen[n] # r) <=> PlanList!After(r, c)
      BY <1>1 DEF Listed
    <2>2. (\A n \in DOMAIN planSeen' : planSeen'[n] # r) <=>
            /\ \A n \in DOMAIN planSeen : planSeen[n] # r
            /\ \A n \in DOMAIN p.items : p.items[n] # r
      BY <1>7
    <2>3. CASE PlanList!After(r, c)
      <3>1. r \in M
        BY <1>5, <2>3
      <3> QED
        BY <1>2, <2>1, <2>2, <2>3, <3>1
    <2>4. CASE ~PlanList!After(r, c)
      <3>1. ASSUME p.cursor # None
            PROVE  ~PlanList!After(r, p.cursor)
        <4>1. PlanList!Newer(r, p.cursor.route)
          BY <1>2, <1>4, <1>9, <2>4, <3>1
        <4>2. p.cursor.route \in Nat /\ rows[p.cursor.route] \in Nat /\ r \in Nat /\ rows[r] \in Nat
          BY <1>2, <1>3, <1>4, <3>1
        <4> QED
          BY <1>2, <3>1, <4>1, <4>2 DEF PlanList!Newer, PlanList!After
      <3> QED
        BY <2>1, <2>2, <2>4, <3>1
    <2> QED
      BY <2>3, <2>4
  <1>11. ASSUME NEW m \in DOMAIN planSeen', NEW n \in DOMAIN planSeen', m < n,
                planSeen'[m] \in steady, planSeen'[n] \in steady
         PROVE  PlanList!Newer(planSeen'[m], planSeen'[n])
    <2>1. CASE n \in DOMAIN planSeen
      <3>1. m \in DOMAIN planSeen
        BY <1>7, <1>11, <2>1
      <3> QED
        BY <1>1, <1>7, <1>11, <2>1, <3>1 DEF Listed
    <2>2. CASE n \notin DOMAIN planSeen /\ m \in DOMAIN planSeen
      <3>1. n - Len(planSeen) \in DOMAIN p.items /\ planSeen'[n] = p.items[n - Len(planSeen)]
        BY <1>7, <2>2
      <3>2. planSeen'[n] \in M
        BY <1>2, <3>1
      <3>3. planSeen'[m] = planSeen[m]
        BY <1>7, <2>2
      <3>4. ~PlanList!After(planSeen'[m], c)
        BY <1>1, <1>11, <2>2, <3>3 DEF Listed
      <3> QED
        BY <1>4, <1>9, <1>11, <3>2, <3>4
    <2>3. CASE n \notin DOMAIN planSeen /\ m \notin DOMAIN planSeen
      <3>1. /\ n - Len(planSeen) \in DOMAIN p.items /\ planSeen'[n] = p.items[n - Len(planSeen)]
            /\ m - Len(planSeen) \in DOMAIN p.items /\ planSeen'[m] = p.items[m - Len(planSeen)]
            /\ m - Len(planSeen) < n - Len(planSeen)
        BY <1>7, <1>11, <2>3
      <3> QED
        BY <1>2, <3>1
    <2> QED
      BY <2>1, <2>2, <2>3
  <1>12. planPage'.cursor = p.cursor /\ planPage'.boundary = b /\ planPage'.kind = "list"
    BY <1>1, <1>2
  <1>13. \A r \in steady' : rows'[r] <= b
    BY <1>1 DEF Listed
  <1>14. Listed(planPage.cursor, planPage.boundary)'
    BY <1>1, <1>2, <1>7, <1>8, <1>10, <1>11, <1>12, <1>13 DEF Listed
  <1>15. now' \in Nat /\ RowsOK' /\ saving' \in SUBSET PlanSaves /\ steady' \in SUBSET DOMAIN rows'
    BY <1>1 DEF PlansInv, RowsOK
  <1> QED
    BY <1>12, <1>14, <1>15 DEF PlansInv

\* Plans that are saved and removed in other windows while the list is paged: the last
\* page is reached when every plan that was there all the time has been seen once, the
\* newer before the older.
THEOREM ToursAreWhole ==
  ASSUME PlanList!PlanPagesAssumption
  PROVE  PlanList!Spec => []PlanList!TourIsWhole
  <1>1. PlanList!Init => PlansInv
    <2> SUFFICES ASSUME PlanList!Init
                 PROVE  PlansInv
      OBVIOUS
    <2>1. now = 1 /\ rows = <<>> /\ saving = {} /\ planPage.kind = "none" /\ steady = {}
      BY DEF PlanList!Init
    <2>2. RowsOK
      BY <2>1, FS_EmptySet DEF RowsOK
    <2> QED
      BY <2>1, <2>2 DEF PlansInv
  <1>2. PlansInv /\ [PlanList!Next]_(PlanList!vars) => PlansInv'
    <2> SUFFICES ASSUME PlansInv, [PlanList!Next]_(PlanList!vars)
                 PROVE  PlansInv'
      OBVIOUS
    <2>1. CASE UNCHANGED PlanList!vars
      BY <2>1, RestKeepsPlans DEF PlanList!vars, PlansInv, RowsOK
    <2>2. CASE PlanList!OpenPlan
      <3>1. planPage'.kind # "list" /\ steady' = {} /\ UNCHANGED <<now, rows, saving>>
        BY <2>2 DEF PlanList!OpenPlan
      <3> QED
        BY <3>1 DEF PlansInv, RowsOK
    <2> QED
      BY <2>1, <2>2, SaveKeepsPlans, RemovalKeepsPlans, FirstPageKeepsPlans, NextPageKeepsPlans
         DEF PlanList!Next
  <1>3. PlansInv => PlanList!TourIsWhole
    <2> SUFFICES ASSUME PlansInv, planPage.kind = "list", planPage.cursor = None
                 PROVE  PlanList!TourIsWhole
      BY DEF PlanList!TourIsWhole
    <2>1. Listed(planPage.cursor, planPage.boundary) /\ DOMAIN rows \subseteq Nat
          /\ \A r \in steady : r \in Nat /\ rows[r] \in Nat
      BY DEF PlansInv, RowsOK, PlanList!PlanPagesAssumption
    <2>2. \A s, t \in steady : ~(PlanList!Newer(s, t) /\ (PlanList!Newer(t, s) \/ s = t))
      BY <2>1 DEF PlanList!Newer
    <2>3. ASSUME NEW r \in steady
          PROVE  \E n \in DOMAIN planSeen : {m \in DOMAIN planSeen : planSeen[m] = r} = {n}
      <3>1. PICK n \in DOMAIN planSeen : planSeen[n] = r
        BY <2>1, <2>3 DEF Listed
      <3>2. ASSUME NEW m \in DOMAIN planSeen, planSeen[m] = r
            PROVE  m = n
        <4>1. m \in Nat /\ n \in Nat
          BY <2>1 DEF Listed
        <4> QED
          BY <2>1, <2>2, <2>3, <3>1, <3>2, <4>1 DEF Listed
      <3> QED
        BY <3>1, <3>2
    <2>4. ASSUME NEW m \in DOMAIN planSeen, NEW n \in DOMAIN planSeen, m < n,
                 planSeen[m] \in steady, planSeen[n] \in steady
          PROVE  rows[planSeen[m]] >= rows[planSeen[n]]
      <3>1. PlanList!Newer(planSeen[m], planSeen[n])
        BY <2>1, <2>4 DEF Listed
      <3> QED
        BY <2>1, <2>4, <3>1 DEF PlanList!Newer
    <2> QED
      BY <2>3, <2>4 DEF PlanList!TourIsWhole
  <1> QED
    BY <1>1, <1>2, <1>3, PTL DEF PlanList!Spec

-----------------------------------------------------------------------------
(* The page of a job and the plans that a user keeps. *)

\* Whatever is polled, chosen, saved, removed and listed at the same time, and
\* whichever answers are late, overtaken or lost, the page of a job and the list of
\* plans agree with the server.
THEOREM JobPageStaysTrue ==
  ASSUME PlanList!PlanPagesAssumption
  PROVE  View!Spec /\ Saves!Spec /\ PlanList!Spec => []JobPageAgrees
  <1>1. (View!ResultIsFinal /\ View!PageIsWatched) /\ Saves!SavedAgrees /\ PlanList!TourIsWhole
          => JobPageAgrees
    BY DEF JobPageAgrees
  <1> QED
    BY <1>1, ShownResultIsFinal, SavedIsShown, ToursAreWhole, PTL

-----------------------------------------------------------------------------
(* The tree of a route. *)

\* The card of a pal that no step makes belongs to its place in a step.
IsOwn(id, i, side) ==
  id[1] \in {"inventory", "missing"} /\ id = <<id[1], i, side, id[4]>>

EntityOfId(id) == IF id[1] = "inventory" THEN <<"inventory", None, None, id[4]>> ELSE id

CardFor(id, layer, i, role) ==
  [id |-> id, entity |-> EntityOfId(id), layer |-> layer, step |-> i, role |-> role]

IsCardOf(o, s) ==
  \/ o = CardFor(Tree!ChildId(s.index), s.generation, s.index, "child")
  \/ IsOwn(s.a, s.index, "a") /\ o = CardFor(s.a, s.generation - 1, s.index, "a")
  \/ IsOwn(s.b, s.index, "b") /\ o = CardFor(s.b, s.generation - 1, s.index, "b")

IsEarlier(id, s) ==
  \E r \in steps : id = Tree!ChildId(r.index) /\ r.index < s.index /\ r.generation < s.generation

\* The steps have indexes of their own, and a parent that is made by a step is
\* made by an earlier one of an earlier generation.
StepsOK ==
  /\ IsFiniteSet(steps) /\ last \in Int
  /\ \A s \in steps :
       /\ s.index \in Indexes /\ s.index <= last
       /\ s.generation \in Nat \ {0} /\ generation[s.index] = s.generation
       /\ IsOwn(s.a, s.index, "a") \/ IsEarlier(s.a, s)
       /\ IsOwn(s.b, s.index, "b") \/ IsEarlier(s.b, s)
  /\ \A s, r \in steps : s.index = r.index => s = r
  /\ DOMAIN generation = {s.index : s \in steps}
  /\ IF steps = {} THEN last = -1 ELSE \E s \in steps : s.index = last

\* The cards are those of the steps, and so are the arrows.
CardsOK ==
  /\ IsFiniteSet(occurrences)
  /\ \A o : o \in occurrences <=> \E s \in steps : IsCardOf(o, s)
  /\ \A e \in edges : \E s \in steps : e.from \in {s.a, s.b} /\ e.to = Tree!ChildId(s.index)

\* What a pal is, and which one the target is.
KindOK(e) ==
  IF e.id[1] # "child" THEN e.kind \in {"inventory", "missing"} /\ e.target = FALSE
  ELSE IF state = "built" /\ e.id = Tree!ChildId(last) THEN e.kind = "target" /\ e.target = TRUE
  ELSE e.kind = "intermediate" /\ e.target = FALSE

\* Pals have identifiers of their own, and those that steps make are of the generation
\* of the step.
EntitiesOK ==
  /\ \A e, f \in entities : e.id = f.id => e = f
  /\ \A e \in entities :
       /\ e = [id |-> e.id, kind |-> e.kind, pal |-> e.pal, generation |-> e.generation,
               target |-> e.target]
       /\ e.id[1] = "child" =>
            \E s \in steps : e.id = Tree!ChildId(s.index) /\ e.generation = s.generation
       /\ e.id[1] = "missing" => \E s \in steps : e.id[2] = s.index

\* Each card has a pal, and it is of the species that is named.
PalsOK ==
  /\ EntitiesOK
  /\ \A o \in occurrences : \E e \in entities : e.id = o.entity
  /\ \A n \in named : /\ \E o \in occurrences : o.id = n[1]
                      /\ \E e \in entities : e.id = EntityOfId(n[1]) /\ e.pal = n[2]
  /\ steps = {} => entities = {}

TreeInv ==
  /\ state \in {"building", "built", "refused"}
  /\ \/ StepsOK /\ CardsOK /\ PalsOK /\ \A e \in entities : KindOK(e)
     \/ /\ state = "built" /\ steps = {} /\ edges = {} /\ named = {}
        /\ \E o : occurrences = {o} /\ o.layer = 0

LEMMA TreeCardinality ==
  ASSUME NEW M
  PROVE  Tree!Cardinality(M) = Cardinality(M)
BY DEF Cardinality, Tree!Cardinality

LEMMA MaxOf ==
  ASSUME NEW M \in SUBSET Int, IsFiniteSet(M), M # {}
  PROVE  Tree!Max(M) \in M /\ \A x \in M : x <= Tree!Max(M)
  <1> DEFINE R == {p \in M \X M : p[1] < p[2]}
  <1>1. \A x, y \in M : <<x, y>> \in R <=> x < y
    OBVIOUS
  <1> HIDE DEF R
  <1>7. /\ \A r \in M : <<r, r>> \notin R
        /\ \A r, s, t \in M : <<r, s>> \in R /\ <<s, t>> \in R => <<r, t>> \in R
        /\ \A r, s \in M : r = s \/ <<r, s>> \in R \/ <<s, r>> \in R
    BY <1>1
  <1>2. /\ Cardinality(M) \in Nat
        /\ \A x \in M : Rank(M, R, x) \in 0..(Cardinality(M) - 1)
        /\ \A x, y \in M : <<x, y>> \in R <=> Rank(M, R, x) < Rank(M, R, y)
        /\ \A n \in 0..(Cardinality(M) - 1) : \E x \in M : Rank(M, R, x) = n
    BY <1>7, Ranked
  <1>3. Cardinality(M) - 1 \in 0..(Cardinality(M) - 1)
    <2>1. PICK x \in M : TRUE
      OBVIOUS
    <2>2. Rank(M, R, x) \in 0..(Cardinality(M) - 1)
      BY <1>2
    <2> QED
      BY <1>2, <2>2
  <1>4. PICK m \in M : Rank(M, R, m) = Cardinality(M) - 1
    BY <1>2, <1>3
  <1>5. ASSUME NEW x \in M
        PROVE  x <= m
    <2>1. ~(Rank(M, R, m) < Rank(M, R, x))
      BY <1>2, <1>4
    <2>2. ~(m < x)
      BY <1>1, <1>2, <2>1
    <2> QED
      BY <2>2
  <1>6. Tree!Max(M) \in M /\ \A x \in M : Tree!Max(M) >= x
    BY <1>4, <1>5 DEF Tree!Max
  <1> QED
    BY <1>6

LEMMA StepsAreNumbered ==
  ASSUME Tree!TreeAssumption, StepsOK
  PROVE  /\ last \in Int
         /\ \A i \in Indexes : i \in Nat
         /\ \A s \in steps : s.index \in Nat /\ s.index <= last /\ s.generation \in Nat \ {0}
  <1>1. last \in Int /\ \A s \in steps : s.index \in Indexes /\ s.index <= last
    BY DEF StepsOK
  <1>2. \A s \in steps : s.generation \in Nat \ {0}
    BY DEF StepsOK
  <1> QED
    BY <1>1, <1>2 DEF Tree!TreeAssumption

\* A step that does not state its generation is of the one after its parents'.
LEMMA GenerationIsPositive ==
  ASSUME Tree!TreeAssumption, StepsOK, NEW stated \in StatedGenerations, NEW a, NEW b,
         ~Tree!Dangling(a, b)
  PROVE  Tree!ResolvedGeneration(stated, a, b) \in Nat \ {0}
  <1>1. CASE stated # None
    BY <1>1 DEF Tree!TreeAssumption, Tree!ResolvedGeneration
  <1>2. CASE stated = None
    <2> DEFINE earlier == {p \in {a, b} : p.source = "intermediate"}
               M == {0} \cup {generation[p.producedBy] : p \in earlier}
    <2>1. M \subseteq {0, generation[a.producedBy], generation[b.producedBy]} /\ M # {}
      OBVIOUS
    <2>2. IsFiniteSet({0, generation[a.producedBy], generation[b.producedBy]})
      <3>1. IsFiniteSet({0})
        BY FS_Singleton
      <3>2. IsFiniteSet({0} \cup {generation[a.producedBy]})
        BY <3>1, FS_AddElement
      <3>3. IsFiniteSet(({0} \cup {generation[a.producedBy]}) \cup {generation[b.producedBy]})
        BY <3>2, FS_AddElement
      <3>4. {0, generation[a.producedBy], generation[b.producedBy]} =
              ({0} \cup {generation[a.producedBy]}) \cup {generation[b.producedBy]}
        OBVIOUS
      <3> QED
        BY <3>3, <3>4
    <2>3. M \in SUBSET Nat
      BY DEF Tree!Dangling, StepsOK
    <2>4. IsFiniteSet(M)
      BY <2>1, <2>2, FS_Subset
    <2> HIDE DEF M
    <2>6. M \in SUBSET Int
      BY <2>3
    <2>5. Tree!Max(M) \in Nat
      BY <2>1, <2>3, <2>4, <2>6, MaxOf
    <2> QED
      BY <1>2, <2>5 DEF Tree!ResolvedGeneration, M
  <1> QED
    BY <1>1, <1>2

LEMMA LayerOfParents ==
  ASSUME NEW g \in Nat \ {0}
  PROVE  Tree!ParentLayer(g) = g - 1
  <1>1. Tree!Max({0, g - 1}) = g - 1
    BY DEF Tree!Max
  <1> QED
    BY <1>1 DEF Tree!ParentLayer

\* What a parent adds to the tree.
NewPal(parent, id, g) ==
  [id |-> EntityOfId(id), kind |-> parent.source, pal |-> parent.pal, generation |-> g - 1,
   target |-> FALSE]

LEMMA ParentJoins ==
  ASSUME Tree!TreeAssumption, StepsOK, PalsOK, NEW parent \in Parents,
         NEW index \in Indexes, index > last, NEW g \in Nat \ {0}, NEW side \in {"a", "b"},
         Tree!ParentIsValid(parent, index, g, side),
         parent.source = "intermediate" => parent.producedBy \in DOMAIN generation
  PROVE  LET id == Tree!OccurrenceId(parent, index, side)
             new == Tree!NewEntities(parent, index, g, side)
         IN /\ IF parent.source = "intermediate"
               THEN \E r \in steps :
                      id = Tree!ChildId(r.index) /\ r.index < index /\ r.generation < g
               ELSE /\ IsOwn(id, index, side) /\ id[1] = parent.source
                    /\ parent.source = "inventory" => id[4] = parent.uid
            /\ Tree!NewOccurrences(parent, index, g, side) =
                 IF parent.source = "intermediate" THEN {} ELSE {CardFor(id, g - 1, index, side)}
            /\ \A e \in new : /\ parent.source # "intermediate" /\ e = NewPal(parent, id, g)
                              /\ \A f \in entities : f.id # e.id
            /\ IsFiniteSet(Tree!NewOccurrences(parent, index, g, side))
            /\ \E e \in entities \cup new : e.id = EntityOfId(id) /\ e.pal = parent.pal
  <1> DEFINE id == Tree!OccurrenceId(parent, index, side)
             new == Tree!NewEntities(parent, index, g, side)
             cards == Tree!NewOccurrences(parent, index, g, side)
  <1>1. CASE parent.source = "intermediate"
    <2>1. id = Tree!ChildId(parent.producedBy) /\ EntityOfId(id) = id
      BY <1>1 DEF Tree!OccurrenceId, Tree!EntityId, Tree!ChildId, EntityOfId
    <2>2. PICK e \in entities : e.id = id /\ e.pal = parent.pal /\ e.generation < g
      BY <1>1, <2>1 DEF Tree!ParentIsValid, Tree!Produced
    <2>3. id[1] = "child"
      BY <2>1 DEF Tree!ChildId
    <2>4. PICK r \in steps : e.id = Tree!ChildId(r.index) /\ e.generation = r.generation
      BY <2>2, <2>3 DEF PalsOK, EntitiesOK
    <2>5. r.index < index
      <3>1. r.index \in Nat /\ r.index <= last /\ last \in Int /\ index \in Nat
        BY <2>4, StepsAreNumbered
      <3> QED
        BY <3>1
    <2>6. cards = {} /\ new = {}
      BY <1>1 DEF Tree!NewOccurrences, Tree!NewEntities
    <2> QED
      BY <1>1, <2>1, <2>2, <2>4, <2>5, <2>6, FS_EmptySet
  <1>2. CASE parent.source # "intermediate"
    <2>1. parent.source \in {"inventory", "missing"}
      BY <1>2 DEF Tree!TreeAssumption
    <2>2. /\ IsOwn(id, index, side) /\ id[1] = parent.source
          /\ Tree!EntityId(parent, index, side) = EntityOfId(id)
          /\ parent.source = "inventory" => id[4] = parent.uid
      <3>1. CASE parent.source = "inventory"
        <4>1. id = <<"inventory", index, side, parent.uid>>
          BY <3>1 DEF Tree!OccurrenceId
        <4>2. Tree!EntityId(parent, index, side) = <<"inventory", None, None, parent.uid>>
          BY <3>1 DEF Tree!EntityId
        <4> QED
          BY <3>1, <4>1, <4>2 DEF IsOwn, EntityOfId
      <3>2. CASE parent.source = "missing"
        <4>1. id = <<"missing", index, side, None>>
          BY <3>2 DEF Tree!OccurrenceId, Tree!EntityId
        <4>2. Tree!EntityId(parent, index, side) = <<"missing", index, side, None>>
          BY <3>2 DEF Tree!EntityId
        <4> QED
          BY <3>2, <4>1, <4>2 DEF IsOwn, EntityOfId
      <3> QED
        BY <2>1, <3>1, <3>2
    <2>3. cards = {CardFor(id, g - 1, index, side)} /\ IsFiniteSet(cards)
      <3>1. cards = {CardFor(id, g - 1, index, side)}
        BY <1>2, <2>2, LayerOfParents DEF Tree!NewOccurrences, CardFor
      <3>2. IsFiniteSet({CardFor(id, g - 1, index, side)})
        BY FS_Singleton
      <3> QED
        BY <3>1, <3>2
    <2>4. new = IF \E e \in entities : e.id = EntityOfId(id) THEN {} ELSE {NewPal(parent, id, g)}
      BY <1>2, <2>2, LayerOfParents DEF Tree!NewEntities, NewPal
    <2>5. \A e \in new : e = NewPal(parent, id, g) /\ \A f \in entities : f.id # e.id
      BY <2>4 DEF NewPal
    <2>6. \E e \in entities \cup new : e.id = EntityOfId(id) /\ e.pal = parent.pal
      <3>1. CASE \E e \in entities : e.id = EntityOfId(id)
        <4>1. PICK e \in entities : e.id = EntityOfId(id)
          BY <3>1
        <4>2. CASE parent.source = "inventory"
          BY <2>2, <4>1, <4>2 DEF Tree!ParentIsValid
        <4>3. CASE parent.source = "missing"
          <5>1. e.id[1] = "missing" /\ e.id[2] = index
            BY <2>2, <4>1, <4>3 DEF IsOwn, EntityOfId
          <5> QED
            BY <5>1 DEF PalsOK, EntitiesOK, StepsOK, Tree!TreeAssumption
        <4> QED
          BY <2>1, <4>2, <4>3
      <3>2. CASE ~\E e \in entities : e.id = EntityOfId(id)
        <4>1. NewPal(parent, id, g).id = EntityOfId(id) /\ NewPal(parent, id, g).pal = parent.pal
          BY DEF NewPal
        <4>2. NewPal(parent, id, g) \in new
          BY <2>4, <3>2
        <4> QED
          BY <4>1, <4>2
      <3> QED
        BY <3>1, <3>2
    <2> QED
      BY <1>2, <2>2, <2>3, <2>5, <2>6
  <1> QED
    BY <1>1, <1>2

\* The steps with the next one.
Joined(a, b, index, g) == [index |-> index, generation |-> g, a |-> a, b |-> b]

LEMMA ChildIdsDiffer ==
  ASSUME NEW i, NEW j, NEW side, NEW id
  PROVE  /\ Tree!ChildId(i) = Tree!ChildId(j) <=> i = j
         /\ Tree!ChildId(i)[1] = "child"
         /\ EntityOfId(Tree!ChildId(i)) = Tree!ChildId(i)
         /\ IsOwn(id, i, side) =>
              id[1] # "child" /\ EntityOfId(id)[1] # "child" /\ id[2] = i /\ id[3] = side
BY DEF Tree!ChildId, EntityOfId, IsOwn

LEMMA StepsGrow ==
  ASSUME Tree!TreeAssumption, StepsOK, NEW index \in Indexes, index > last, NEW g \in Nat \ {0},
         NEW a, NEW b,
         \/ IsOwn(a, index, "a")
         \/ \E r \in steps : a = Tree!ChildId(r.index) /\ r.index < index /\ r.generation < g,
         \/ IsOwn(b, index, "b")
         \/ \E r \in steps : b = Tree!ChildId(r.index) /\ r.index < index /\ r.generation < g,
         last' = index, steps' = steps \cup {Joined(a, b, index, g)},
         generation' = [i \in DOMAIN generation \cup {index} |->
                          IF i = index THEN g ELSE generation[i]]
  PROVE  StepsOK'
  <1> DEFINE new == Joined(a, b, index, g)
  <1>1. /\ index \in Nat /\ last \in Int
        /\ \A s \in steps : s.index \in Nat /\ s.index <= last /\ s.index < index /\ s.index # index
    <2>1. /\ index \in Nat /\ last \in Int
          /\ \A s \in steps : s.index \in Nat /\ s.index <= last
      BY StepsAreNumbered
    <2> QED
      BY <2>1
  <1>2. new.index = index /\ new.generation = g /\ new.a = a /\ new.b = b
    BY DEF Joined
  <1> HIDE DEF new
  <1>3. steps' = steps \cup {new}
    BY DEF new
  <1>4. IsFiniteSet(steps')
    BY <1>3, FS_AddElement DEF StepsOK
  <1>5. DOMAIN generation = {s.index : s \in steps}
    BY DEF StepsOK
  <1>6. DOMAIN generation' = {s.index : s \in steps'}
    BY <1>2, <1>3, <1>5
  <1>7. \A s \in steps : \A id : IsEarlier(id, s) => IsEarlier(id, s)'
    BY <1>3 DEF IsEarlier
  <1>8. ASSUME NEW s \in steps
        PROVE  /\ s.index \in Indexes /\ s.index <= index /\ s.generation \in Nat \ {0}
               /\ generation'[s.index] = s.generation
               /\ IsOwn(s.a, s.index, "a") \/ IsEarlier(s.a, s)'
               /\ IsOwn(s.b, s.index, "b") \/ IsEarlier(s.b, s)'
    <2>1. /\ s.index \in Indexes /\ s.generation \in Nat \ {0} /\ generation[s.index] = s.generation
          /\ IsOwn(s.a, s.index, "a") \/ IsEarlier(s.a, s)
          /\ IsOwn(s.b, s.index, "b") \/ IsEarlier(s.b, s)
      BY DEF StepsOK
    <2>2. generation'[s.index] = generation[s.index]
      BY <1>1, <1>5
    <2>3. s.index <= index
      BY <1>1
    <2> QED
      BY <1>7, <2>1, <2>2, <2>3
  <1>9. /\ generation'[index] = g /\ index <= index
        /\ IsOwn(a, index, "a") \/ IsEarlier(a, new)'
        /\ IsOwn(b, index, "b") \/ IsEarlier(b, new)'
    BY <1>1, <1>2, <1>3 DEF IsEarlier
  <1>10. \A s, r \in steps' : s.index = r.index => s = r
    BY <1>1, <1>2, <1>3 DEF StepsOK
  <1>11. \A s \in steps' :
           /\ s.index \in Indexes /\ s.index <= last'
           /\ s.generation \in Nat \ {0} /\ generation'[s.index] = s.generation
           /\ IsOwn(s.a, s.index, "a") \/ IsEarlier(s.a, s)'
           /\ IsOwn(s.b, s.index, "b") \/ IsEarlier(s.b, s)'
    BY <1>2, <1>3, <1>8, <1>9
  <1>12. steps' # {} /\ \E s \in steps' : s.index = last'
    BY <1>2, <1>3
  <1> QED
    BY <1>1, <1>4, <1>6, <1>10, <1>11, <1>12 DEF StepsOK

\* The card of a parent, if no step makes it.
OwnCards(id, index, g, side) ==
  IF IsOwn(id, index, side) THEN {CardFor(id, g - 1, index, side)} ELSE {}

LEMMA CardsGrow ==
  ASSUME CardsOK, NEW index, NEW g, NEW a, NEW b,
         steps' = steps \cup {Joined(a, b, index, g)},
         occurrences' = occurrences \cup OwnCards(a, index, g, "a") \cup OwnCards(b, index, g, "b")
                          \cup {CardFor(Tree!ChildId(index), g, index, "child")},
         \A e \in edges' : e \in edges \/ (e.from \in {a, b} /\ e.to = Tree!ChildId(index))
  PROVE  CardsOK'
  <1> DEFINE new == Joined(a, b, index, g)
             child == CardFor(Tree!ChildId(index), g, index, "child")
  <1>1. new.index = index /\ new.generation = g /\ new.a = a /\ new.b = b
    BY DEF Joined
  <1> HIDE DEF new
  <1>2. steps' = steps \cup {new}
    BY DEF new
  <1>3. IsFiniteSet(occurrences')
    <2>1. IsFiniteSet(OwnCards(a, index, g, "a")) /\ IsFiniteSet(OwnCards(b, index, g, "b"))
      BY FS_EmptySet, FS_Singleton DEF OwnCards
    <2>2. IsFiniteSet(occurrences \cup OwnCards(a, index, g, "a") \cup OwnCards(b, index, g, "b"))
      BY <2>1, FS_Union DEF CardsOK
    <2> QED
      BY <2>2, FS_AddElement
  <1>4. ASSUME NEW o
        PROVE  o \in occurrences' <=> \E s \in steps' : IsCardOf(o, s)
    <2>1. IsCardOf(o, new) <=>
            o \in OwnCards(a, index, g, "a") \cup OwnCards(b, index, g, "b") \cup {child}
      BY <1>1 DEF IsCardOf, OwnCards
    <2>2. o \in occurrences <=> \E s \in steps : IsCardOf(o, s)
      BY DEF CardsOK
    <2> QED
      BY <1>2, <2>1, <2>2
  <1>5. ASSUME NEW e \in edges'
        PROVE  \E s \in steps' : e.from \in {s.a, s.b} /\ e.to = Tree!ChildId(s.index)
    BY <1>1, <1>2 DEF CardsOK
  <1> QED
    BY <1>3, <1>4, <1>5 DEF CardsOK

\* The pal that a parent adds is a new one, and of the parent's place.
Adds(new, parent, id, index, g, side) ==
  \A e \in new :
    /\ e = NewPal(parent, id, g) /\ \A f \in entities : f.id # e.id
    /\ IsOwn(id, index, side) /\ id[1] = parent.source
    /\ parent.source = "inventory" => id[4] = parent.uid

\* Pals that are added by the parents and the child of a step are new ones, and the
\* parents agree if they are one pal.
LEMMA PalsGrow ==
  ASSUME Tree!TreeAssumption, StepsOK, EntitiesOK, \A e \in entities : KindOK(e),
         state = "building", state' = state,
         NEW index \in Indexes, index > last, NEW g \in Nat \ {0},
         NEW a, NEW b, NEW pa, NEW pb, NEW child, NEW newA, NEW newB,
         Tree!SameSpecies(pa, pb),
         Adds(newA, pa, a, index, g, "a"), Adds(newB, pb, b, index, g, "b"),
         steps' = steps \cup {Joined(a, b, index, g)},
         entities' = entities \cup newA \cup newB \cup {Tree!ChildEntity(child, index, g)}
  PROVE  EntitiesOK' /\ \A e \in entities' : KindOK(e)'
  <1> DEFINE new == Joined(a, b, index, g)
             c == Tree!ChildEntity(child, index, g)
  <1>1. /\ index \in Nat /\ \A s \in steps : s.index # index
    BY StepsAreNumbered
  <1>2. /\ c.id = Tree!ChildId(index) /\ c.id[1] = "child" /\ c.generation = g
        /\ c.kind = "intermediate" /\ c.target = FALSE
        /\ c = [id |-> c.id, kind |-> c.kind, pal |-> c.pal, generation |-> c.generation,
                target |-> c.target]
    BY DEF Tree!ChildEntity, Tree!ChildId
  <1>3. new.index = index /\ new.generation = g /\ new \in steps'
    BY DEF Joined
  <1>4. \A e \in entities : e.id # c.id
    BY <1>1, <1>2, ChildIdsDiffer DEF EntitiesOK
  <1>5. ASSUME NEW e \in newA \cup newB
        PROVE  /\ e.id[1] # "child" /\ e.id[1] \in {"inventory", "missing"} /\ e.kind = e.id[1]
               /\ e.target = FALSE
               /\ e.id[1] = "missing" => e.id[2] = index
               /\ e = [id |-> e.id, kind |-> e.kind, pal |-> e.pal, generation |-> e.generation,
                       target |-> e.target]
    BY DEF Adds, NewPal, EntityOfId, IsOwn
  <1>6. \A e \in newA, f \in newB : e.id = f.id => e = f
    <2> SUFFICES ASSUME NEW e \in newA, NEW f \in newB, e.id = f.id
                 PROVE  e = f
      OBVIOUS
    <2>1. /\ e = NewPal(pa, a, g) /\ f = NewPal(pb, b, g) /\ EntityOfId(a) = EntityOfId(b)
          /\ IsOwn(a, index, "a") /\ a[1] = pa.source /\ IsOwn(b, index, "b") /\ b[1] = pb.source
          /\ pa.source = "inventory" => a[4] = pa.uid
          /\ pb.source = "inventory" => b[4] = pb.uid
      BY DEF Adds, NewPal
    <2>2. a[1] = "inventory" /\ b[1] = "inventory" /\ a[4] = b[4]
      BY <2>1 DEF EntityOfId, IsOwn
    <2>3. pa.pal = pb.pal /\ pa.source = pb.source
      BY <2>1, <2>2 DEF Tree!SameSpecies
    <2> QED
      BY <2>1, <2>3 DEF NewPal
  <1> HIDE DEF c, new
  <1>7. entities' = entities \cup newA \cup newB \cup {c}
    BY DEF c
  <1>8. \A e \in newA \cup newB : \A f \in entities : f.id # e.id
    BY DEF Adds
  <1>9. \A e \in newA \cup newB : e.id # c.id
    BY <1>2, <1>5
  <1>10. \A e, f \in newA \cup newB : e.id = f.id => e = f
    BY <1>6 DEF Adds
  <1>11. \A e, f \in entities : e.id = f.id => e = f
    BY DEF EntitiesOK
  <1>12. \A e, f \in entities' : e.id = f.id => e = f
    BY <1>4, <1>7, <1>8, <1>9, <1>10, <1>11
  <1>13. ASSUME NEW e \in entities'
         PROVE  /\ e = [id |-> e.id, kind |-> e.kind, pal |-> e.pal, generation |-> e.generation,
                        target |-> e.target]
                /\ e.id[1] = "child" =>
                     \E s \in steps' : e.id = Tree!ChildId(s.index) /\ e.generation = s.generation
                /\ e.id[1] = "missing" => \E s \in steps' : e.id[2] = s.index
                /\ KindOK(e)'
    <2>1. CASE e \in entities
      BY <2>1 DEF EntitiesOK, KindOK
    <2>2. CASE e \in newA \cup newB
      <3>1. e.id[1] # "child" /\ e.kind \in {"inventory", "missing"} /\ e.target = FALSE
        BY <1>5, <2>2
      <3>2. KindOK(e)'
        BY <3>1 DEF KindOK
      <3> QED
        BY <1>3, <1>5, <2>2, <3>2
    <2>3. CASE e = c
      BY <1>2, <1>3, <2>3 DEF KindOK
    <2> QED
      BY <1>7, <2>1, <2>2, <2>3
  <1> QED
    BY <1>12, <1>13 DEF EntitiesOK

\* What is named has a card and a pal of the species that is named.
LEMMA NamesGrow ==
  ASSUME PalsOK, CardsOK', NEW index, NEW g, NEW a, NEW b, NEW pa, NEW pb, NEW child,
         entities \subseteq entities', occurrences \subseteq occurrences', steps \subseteq steps',
         Joined(a, b, index, g) \in steps',
         IsOwn(a, index, "a") \/ \E r \in steps : a = Tree!ChildId(r.index),
         IsOwn(b, index, "b") \/ \E r \in steps : b = Tree!ChildId(r.index),
         \E e \in entities' : e.id = EntityOfId(a) /\ e.pal = pa.pal,
         \E e \in entities' : e.id = EntityOfId(b) /\ e.pal = pb.pal,
         Tree!ChildEntity(child, index, g) \in entities',
         named' = named \cup {<<a, pa.pal>>, <<b, pb.pal>>, <<Tree!ChildId(index), child>>}
  PROVE  \A n \in named' : /\ \E o \in occurrences' : o.id = n[1]
                           /\ \E e \in entities' : e.id = EntityOfId(n[1]) /\ e.pal = n[2]
  <1> DEFINE new == Joined(a, b, index, g)
             c == Tree!ChildEntity(child, index, g)
  <1>1. new.index = index /\ new.generation = g /\ new.a = a /\ new.b = b
    BY DEF Joined
  <1>2. c.id = Tree!ChildId(index) /\ c.pal = child /\ EntityOfId(Tree!ChildId(index)) = c.id
    BY ChildIdsDiffer DEF Tree!ChildEntity
  <1> HIDE DEF c, new
  <1>3. new \in steps' /\ c \in entities'
    BY DEF c, new
  <1>4. \A s \in steps' :
          CardFor(Tree!ChildId(s.index), s.generation, s.index, "child") \in occurrences'
    BY DEF CardsOK, IsCardOf
  <1>5. \A s \in steps' : \E o \in occurrences' : o.id = Tree!ChildId(s.index)
    BY <1>4 DEF CardFor
  <1>6. IsOwn(a, index, "a") => \E o \in occurrences' : o.id = a
    <2>1. IsOwn(a, index, "a") => CardFor(a, g - 1, index, "a") \in occurrences'
      BY <1>1, <1>3 DEF CardsOK, IsCardOf
    <2> QED
      BY <2>1 DEF CardFor
  <1>7. IsOwn(b, index, "b") => \E o \in occurrences' : o.id = b
    <2>1. IsOwn(b, index, "b") => CardFor(b, g - 1, index, "b") \in occurrences'
      BY <1>1, <1>3 DEF CardsOK, IsCardOf
    <2> QED
      BY <2>1 DEF CardFor
  <1>8. \A id \in {a, b, Tree!ChildId(index)} : \E o \in occurrences' : o.id = id
    BY <1>1, <1>3, <1>5, <1>6, <1>7
  <1>9. ASSUME NEW n \in named'
        PROVE  /\ \E o \in occurrences' : o.id = n[1]
               /\ \E e \in entities' : e.id = EntityOfId(n[1]) /\ e.pal = n[2]
    <2>1. CASE n \in named
      BY <2>1 DEF PalsOK
    <2>2. CASE n \in {<<a, pa.pal>>, <<b, pb.pal>>, <<Tree!ChildId(index), child>>}
      BY <1>2, <1>3, <1>8, <2>2
    <2> QED
      BY <2>1, <2>2
  <1> QED
    BY <1>9

LEMMA AddStepKeepsTree ==
  ASSUME Tree!TreeAssumption, StepsOK, CardsOK, PalsOK, \A e \in entities : KindOK(e),
         NEW index \in Indexes, NEW stated \in StatedGenerations,
         NEW pa \in Parents, NEW pb \in Parents, NEW child \in Children,
         Tree!AddStep(index, stated, pa, pb, child)
  PROVE  TreeInv'
  <1> DEFINE g == Tree!ResolvedGeneration(stated, pa, pb)
             a == Tree!OccurrenceId(pa, index, "a")
             b == Tree!OccurrenceId(pb, index, "b")
             newA == Tree!NewEntities(pa, index, g, "a")
             newB == Tree!NewEntities(pb, index, g, "b")
             cardsA == Tree!NewOccurrences(pa, index, g, "a")
             cardsB == Tree!NewOccurrences(pb, index, g, "b")
             c == Tree!ChildEntity(child, index, g)
  <1>1. /\ ~Tree!Dangling(pa, pb) /\ state = "building" /\ state' = state
        /\ index >= last /\ index # last /\ Tree!SameSpecies(pa, pb)
        /\ Tree!ParentIsValid(pa, index, g, "a") /\ Tree!ParentIsValid(pb, index, g, "b")
    BY DEF Tree!AddStep
  <1>2. /\ last' = index
        /\ generation' = [i \in DOMAIN generation \cup {index} |->
                            IF i = index THEN g ELSE generation[i]]
        /\ steps' = steps \cup {Joined(a, b, index, g)}
        /\ entities' = entities \cup newA \cup newB \cup {c}
        /\ occurrences' = occurrences \cup cardsA \cup cardsB \cup {Tree!ChildOccurrence(index, g)}
        /\ edges' = edges \cup {Tree!EdgeFor(pa, index, "a"), Tree!EdgeFor(pb, index, "b")}
        /\ named' = named \cup {<<a, pa.pal>>, <<b, pb.pal>>, <<Tree!ChildId(index), child>>}
    BY DEF Tree!AddStep, Joined
  <1>3. g \in Nat \ {0}
    BY <1>1, GenerationIsPositive
  <1>4. index > last
    <2>1. index \in Nat /\ last \in Int
      BY StepsAreNumbered
    <2> QED
      BY <1>1, <2>1
  <1>5. /\ pa.source = "intermediate" => pa.producedBy \in DOMAIN generation
        /\ pb.source = "intermediate" => pb.producedBy \in DOMAIN generation
    BY <1>1 DEF Tree!Dangling
  <1> HIDE DEF g
  <1>6. /\ IF pa.source = "intermediate"
           THEN \E r \in steps : a = Tree!ChildId(r.index) /\ r.index < index /\ r.generation < g
           ELSE /\ IsOwn(a, index, "a") /\ a[1] = pa.source
                /\ pa.source = "inventory" => a[4] = pa.uid
        /\ cardsA = IF pa.source = "intermediate" THEN {} ELSE {CardFor(a, g - 1, index, "a")}
        /\ \A e \in newA : /\ pa.source # "intermediate" /\ e = NewPal(pa, a, g)
                           /\ \A f \in entities : f.id # e.id
        /\ \E e \in entities \cup newA : e.id = EntityOfId(a) /\ e.pal = pa.pal
    BY <1>1, <1>3, <1>4, <1>5, ParentJoins
  <1>7. /\ IF pb.source = "intermediate"
           THEN \E r \in steps : b = Tree!ChildId(r.index) /\ r.index < index /\ r.generation < g
           ELSE /\ IsOwn(b, index, "b") /\ b[1] = pb.source
                /\ pb.source = "inventory" => b[4] = pb.uid
        /\ cardsB = IF pb.source = "intermediate" THEN {} ELSE {CardFor(b, g - 1, index, "b")}
        /\ \A e \in newB : /\ pb.source # "intermediate" /\ e = NewPal(pb, b, g)
                           /\ \A f \in entities : f.id # e.id
        /\ \E e \in entities \cup newB : e.id = EntityOfId(b) /\ e.pal = pb.pal
    BY <1>1, <1>3, <1>4, <1>5, ParentJoins
  <1>8. /\ cardsA = OwnCards(a, index, g, "a") /\ cardsB = OwnCards(b, index, g, "b")
    <2>1. IsOwn(a, index, "a") <=> pa.source # "intermediate"
      BY <1>6, ChildIdsDiffer
    <2>2. IsOwn(b, index, "b") <=> pb.source # "intermediate"
      BY <1>7, ChildIdsDiffer
    <2> QED
      BY <1>6, <1>7, <2>1, <2>2 DEF OwnCards
  <1>9. Tree!ChildOccurrence(index, g) = CardFor(Tree!ChildId(index), g, index, "child")
    BY ChildIdsDiffer DEF Tree!ChildOccurrence, CardFor
  <1>10. \A e \in edges' : e \in edges \/ (e.from \in {a, b} /\ e.to = Tree!ChildId(index))
    BY <1>2 DEF Tree!EdgeFor
  <1> HIDE DEF a, b, newA, newB, cardsA, cardsB, c
  <1>11. StepsOK'
    BY <1>2, <1>3, <1>4, <1>6, <1>7, StepsGrow
  <1>12. CardsOK'
    BY <1>2, <1>8, <1>9, <1>10, CardsGrow
  <1>13. EntitiesOK' /\ \A e \in entities' : KindOK(e)'
    <2>1. Adds(newA, pa, a, index, g, "a")
      BY <1>6 DEF Adds
    <2>2. Adds(newB, pb, b, index, g, "b")
      BY <1>7 DEF Adds
    <2>3. EntitiesOK
      BY DEF PalsOK
    <2> QED
      BY <1>1, <1>2, <1>3, <1>4, <2>1, <2>2, <2>3, PalsGrow DEF c
  <1>14. \A n \in named' : /\ \E o \in occurrences' : o.id = n[1]
                           /\ \E e \in entities' : e.id = EntityOfId(n[1]) /\ e.pal = n[2]
    <2>1. IsOwn(a, index, "a") \/ \E r \in steps : a = Tree!ChildId(r.index)
      BY <1>6
    <2>2. IsOwn(b, index, "b") \/ \E r \in steps : b = Tree!ChildId(r.index)
      BY <1>7
    <2>3. /\ entities \subseteq entities' /\ occurrences \subseteq occurrences'
          /\ steps \subseteq steps'
          /\ Joined(a, b, index, g) \in steps' /\ Tree!ChildEntity(child, index, g) \in entities'
      BY <1>2 DEF c
    <2>4. /\ \E e \in entities' : e.id = EntityOfId(a) /\ e.pal = pa.pal
          /\ \E e \in entities' : e.id = EntityOfId(b) /\ e.pal = pb.pal
      BY <1>2, <1>6, <1>7
    <2> QED
      BY <1>2, <1>12, <2>1, <2>2, <2>3, <2>4, NamesGrow
  <1>15. \A o \in occurrences' : \E e \in entities' : e.id = o.entity
    <2>1. /\ \A o \in cardsA : o.entity = EntityOfId(a)
          /\ \A o \in cardsB : o.entity = EntityOfId(b)
      BY <1>6, <1>7 DEF CardFor
    <2>2. c \in entities' /\ c.id = Tree!ChildOccurrence(index, g).entity
      BY <1>2 DEF c, Tree!ChildEntity, Tree!ChildOccurrence
    <2>3. \A o \in occurrences : \E e \in entities : e.id = o.entity
      BY DEF PalsOK
    <2> QED
      BY <1>2, <1>6, <1>7, <2>1, <2>2, <2>3
  <1>16. steps' # {}
    BY <1>2
  <1>17. PalsOK'
    BY <1>13, <1>14, <1>15, <1>16 DEF PalsOK
  <1> QED
    BY <1>1, <1>11, <1>12, <1>13, <1>17 DEF TreeInv

\* The pals of the tree that is built: one of them becomes the target.
LEMMA FinishKeepsTree ==
  ASSUME StepsOK, CardsOK, PalsOK, \A e \in entities : KindOK(e), Tree!Finish
  PROVE  TreeInv'
  <1> DEFINE Now(e) ==
               IF e.id = Tree!ChildId(last) THEN [e EXCEPT !.kind = "target", !.target = TRUE]
               ELSE e
  <1>1. /\ state = "building" /\ state' = "built" /\ steps # {}
        /\ UNCHANGED <<last, generation, steps, occurrences, edges, named>>
        /\ entities' = {Now(e) : e \in entities}
    BY DEF Tree!Finish
  <1>2. ASSUME NEW e \in entities
        PROVE  /\ Now(e) = [id |-> e.id, kind |-> Now(e).kind, pal |-> e.pal,
                            generation |-> e.generation, target |-> Now(e).target]
               /\ IF e.id = Tree!ChildId(last) THEN Now(e).kind = "target" /\ Now(e).target = TRUE
                  ELSE Now(e) = e
               /\ Now(e).id = e.id /\ Now(e).pal = e.pal /\ Now(e).generation = e.generation
    <2>1. e = [id |-> e.id, kind |-> e.kind, pal |-> e.pal, generation |-> e.generation,
               target |-> e.target]
      BY DEF PalsOK, EntitiesOK
    <2> QED
      BY <2>1
  <1> HIDE DEF Now
  <1>3. \A e \in entities : /\ Now(e).id = e.id /\ Now(e).pal = e.pal
                            /\ Now(e).generation = e.generation
    BY <1>2
  <1>4. StepsOK' /\ CardsOK'
    BY <1>1 DEF StepsOK, CardsOK, IsEarlier
  <1>5. EntitiesOK'
    <2>1. \A e, f \in entities' : e.id = f.id => e = f
      BY <1>1, <1>3 DEF PalsOK, EntitiesOK
    <2>2. ASSUME NEW e \in entities'
          PROVE  /\ e = [id |-> e.id, kind |-> e.kind, pal |-> e.pal, generation |-> e.generation,
                         target |-> e.target]
                 /\ e.id[1] = "child" =>
                      \E s \in steps' : e.id = Tree!ChildId(s.index) /\ e.generation = s.generation
                 /\ e.id[1] = "missing" => \E s \in steps' : e.id[2] = s.index
      <3>1. PICK f \in entities : e = Now(f)
        BY <1>1
      <3>2. /\ f.id[1] = "child" =>
                 \E s \in steps : f.id = Tree!ChildId(s.index) /\ f.generation = s.generation
            /\ f.id[1] = "missing" => \E s \in steps : f.id[2] = s.index
        BY DEF PalsOK, EntitiesOK
      <3>3. e = [id |-> e.id, kind |-> e.kind, pal |-> e.pal, generation |-> e.generation,
                 target |-> e.target]
        <4>1. Now(f) = [id |-> f.id, kind |-> Now(f).kind, pal |-> f.pal,
                        generation |-> f.generation, target |-> Now(f).target]
          BY <1>2
        <4>2. Now(f).id = f.id /\ Now(f).pal = f.pal /\ Now(f).generation = f.generation
          BY <1>3
        <4> QED
          BY <3>1, <4>1, <4>2
      <3> QED
        BY <1>1, <1>3, <3>1, <3>2, <3>3
    <2> QED
      BY <2>1, <2>2 DEF EntitiesOK
  <1>6. /\ \A o \in occurrences' : \E e \in entities' : e.id = o.entity
        /\ \A n \in named' : /\ \E o \in occurrences' : o.id = n[1]
                             /\ \E e \in entities' : e.id = EntityOfId(n[1]) /\ e.pal = n[2]
    <2>1. \A e \in entities : Now(e) \in entities'
      BY <1>1
    <2>2. /\ \A o \in occurrences : \E e \in entities : e.id = o.entity
          /\ \A n \in named : /\ \E o \in occurrences : o.id = n[1]
                              /\ \E e \in entities : e.id = EntityOfId(n[1]) /\ e.pal = n[2]
      BY DEF PalsOK
    <2> QED
      BY <1>1, <1>3, <2>1, <2>2
  <1>7. ASSUME NEW e \in entities'
        PROVE  KindOK(e)'
    <2>1. PICK f \in entities : e = Now(f)
      BY <1>1
    <2>2. KindOK(f) /\ e.id = f.id
      BY <1>3, <2>1
    <2>3. Tree!ChildId(last)[1] = "child"
      BY ChildIdsDiffer
    <2>4. CASE e.id = Tree!ChildId(last)
      BY <1>1, <1>2, <2>1, <2>2, <2>3, <2>4 DEF KindOK
    <2>5. CASE e.id # Tree!ChildId(last)
      BY <1>1, <1>2, <2>1, <2>2, <2>5 DEF KindOK
    <2> QED
      BY <2>4, <2>5
  <1>8. PalsOK'
    BY <1>1, <1>5, <1>6 DEF PalsOK
  <1> QED
    BY <1>1, <1>4, <1>7, <1>8 DEF TreeInv

LEMMA RestKeepsTree ==
  ASSUME StepsOK, CardsOK, PalsOK, \A e \in entities : KindOK(e),
         UNCHANGED <<last, generation, steps, entities, occurrences, edges, named>>,
         state' \in {"building", "built", "refused"},
         {state, state'} \subseteq {"building", "refused"} \/ state' = state \/ entities = {}
  PROVE  TreeInv'
  <1>1. StepsOK' /\ CardsOK' /\ EntitiesOK' /\ PalsOK'
    BY DEF StepsOK, CardsOK, IsEarlier, PalsOK, EntitiesOK
  <1>2. \A e \in entities' : KindOK(e)'
    BY DEF KindOK
  <1> QED
    BY <1>1, <1>2 DEF TreeInv

\* The steps of the route, the end of it, and its refusal.
LEMMA StepsKeepTree ==
  ASSUME Tree!TreeAssumption, TreeInv, [Tree!Next]_(Tree!vars)
  PROVE  TreeInv'
  <1>1. CASE UNCHANGED Tree!vars
    <2>1. CASE StepsOK /\ CardsOK /\ PalsOK /\ \A e \in entities : KindOK(e)
      BY <1>1, <2>1, RestKeepsTree DEF Tree!vars, TreeInv
    <2> QED
      BY <1>1, <2>1 DEF TreeInv, Tree!vars
  <1>2. CASE Tree!Next
    <2>1. state = "building" /\ StepsOK /\ CardsOK /\ PalsOK /\ \A e \in entities : KindOK(e)
      <3>1. state = "building"
        <4>1. \A i, g, a, b, c : Tree!AddStep(i, g, a, b, c) => state = "building"
          BY DEF Tree!AddStep
        <4>2. \A i, g, a, b : Tree!Refuse(i, g, a, b) => state = "building"
          BY DEF Tree!Refuse
        <4>3. Tree!Finish \/ Tree!FinishEmpty => state = "building"
          BY DEF Tree!Finish, Tree!FinishEmpty
        <4> QED
          BY <1>2, <4>1, <4>2, <4>3 DEF Tree!Next
      <3> QED
        BY <3>1 DEF TreeInv
    <2>2. ASSUME NEW index \in Indexes, NEW stated \in StatedGenerations,
                 NEW a \in Parents, NEW b \in Parents, NEW child \in Children,
                 Tree!AddStep(index, stated, a, b, child)
          PROVE  TreeInv'
      BY <2>1, <2>2, AddStepKeepsTree
    <2>3. ASSUME NEW index \in Indexes, NEW stated \in StatedGenerations,
                 NEW a \in Parents, NEW b \in Parents, Tree!Refuse(index, stated, a, b)
          PROVE  TreeInv'
      <3>1. /\ UNCHANGED <<last, generation, steps, entities, occurrences, edges, named>>
            /\ state' = "refused"
        BY <2>3 DEF Tree!Refuse
      <3> QED
        BY <2>1, <3>1, RestKeepsTree
    <2>4. CASE Tree!Finish
      BY <2>1, <2>4, FinishKeepsTree
    <2>5. CASE Tree!FinishEmpty
      <3> DEFINE id == <<"inventory", None, None, "target">>
                 card == [id |-> id, entity |-> id, layer |-> 0, step |-> None, role |-> "child"]
      <3>1. /\ steps = {} /\ state' = "built"
            /\ UNCHANGED <<last, generation, steps, edges, named>>
            /\ IF existing THEN occurrences' = {card} ELSE UNCHANGED <<entities, occurrences>>
        BY <2>5 DEF Tree!FinishEmpty
      <3>2. entities = {}
        BY <2>1, <3>1 DEF PalsOK
      <3>3. CASE existing
        <4>1. named = {}
          BY <2>1, <3>1 DEF PalsOK, CardsOK
        <4>2. edges = {}
          BY <2>1, <3>1 DEF CardsOK
        <4>3. occurrences' = {card} /\ card.layer = 0
          BY <3>1, <3>3
        <4> QED
          BY <3>1, <4>1, <4>2, <4>3 DEF TreeInv
      <3>4. CASE ~existing
        BY <2>1, <3>1, <3>2, <3>4, RestKeepsTree
      <3> QED
        BY <3>3, <3>4
    <2> QED
      BY <1>2, <2>2, <2>3, <2>4, <2>5 DEF Tree!Next
  <1> QED
    BY <1>1, <1>2

LEMMA TreeInvHoldsAtFirst ==
  ASSUME Tree!Init
  PROVE  TreeInv
  <1>1. /\ last = -1 /\ generation = <<>> /\ named = {} /\ steps = {} /\ entities = {}
        /\ occurrences = {} /\ edges = {}
    BY DEF Tree!Init
  <1>2. DOMAIN generation = {} /\ IsFiniteSet(steps) /\ IsFiniteSet(occurrences)
    BY <1>1, FS_EmptySet
  <1>3. StepsOK
    BY <1>1, <1>2 DEF StepsOK
  <1>4. CardsOK /\ PalsOK
    BY <1>1, <1>2 DEF CardsOK, PalsOK, EntitiesOK
  <1> QED
    BY <1>1, <1>3, <1>4 DEF TreeInv, Tree!Init

-----------------------------------------------------------------------------
\* A card tells its place and its pal, and is found by its identifier.
LEMMA CardsAreUnique ==
  ASSUME Tree!TreeAssumption, StepsOK, CardsOK
  PROVE  /\ \A o \in occurrences :
              /\ o.step \in Nat /\ o.layer \in Nat /\ o.role \in {"a", "b", "child"}
              /\ o.entity = EntityOfId(o.id)
         /\ \A o, p \in occurrences : (o.step = p.step /\ o.role = p.role) => o = p
         /\ \A o, p \in occurrences : o.id = p.id => o = p
         /\ \A o \in occurrences : Tree!OccurrenceById(o.id) = o
  <1>1. \A o \in occurrences : \E s \in steps : IsCardOf(o, s)
    BY DEF CardsOK
  <1>2. ASSUME NEW o \in occurrences, NEW s \in steps, IsCardOf(o, s)
        PROVE  /\ o.step = s.index /\ o.layer \in Nat /\ o.role \in {"a", "b", "child"}
               /\ o.entity = EntityOfId(o.id)
               /\ o.role = "child" =>
                    o = CardFor(Tree!ChildId(s.index), s.generation, s.index, "child")
               /\ o.role = "a" => /\ IsOwn(o.id, s.index, "a")
                                  /\ o = CardFor(s.a, s.generation - 1, s.index, "a")
               /\ o.role = "b" => /\ IsOwn(o.id, s.index, "b")
                                  /\ o = CardFor(s.b, s.generation - 1, s.index, "b")
    <2>1. s.generation \in Nat /\ s.generation - 1 \in Nat
      BY StepsAreNumbered
    <2> QED
      BY <1>2, <2>1 DEF IsCardOf, CardFor
  <1>3. \A o \in occurrences : o.step \in Nat
    BY <1>1, <1>2, StepsAreNumbered
  <1>4. ASSUME NEW o \in occurrences, NEW p \in occurrences, o.step = p.step, o.role = p.role
        PROVE  o = p
    <2>1. PICK s \in steps : IsCardOf(o, s)
      BY <1>1
    <2>2. PICK r \in steps : IsCardOf(p, r)
      BY <1>1
    <2>3. s = r
      BY <1>2, <1>4, <2>1, <2>2 DEF StepsOK
    <2> QED
      BY <1>2, <1>4, <2>1, <2>2, <2>3
  <1>5. ASSUME NEW o \in occurrences, NEW p \in occurrences, o.id = p.id
        PROVE  o = p
    <2>1. PICK s \in steps : IsCardOf(o, s)
      BY <1>1
    <2>2. PICK r \in steps : IsCardOf(p, r)
      BY <1>1
    <2>3. /\ o.step = s.index /\ p.step = r.index
          /\ o.role \in {"a", "b", "child"} /\ p.role \in {"a", "b", "child"}
          /\ o.role = "child" => o.id = Tree!ChildId(s.index)
          /\ p.role = "child" => p.id = Tree!ChildId(r.index)
          /\ o.role # "child" => IsOwn(o.id, s.index, o.role)
          /\ p.role # "child" => IsOwn(p.id, r.index, p.role)
      BY <1>2, <2>1, <2>2 DEF CardFor
    <2>4. s.index = r.index /\ o.role = p.role
      BY <1>5, <2>3, ChildIdsDiffer
    <2> QED
      BY <1>4, <2>3, <2>4
  <1>6. \A o \in occurrences : Tree!OccurrenceById(o.id) = o
    BY <1>5 DEF Tree!OccurrenceById
  <1> QED
    BY <1>1, <1>2, <1>3, <1>4, <1>5, <1>6

\* The cards of a step.
LEMMA CardsOfSteps ==
  ASSUME Tree!TreeAssumption, StepsOK, CardsOK, NEW s \in steps
  PROVE  /\ \E o \in occurrences :
              o.id = Tree!ChildId(s.index) /\ o.layer = s.generation /\ o.role = "child"
         /\ \A id \in {s.a, s.b} : \E o \in occurrences : o.id = id /\ o.layer < s.generation
  <1>1. \A r \in steps :
          /\ CardFor(Tree!ChildId(r.index), r.generation, r.index, "child") \in occurrences
          /\ IsOwn(r.a, r.index, "a") =>
               CardFor(r.a, r.generation - 1, r.index, "a") \in occurrences
          /\ IsOwn(r.b, r.index, "b") =>
               CardFor(r.b, r.generation - 1, r.index, "b") \in occurrences
    BY DEF CardsOK, IsCardOf
  <1>2. s.generation \in Nat /\ s.generation - 1 < s.generation
    BY StepsAreNumbered
  <1>3. \A id : IsEarlier(id, s) => \E o \in occurrences : o.id = id /\ o.layer < s.generation
    BY <1>1 DEF IsEarlier, CardFor
  <1>4. /\ IsOwn(s.a, s.index, "a") \/ IsEarlier(s.a, s)
        /\ IsOwn(s.b, s.index, "b") \/ IsEarlier(s.b, s)
    BY DEF StepsOK
  <1>5. \A id \in {s.a, s.b} : \E o \in occurrences : o.id = id /\ o.layer < s.generation
    BY <1>1, <1>2, <1>3, <1>4 DEF CardFor
  <1> QED
    BY <1>1, <1>5 DEF CardFor

LEMMA ArrowsAreDrawn ==
  ASSUME Tree!TreeAssumption, TreeInv
  PROVE  Tree!ArrowsLeadOn
  <1>1. CASE StepsOK /\ CardsOK /\ PalsOK
    <2>1. \A s \in steps : Tree!Connected(s)
      BY <1>1, CardsOfSteps DEF Tree!Connected
    <2>2. ASSUME NEW e \in edges
          PROVE  Tree!OccurrenceById(e.from).layer < Tree!OccurrenceById(e.to).layer
      <3>1. PICK s \in steps : e.from \in {s.a, s.b} /\ e.to = Tree!ChildId(s.index)
        BY <1>1 DEF CardsOK
      <3>2. PICK o \in occurrences : o.id = e.from /\ o.layer < s.generation
        BY <1>1, <3>1, CardsOfSteps
      <3>3. PICK p \in occurrences : p.id = e.to /\ p.layer = s.generation
        BY <1>1, <3>1, CardsOfSteps
      <3>4. Tree!OccurrenceById(e.from) = o /\ Tree!OccurrenceById(e.to) = p
        BY <1>1, <3>2, <3>3, CardsAreUnique
      <3> QED
        BY <3>2, <3>3, <3>4
    <2> QED
      BY <2>1, <2>2 DEF Tree!ArrowsLeadOn
  <1>2. CASE steps = {} /\ edges = {}
    BY <1>2 DEF Tree!ArrowsLeadOn
  <1> QED
    BY <1>1, <1>2 DEF TreeInv

LEMMA CardsAreNamed ==
  ASSUME Tree!TreeAssumption, TreeInv
  PROVE  Tree!CardsAsNamed
  <1>1. CASE StepsOK /\ CardsOK /\ PalsOK
    <2>1. ASSUME NEW n \in named
          PROVE  Tree!Card(Tree!OccurrenceById(n[1])).pal = n[2]
      <3>1. PICK o \in occurrences : o.id = n[1]
        BY <1>1 DEF PalsOK
      <3>2. PICK e \in entities : e.id = EntityOfId(n[1]) /\ e.pal = n[2]
        BY <1>1 DEF PalsOK
      <3>3. Tree!OccurrenceById(n[1]) = o /\ o.entity = e.id
        BY <1>1, <3>1, <3>2, CardsAreUnique
      <3>4. Tree!EntityOf(o) = e
        BY <1>1, <3>3 DEF Tree!EntityOf, PalsOK, EntitiesOK
      <3> QED
        BY <3>2, <3>3, <3>4 DEF Tree!Card
    <2> QED
      BY <2>1 DEF Tree!CardsAsNamed
  <1>2. CASE named = {}
    BY <1>2 DEF Tree!CardsAsNamed
  <1> QED
    BY <1>1, <1>2 DEF TreeInv

LEMMA UsesHaveTheirCards ==
  ASSUME Tree!TreeAssumption, TreeInv
  PROVE  Tree!EachUseHasItsCard
  <1>1. CASE StepsOK
    <2> SUFFICES ASSUME NEW s \in steps, NEW r \in steps, s # r,
                        NEW id \in {s.a, s.b}, id \in {r.a, r.b}
                 PROVE  id \in {Tree!ChildId(i) : i \in Indexes}
      BY DEF Tree!EachUseHasItsCard
    <2>1. ASSUME NEW q \in steps, id \in {q.a, q.b}
          PROVE  id[2] = q.index \/ \E t \in steps : id = Tree!ChildId(t.index)
      <3>1. IsOwn(id, q.index, "a") \/ IsOwn(id, q.index, "b") \/ IsEarlier(id, q)
        BY <1>1, <2>1 DEF StepsOK
      <3> QED
        BY <3>1, ChildIdsDiffer DEF IsEarlier
    <2>2. s.index # r.index /\ \A t \in steps : t.index \in Indexes
      BY <1>1 DEF StepsOK
    <2> QED
      BY <2>1, <2>2
  <1>2. CASE steps = {}
    BY <1>2 DEF Tree!EachUseHasItsCard
  <1> QED
    BY <1>1, <1>2 DEF TreeInv

\* What the card of a pal says of the step that makes it.
LEMMA CardsTellSteps ==
  ASSUME Tree!TreeAssumption, StepsOK, CardsOK, PalsOK, \A e \in entities : KindOK(e),
         state = "built", NEW o \in occurrences
  PROVE  /\ \A s \in steps : o.id = Tree!ChildId(s.index) /\ o.role = "child" =>
              /\ Tree!Card(o).role = "final target" <=> s.index = last
              /\ Tree!Card(o).madeBy \in {s.index + 1, None}
         /\ Tree!Card(o).madeBy # None =>
              \E s \in steps : o.id = Tree!ChildId(s.index) /\ Tree!Card(o).madeBy = s.index + 1
  <1>1. PICK e \in entities : e.id = o.entity
    BY DEF PalsOK
  <1>2. Tree!EntityOf(o) = e
    BY <1>1 DEF Tree!EntityOf, PalsOK, EntitiesOK
  <1>3. /\ Tree!Card(o).madeBy = (IF e.kind = "intermediate" THEN e.id[2] + 1 ELSE None)
        /\ Tree!Card(o).role = IF o.role # "child" THEN o.role
                               ELSE IF e.target THEN "final target" ELSE "intermediate child"
    BY <1>2 DEF Tree!Card, Tree!ProducedByStep
  <1>4. e.id = EntityOfId(o.id) /\ o.role \in {"a", "b", "child"}
    BY <1>1, CardsAreUnique
  <1>5. KindOK(e)
    OBVIOUS
  <1>6. ASSUME NEW s \in steps, o.id = Tree!ChildId(s.index), o.role = "child"
        PROVE  /\ Tree!Card(o).role = "final target" <=> s.index = last
               /\ Tree!Card(o).madeBy \in {s.index + 1, None}
    <2>1. e.id = Tree!ChildId(s.index) /\ e.id[1] = "child" /\ e.id[2] = s.index
      BY <1>4, <1>6, ChildIdsDiffer DEF Tree!ChildId
    <2>2. e.id = Tree!ChildId(last) <=> s.index = last
      BY <2>1, ChildIdsDiffer
    <2>3. IF s.index = last THEN e.target = TRUE ELSE e.target = FALSE
      BY <1>5, <2>1, <2>2 DEF KindOK
    <2> QED
      BY <1>3, <1>6, <2>1, <2>3
  <1>7. ASSUME Tree!Card(o).madeBy # None
        PROVE  \E s \in steps : o.id = Tree!ChildId(s.index) /\ Tree!Card(o).madeBy = s.index + 1
    <2>1. e.kind = "intermediate"
      BY <1>3, <1>7
    <2>2. e.id[1] = "child"
      BY <1>5, <2>1 DEF KindOK
    <2>3. PICK s \in steps : e.id = Tree!ChildId(s.index)
      BY <2>2 DEF PalsOK, EntitiesOK
    <2>4. e.id = o.id
      BY <1>4, <2>2 DEF EntityOfId
    <2>5. e.id[2] = s.index
      BY <2>3 DEF Tree!ChildId
    <2> QED
      BY <1>3, <2>1, <2>3, <2>4, <2>5
  <1> QED
    BY <1>6, <1>7

\* If the steps of a route are counted from 0, as many are up to one of them.
LEMMA StepsAreCounted ==
  ASSUME Tree!TreeAssumption, StepsOK, {s.index : s \in steps} = 0..(Cardinality(steps) - 1)
  PROVE  /\ Cardinality(steps) \in Nat
         /\ steps # {} => last = Cardinality(steps) - 1
         /\ \A s \in steps : Cardinality({r \in steps : r.index <= s.index}) = s.index + 1
  <1>1. Cardinality(steps) \in Nat
    BY FS_CardinalityType DEF StepsOK
  <1>2. \A s \in steps : s.index \in 0..(Cardinality(steps) - 1)
    OBVIOUS
  <1>3. ASSUME steps # {}
        PROVE  last = Cardinality(steps) - 1
    <2>1. PICK s \in steps : s.index = last
      BY <1>3 DEF StepsOK
    <2>2. Cardinality(steps) - 1 \in 0..(Cardinality(steps) - 1)
      BY <1>1, <1>2, <2>1
    <2>3. PICK r \in steps : r.index = Cardinality(steps) - 1
      BY <2>2
    <2>4. r.index <= last /\ last \in Int
      BY StepsAreNumbered
    <2>5. last \in 0..(Cardinality(steps) - 1)
      BY <1>2, <2>1
    <2> QED
      BY <1>1, <2>3, <2>4, <2>5
  <1>4. ASSUME NEW s \in steps
        PROVE  Cardinality({r \in steps : r.index <= s.index}) = s.index + 1
    <2> DEFINE S == {r \in steps : r.index <= s.index}
               f == [r \in S |-> r.index]
               T == 0..s.index
    <2>1. s.index \in Nat /\ s.index \in 0..(Cardinality(steps) - 1)
      BY <1>2, StepsAreNumbered
    <2>2. \A r \in S : r \in steps /\ r.index \in Nat /\ r.index <= s.index
      BY StepsAreNumbered
    <2>3. IsFiniteSet(S)
      BY FS_Subset DEF StepsOK
    <2>4. ASSUME NEW i \in T
          PROVE  \E r \in S : r.index = i
      <3>1. i \in 0..(Cardinality(steps) - 1) /\ i <= s.index
        BY <1>1, <2>1
      <3>2. PICK r \in steps : r.index = i
        BY <3>1
      <3> QED
        BY <3>1, <3>2
    <2> HIDE DEF S
    <2>5. f \in [S -> T]
      BY <2>1, <2>2
    <2>6. \A r, q \in S : f[r] = f[q] => r = q
      BY <2>2 DEF StepsOK
    <2>7. \A i \in T : \E r \in S : f[r] = i
      BY <2>4
    <2> HIDE DEF f, T
    <2>8. f \in Bijection(S, T)
      BY <2>5, <2>6, <2>7 DEF Bijection, Injection, IsInjective, Surjection
    <2>9. Cardinality(S) = Cardinality(T)
      <3>1. ExistsBijection(S, T)
        BY <2>8 DEF ExistsBijection
      <3>2. IsFiniteSet(T) /\ Cardinality(T) = Cardinality(S)
        BY <2>3, <3>1, FS_Bijection
      <3> QED
        BY <3>2
    <2>10. Cardinality(T) = s.index + 1
      <3>1. 0 \in Int /\ s.index \in Int /\ ~(0 > s.index) /\ s.index - 0 + 1 = s.index + 1
        BY <2>1
      <3>2. Cardinality(0..s.index) = IF 0 > s.index THEN 0 ELSE s.index - 0 + 1
        BY <3>1, FS_Interval
      <3> QED
        BY <3>1, <3>2 DEF T
    <2> QED
      BY <2>9, <2>10 DEF S
  <1> QED
    BY <1>1, <1>3, <1>4

LEMMA NumbersAreTold ==
  ASSUME Tree!TreeAssumption, TreeInv
  PROVE  Tree!NumbersAgree
  <1>1. ASSUME StepsOK, CardsOK, PalsOK, \A e \in entities : KindOK(e), state = "built",
               {s.index : s \in steps} = 0..(Cardinality(steps) - 1), NEW s \in steps
        PROVE  LET cards == Tree!MobileCards(s)
               IN /\ cards.child.role = "final target" <=> cards.number = Tree!Cardinality(steps)
                  /\ cards.child.madeBy \in {cards.number, None}
                  /\ \A card \in {cards.a, cards.b} :
                       card.madeBy # None => card.madeBy < cards.number
    <2> DEFINE cards == Tree!MobileCards(s)
    <2>1. /\ Cardinality(steps) \in Nat /\ last = Cardinality(steps) - 1
          /\ Cardinality({r \in steps : r.index <= s.index}) = s.index + 1
      BY <1>1, StepsAreCounted
    <2>2. /\ cards.number = s.index + 1 /\ s.index \in Nat
          /\ cards.child = Tree!Card(Tree!OccurrenceById(Tree!ChildId(s.index)))
          /\ cards.a = Tree!Card(Tree!OccurrenceById(s.a))
          /\ cards.b = Tree!Card(Tree!OccurrenceById(s.b))
      BY <1>1, <2>1, TreeCardinality, StepsAreNumbered DEF Tree!MobileCards
    <2> HIDE DEF cards
    <2>3. PICK o \in occurrences : /\ o.id = Tree!ChildId(s.index) /\ o.role = "child"
                                   /\ cards.child = Tree!Card(o)
      BY <1>1, <2>2, CardsOfSteps, CardsAreUnique
    <2>4. /\ cards.child.role = "final target" <=> s.index = last
          /\ cards.child.madeBy \in {s.index + 1, None}
      BY <1>1, <2>3, CardsTellSteps
    <2>5. ASSUME NEW id \in {s.a, s.b}, Tree!Card(Tree!OccurrenceById(id)).madeBy # None
          PROVE  Tree!Card(Tree!OccurrenceById(id)).madeBy < s.index + 1
      <3>1. PICK p \in occurrences : p.id = id /\ Tree!OccurrenceById(id) = p
        BY <1>1, CardsOfSteps, CardsAreUnique
      <3>2. PICK r \in steps : id = Tree!ChildId(r.index) /\ Tree!Card(p).madeBy = r.index + 1
        BY <1>1, <2>5, <3>1, CardsTellSteps
      <3>3. IsEarlier(id, s)
        BY <1>1, <3>2, ChildIdsDiffer DEF StepsOK
      <3>4. r.index < s.index /\ r.index \in Nat
        <4>1. PICK q \in steps : id = Tree!ChildId(q.index) /\ q.index < s.index
          BY <3>3 DEF IsEarlier
        <4>2. q.index = r.index
          BY <3>2, <4>1 DEF Tree!ChildId
        <4> QED
          BY <1>1, <4>1, <4>2, StepsAreNumbered
      <3> QED
        BY <2>2, <3>1, <3>2, <3>4
    <2>6. cards.child.role = "final target" <=> cards.number = Tree!Cardinality(steps)
      <3>1. Tree!Cardinality(steps) = Cardinality(steps)
        BY TreeCardinality
      <3>2. s.index = last <=> s.index + 1 = Cardinality(steps)
        BY <2>1, <2>2
      <3> QED
        BY <2>2, <2>4, <3>1, <3>2
    <2> QED
      BY <2>2, <2>4, <2>5, <2>6 DEF cards
  <1>2. Tree!Built => state = "built"
    BY DEF Tree!Built, Tree!View, TreeInv
  <1>3. CASE StepsOK /\ CardsOK /\ PalsOK /\ \A e \in entities : KindOK(e)
    BY <1>1, <1>2, <1>3, TreeCardinality DEF Tree!NumbersAgree
  <1>4. CASE steps = {}
    BY <1>4 DEF Tree!NumbersAgree
  <1> QED
    BY <1>3, <1>4 DEF TreeInv

-----------------------------------------------------------------------------
\* The rows of the cards of a column are in the grid, and differ.
LEMMA RowsAreSpread ==
  ASSUME NEW count \in Nat \ {0}, NEW maximum \in Nat, count <= maximum
  PROVE  /\ \A i \in 0..(count - 1) : Tree!Spread(i, count, maximum) \in 1..maximum
         /\ \A i, j \in 0..(count - 1) :
              i < j => Tree!Spread(i, count, maximum) < Tree!Spread(j, count, maximum)
  <1>1. CASE count = 1
    <2>1. (maximum + 1) \div 2 \in 1..maximum
      BY <1>1
    <2>2. \A i : Tree!Spread(i, count, maximum) = (maximum + 1) \div 2
      BY <1>1 DEF Tree!Spread
    <2>3. \A i, j \in 0..(count - 1) : ~(i < j)
      BY <1>1
    <2> QED
      BY <2>1, <2>2, <2>3
  <1>2. CASE count # 1
    <2> DEFINE m == maximum - 1
               c == count - 1
               d == 2 * c
               N(i) == 2 * (i * m) + c
    <2>1. m \in Nat /\ c \in Nat \ {0} /\ c <= m /\ d \in Nat \ {0}
      BY <1>2
    <2>2. \A i : Tree!Spread(i, count, maximum) = N(i) \div d + 1
      BY <1>2 DEF Tree!Spread, Tree!Rounded
    <2> HIDE DEF m, c
    <2>3. ASSUME NEW i \in 0..c
          PROVE  /\ i * m \in Nat /\ N(i) \in Int
                 /\ i * m <= c * m /\ c * m \in Nat
      <3>1. i \in Nat /\ c - i \in Nat
        BY <2>1
      <3>2. i * m \in Nat /\ c * m \in Nat /\ (c - i) * m \in Nat
        BY <2>1, <3>1, Product
      <3>3. (c - i) * m = c * m - i * m
        BY <2>1, <3>1
      <3> QED
        BY <2>1, <3>2, <3>3
    <2>4. ASSUME NEW i \in 0..c
          PROVE  N(i) \div d \in 0..m
      <3>1. N(i) \div d \in Int /\ d * (N(i) \div d) <= N(i) /\ N(i) < d * (N(i) \div d) + d
        BY <2>1, <2>3, Quotient
      <3> DEFINE q == N(i) \div d
      <3> HIDE DEF q
      <3>2. q \in Int /\ d * q \in Int /\ d * q <= N(i) /\ N(i) < d * q + d
        BY <2>1, <3>1 DEF q
      <3>3. ASSUME q <= -1
            PROVE  FALSE
        <4>1. d * q <= d * (-1)
          BY <2>1, <3>2, <3>3, Larger
        <4> QED
          BY <2>1, <2>3, <3>2, <4>1
      <3>4. ASSUME m + 1 <= q
            PROVE  FALSE
        <4>1. d * (m + 1) <= d * q
          BY <2>1, <3>2, <3>4, Larger
        <4>2. d * (m + 1) = 2 * (c * m) + 2 * c
          BY <2>1
        <4> QED
          BY <2>1, <2>3, <3>2, <4>1, <4>2
      <3> QED
        BY <2>1, <3>2, <3>3, <3>4 DEF q
    <2>5. ASSUME NEW i \in 0..c, NEW j \in 0..c, i < j
          PROVE  N(i) \div d < N(j) \div d
      <3>1. i \in Nat /\ j \in Nat /\ j - i - 1 \in Nat
        BY <2>1, <2>5
      <3>2. (j - i - 1) * m \in Nat
        BY <2>1, <3>1, Product
      <3>3. (j - i - 1) * m = j * m - i * m - m
        BY <2>1, <3>1
      <3>4. N(j) >= N(i) + d
        BY <2>1, <2>3, <3>2, <3>3
      <3> QED
        BY <2>1, <2>3, <3>4, QuotientGrows
    <2> HIDE DEF N, d
    <2>6. \A i \in 0..(count - 1) : i \in 0..c
      BY DEF c
    <2>7. \A k \in 0..m : k + 1 \in 1..maximum
      BY <2>1 DEF m
    <2>8. \A i \in 0..c : N(i) \div d \in Int
      BY <2>1, <2>4
    <2> QED
      BY <2>2, <2>4, <2>5, <2>6, <2>7, <2>8
  <1> QED
    BY <1>1, <1>2

LEMMA ValuesAreFinite ==
  ASSUME NEW S, IsFiniteSet(S), NEW f, DOMAIN f = S
  PROVE  IsFiniteSet({f[x] : x \in S})
  <1> DEFINE T == {f[x] : x \in S}
             g == [x \in S |-> f[x]]
  <1>1. g \in [S -> T] /\ \A t \in T : \E x \in S : g[x] = t
    OBVIOUS
  <1> HIDE DEF g, T
  <1>2. g \in Surjection(S, T)
    BY <1>1 DEF Surjection
  <1> QED
    BY <1>2, FS_Surjection DEF T

LEMMA GridIsLargeEnough ==
  ASSUME IsFiniteSet(occurrences), \A o \in occurrences : o.layer \in Nat
  PROVE  /\ Tree!MaxRows \in Nat
         /\ \A o \in occurrences :
              /\ o.layer \in 0..(Tree!ColumnCount - 1)
              /\ IsFiniteSet(Tree!Layer(o.layer)) /\ o \in Tree!Layer(o.layer)
              /\ Cardinality(Tree!Layer(o.layer)) \in Nat \ {0}
              /\ Cardinality(Tree!Layer(o.layer)) <= Tree!MaxRows
  <1> DEFINE L == Tree!LayerNumbers
             layers == {0} \cup L
             Height(g) == Tree!Cardinality(Tree!Layer(g))
             rows1 == {Height(g) : g \in L}
             heights == {1} \cup rows1
  <1>1. IsFiniteSet(L) /\ L \subseteq Nat /\ \A o \in occurrences : o.layer \in L
    <2> DEFINE f == [o \in occurrences |-> o.layer]
    <2>1. L = {f[o] : o \in occurrences}
      BY DEF Tree!LayerNumbers
    <2>2. IsFiniteSet(L)
      BY <2>1, ValuesAreFinite
    <2> QED
      BY <2>2 DEF Tree!LayerNumbers
  <1>2. \A g : IsFiniteSet(Tree!Layer(g)) /\ Tree!Layer(g) \subseteq occurrences
    <2>1. \A g : Tree!Layer(g) \in SUBSET occurrences
      BY DEF Tree!Layer
    <2> QED
      BY <2>1, FS_Subset
  <1>3. \A g : Height(g) = Cardinality(Tree!Layer(g)) /\ Height(g) \in Nat
    BY <1>2, TreeCardinality, FS_CardinalityType
  <1> HIDE DEF L, Height
  <1>4. IsFiniteSet(layers) /\ layers \in SUBSET Int /\ layers # {}
    <2>1. IsFiniteSet({0} \cup L)
      BY <1>1, FS_Singleton, FS_Union
    <2> QED
      BY <1>1, <2>1
  <1>5. IsFiniteSet(heights) /\ heights \in SUBSET Int /\ heights # {}
    <2>1. IsFiniteSet(rows1)
      <3> DEFINE f == [g \in L |-> Height(g)]
      <3>1. rows1 = {f[g] : g \in L}
        OBVIOUS
      <3> QED
        BY <1>1, <3>1, ValuesAreFinite
    <2>2. IsFiniteSet({1} \cup rows1)
      BY <2>1, FS_Singleton, FS_Union
    <2> QED
      BY <1>3, <2>2
  <1> HIDE DEF layers, heights
  <1>6. Tree!Max(layers) \in layers /\ \A x \in layers : x <= Tree!Max(layers)
    BY <1>4, MaxOf
  <1>7. Tree!Max(heights) \in heights /\ \A x \in heights : x <= Tree!Max(heights)
    BY <1>5, MaxOf
  <1>8. Tree!ColumnCount = Tree!Max(layers) + 1 /\ Tree!MaxRows = Tree!Max(heights)
    <2>1. layers = {0} \cup Tree!LayerNumbers
      BY DEF layers, L
    <2>2. rows1 = {Tree!Cardinality(Tree!Layer(g)) : g \in Tree!LayerNumbers}
      BY DEF L, Height
    <2>3. heights = {1} \cup {Tree!Cardinality(Tree!Layer(g)) : g \in Tree!LayerNumbers}
      BY <2>2 DEF heights
    <2> HIDE DEF rows1
    <2> QED
      BY <2>1, <2>3, Zenon DEF Tree!ColumnCount, Tree!MaxRows
  <1>9. Tree!Max(layers) \in Nat /\ Tree!MaxRows \in Nat
    <2>1. \A x \in layers : x \in Nat
      BY <1>1 DEF layers
    <2>2. \A x \in heights : x \in Nat
      BY <1>3 DEF heights
    <2> QED
      BY <1>6, <1>7, <1>8, <2>1, <2>2
  <1>10. ASSUME NEW o \in occurrences
         PROVE  /\ o.layer \in 0..(Tree!ColumnCount - 1)
                /\ IsFiniteSet(Tree!Layer(o.layer)) /\ o \in Tree!Layer(o.layer)
                /\ Cardinality(Tree!Layer(o.layer)) \in Nat \ {0}
                /\ Cardinality(Tree!Layer(o.layer)) <= Tree!MaxRows
    <2>1. o.layer \in L /\ o.layer \in Nat
      BY <1>1
    <2>2. o.layer <= Tree!Max(layers)
      BY <1>6, <2>1 DEF layers
    <2>3. o.layer \in 0..(Tree!ColumnCount - 1)
      BY <1>8, <1>9, <2>1, <2>2
    <2>4. Height(o.layer) <= Tree!MaxRows
      BY <1>7, <1>8, <2>1 DEF heights
    <2>5. o \in Tree!Layer(o.layer) /\ IsFiniteSet(Tree!Layer(o.layer))
      BY <1>2 DEF Tree!Layer
    <2>6. Cardinality(Tree!Layer(o.layer)) # 0
      BY <2>5, FS_EmptySet
    <2> QED
      BY <1>3, <2>3, <2>4, <2>5, <2>6
  <1> QED
    BY <1>9, <1>10

\* The cards of a column are ordered by their steps and their places in them.
LEMMA CardsAreOrdered ==
  ASSUME Tree!TreeAssumption, StepsOK, CardsOK
  PROVE  /\ \A o \in occurrences : ~Tree!Before(o, o)
         /\ \A o, p, q \in occurrences : Tree!Before(o, p) /\ Tree!Before(p, q) => Tree!Before(o, q)
         /\ \A o, p \in occurrences : o = p \/ Tree!Before(o, p) \/ Tree!Before(p, o)
  <1>1. Tree!RoleOrder("a") = 0 /\ Tree!RoleOrder("b") = 1 /\ Tree!RoleOrder("child") = 2
    BY DEF Tree!RoleOrder
  <1>2. \A o \in occurrences : o.step \in Nat /\ o.role \in {"a", "b", "child"}
    BY CardsAreUnique
  <1>3. \A o \in occurrences : o.step \in Nat /\ Tree!RoleOrder(o.role) \in Nat
    BY <1>1, <1>2
  <1>4. \A o, p \in occurrences :
          (o.step = p.step /\ Tree!RoleOrder(o.role) = Tree!RoleOrder(p.role)) => o = p
    <2>1. \A o, p \in occurrences :
            Tree!RoleOrder(o.role) = Tree!RoleOrder(p.role) => o.role = p.role
      BY <1>1, <1>2
    <2> QED
      BY <2>1, CardsAreUnique
  <1> QED
    BY <1>3, <1>4 DEF Tree!Before

\* The place of a card in its column.
Place(o) == Tree!Cardinality({p \in Tree!Layer(o.layer) : Tree!Before(p, o)})

LEMMA PlacesDiffer ==
  ASSUME Tree!TreeAssumption, StepsOK, CardsOK, NEW o \in occurrences
  PROVE  /\ Place(o) \in 0..(Cardinality(Tree!Layer(o.layer)) - 1)
         /\ \A p \in occurrences : p.layer = o.layer /\ p # o =>
              Place(o) < Place(p) \/ Place(p) < Place(o)
  <1> DEFINE M == Tree!Layer(o.layer)
             R == {q \in M \X M : Tree!Before(q[1], q[2])}
  <1>1. \A p, q \in M : <<p, q>> \in R <=> Tree!Before(p, q)
    OBVIOUS
  <1>2. /\ M \subseteq occurrences /\ o \in M /\ \A p \in M : p.layer = o.layer
        /\ \A p \in occurrences : p.layer = o.layer => p \in M
    BY DEF Tree!Layer
  <1>3. IsFiniteSet(M)
    BY <1>2, FS_Subset DEF CardsOK
  <1>4. \A p \in M : Place(p) = Tree!Cardinality({q \in M : Tree!Before(q, p)})
    BY <1>2 DEF Place
  <1> HIDE DEF M, R
  <1>5. /\ \A r \in M : <<r, r>> \notin R
        /\ \A r, s, t \in M : <<r, s>> \in R /\ <<s, t>> \in R => <<r, t>> \in R
        /\ \A r, s \in M : r = s \/ <<r, s>> \in R \/ <<s, r>> \in R
    BY <1>1, <1>2, CardsAreOrdered
  <1>6. /\ Cardinality(M) \in Nat
        /\ \A r \in M : Rank(M, R, r) \in 0..(Cardinality(M) - 1)
        /\ \A r, s \in M : <<r, s>> \in R <=> Rank(M, R, r) < Rank(M, R, s)
    BY <1>3, <1>5, Ranked
  <1>7. \A p \in M : Place(p) = Rank(M, R, p)
    <2> SUFFICES ASSUME NEW p \in M
                 PROVE  Place(p) = Rank(M, R, p)
      OBVIOUS
    <2>1. {q \in M : Tree!Before(q, p)} = {q \in M : <<q, p>> \in R}
      BY <1>1
    <2> QED
      BY <1>4, <2>1, TreeCardinality DEF Rank
  <1>8. \A p \in occurrences : p.layer = o.layer /\ p # o =>
          Place(o) < Place(p) \/ Place(p) < Place(o)
    <2> SUFFICES ASSUME NEW p \in occurrences, p.layer = o.layer, p # o
                 PROVE  Place(o) < Place(p) \/ Place(p) < Place(o)
      OBVIOUS
    <2>1. p \in M /\ o \in M
      BY <1>2
    <2>2. <<o, p>> \in R \/ <<p, o>> \in R
      BY <1>5, <2>1
    <2> QED
      BY <1>6, <1>7, <2>1, <2>2
  <1> QED
    BY <1>2, <1>6, <1>7, <1>8 DEF M

LEMMA CardsAreApart ==
  ASSUME Tree!TreeAssumption, TreeInv
  PROVE  Tree!CardsDoNotOverlap
  <1>1. IsFiniteSet(occurrences) /\ \A o \in occurrences : o.layer \in Nat
    <2>1. CASE StepsOK /\ CardsOK
      BY <2>1, CardsAreUnique DEF CardsOK
    <2>2. CASE \E o : occurrences = {o} /\ o.layer = 0
      <3>1. PICK o : occurrences = {o} /\ o.layer = 0
        BY <2>2
      <3>2. IsFiniteSet({o})
        BY FS_Singleton
      <3> QED
        BY <3>1, <3>2
    <2> QED
      BY <2>1, <2>2 DEF TreeInv
  <1> DEFINE Height(g) == Cardinality(Tree!Layer(g))
  <1>2. /\ Tree!MaxRows \in Nat
        /\ \A o \in occurrences :
             /\ o.layer \in 0..(Tree!ColumnCount - 1)
             /\ Height(o.layer) \in Nat \ {0} /\ Height(o.layer) <= Tree!MaxRows
    BY <1>1, GridIsLargeEnough
  <1>3. \A o \in occurrences :
          /\ Tree!Cell(o).column = o.layer
          /\ Tree!Cell(o).row = Tree!Spread(Place(o), Height(o.layer), Tree!MaxRows)
    BY TreeCardinality DEF Tree!Cell, Place
  <1> HIDE DEF Height
  <1>4. CASE StepsOK /\ CardsOK
    <2>1. ASSUME NEW o \in occurrences
          PROVE  /\ Place(o) \in 0..(Height(o.layer) - 1)
                 /\ \A p \in occurrences : p.layer = o.layer /\ p # o =>
                      Place(o) < Place(p) \/ Place(p) < Place(o)
      BY <1>4, PlacesDiffer DEF Height
    <2>2. ASSUME NEW o \in occurrences
          PROVE  /\ Tree!Cell(o).column \in 0..(Tree!ColumnCount - 1)
                 /\ Tree!Cell(o).row \in 1..Tree!MaxRows
      BY <1>2, <1>3, <2>1, RowsAreSpread
    <2>3. ASSUME NEW o \in occurrences, NEW p \in occurrences, o # p, Tree!Cell(o) = Tree!Cell(p)
          PROVE  FALSE
      <3>1. o.layer = p.layer
        BY <1>3, <2>3
      <3>2. /\ Place(o) \in 0..(Height(o.layer) - 1) /\ Place(p) \in 0..(Height(o.layer) - 1)
            /\ Place(o) < Place(p) \/ Place(p) < Place(o)
        BY <2>1, <2>3, <3>1
      <3>3. /\ Tree!Cell(o).row = Tree!Spread(Place(o), Height(o.layer), Tree!MaxRows)
            /\ Tree!Cell(p).row = Tree!Spread(Place(p), Height(o.layer), Tree!MaxRows)
            /\ Tree!Cell(o).row \in Int /\ Tree!Cell(p).row \in Int
        BY <1>2, <1>3, <2>2, <3>1
      <3>4. Tree!Cell(o).row < Tree!Cell(p).row \/ Tree!Cell(p).row < Tree!Cell(o).row
        BY <1>2, <3>2, <3>3, RowsAreSpread
      <3> QED
        BY <2>3, <3>3, <3>4
    <2> QED
      BY <2>2, <2>3 DEF Tree!CardsDoNotOverlap
  <1>5. CASE \E o : occurrences = {o} /\ o.layer = 0
    <2>1. PICK o : occurrences = {o} /\ o.layer = 0
      BY <1>5
    <2>2. Height(o.layer) = 1
      <3>1. Tree!Layer(o.layer) = {o}
        BY <2>1 DEF Tree!Layer
      <3> QED
        BY <3>1, FS_Singleton DEF Height
    <2>3. Tree!Cell(o).row = Tree!Spread(0, 1, Tree!MaxRows)
      BY <1>3, <2>1, <2>2 DEF Tree!Spread
    <2>4. Tree!Spread(0, 1, Tree!MaxRows) \in 1..Tree!MaxRows
      BY <1>2, <2>1, <2>2, RowsAreSpread
    <2> QED
      BY <1>2, <1>3, <2>1, <2>3, <2>4 DEF Tree!CardsDoNotOverlap
  <1> QED
    BY <1>4, <1>5 DEF TreeInv

\* The tree of a route, whatever its steps and however many they are: its arrows lead
\* on, its cards do not overlap and show the pals that the route names, and the numbers
\* on narrow screens are those the cards refer to.
THEOREM TreeStaysTrue ==
  ASSUME Tree!TreeAssumption
  PROVE  Tree!Spec => []TreeIsTrue
  <1>1. Tree!Init => TreeInv
    BY TreeInvHoldsAtFirst
  <1>2. TreeInv /\ [Tree!Next]_(Tree!vars) => TreeInv'
    BY StepsKeepTree
  <1>3. TreeInv => TreeIsTrue
    BY ArrowsAreDrawn, CardsAreApart, CardsAreNamed, UsesHaveTheirCards, NumbersAreTold
       DEF TreeIsTrue, Tree!TreeIsTrue
  <1> QED
    BY <1>1, <1>2, <1>3, PTL DEF Tree!Spec

-----------------------------------------------------------------------------
(* Lists of numbers in order. *)

Before(S, p) == Cardinality({q \in S : q < p})
Ascending(S) == [n \in 1..Cardinality(S) |-> CHOOSE p \in S : Before(S, p) = n - 1]
Ordered(list) == \A m, n \in DOMAIN list : m < n => list[m] < list[n]
Elements(list) == {list[n] : n \in DOMAIN list}

LEMMA FilterCardinality ==
  ASSUME NEW M
  PROVE  Filters!Cardinality(M) = Cardinality(M)
BY DEF Cardinality, Filters!Cardinality

LEMMA PalCardinality ==
  ASSUME NEW M
  PROVE  Pals!Cardinality(M) = Cardinality(M)
BY DEF Cardinality, Pals!Cardinality

LEMMA BothAscend ==
  ASSUME NEW S
  PROVE  Filters!Ascending(S) = Ascending(S) /\ Pals!Ascending(S) = Ascending(S)
  <1>1. \A p : Filters!Before(S, p) = Before(S, p) /\ Pals!Before(S, p) = Before(S, p)
    BY FilterCardinality, PalCardinality DEF Before, Filters!Before, Pals!Before
  <1> QED
    BY <1>1, FilterCardinality, PalCardinality DEF Ascending, Filters!Ascending, Pals!Ascending

\* A finite set of numbers is listed once, in order.
LEMMA AscendingIsOrdered ==
  ASSUME NEW S \in SUBSET Nat, IsFiniteSet(S)
  PROVE  /\ Ascending(S) \in Seq(S) /\ Len(Ascending(S)) = Cardinality(S)
         /\ Ordered(Ascending(S)) /\ Elements(Ascending(S)) = S
  <1> DEFINE R == {p \in S \X S : p[1] < p[2]}
             N == Cardinality(S)
             order == Ascending(S)
  <1>1. \A x, y \in S : <<x, y>> \in R <=> x < y
    OBVIOUS
  <1> HIDE DEF R
  <1>2. /\ \A r \in S : <<r, r>> \notin R
        /\ \A r, s, t \in S : <<r, s>> \in R /\ <<s, t>> \in R => <<r, t>> \in R
        /\ \A r, s \in S : r = s \/ <<r, s>> \in R \/ <<s, r>> \in R
    BY <1>1
  <1>3. /\ N \in Nat
        /\ \A x \in S : Rank(S, R, x) \in 0..(N - 1)
        /\ \A x, y \in S : <<x, y>> \in R <=> Rank(S, R, x) < Rank(S, R, y)
        /\ \A n \in 0..(N - 1) : \E x \in S : Rank(S, R, x) = n
    BY <1>2, Ranked
  <1>4. \A x \in S : Before(S, x) = Rank(S, R, x)
    <2> SUFFICES ASSUME NEW x \in S
                 PROVE  Before(S, x) = Rank(S, R, x)
      OBVIOUS
    <2>1. {y \in S : y < x} = {y \in S : <<y, x>> \in R}
      BY <1>1
    <2> QED
      BY <2>1 DEF Rank, Before
  <1>5. order = [n \in 1..N |-> CHOOSE x \in S : Before(S, x) = n - 1]
    BY DEF Ascending
  <1> HIDE DEF order, N
  <1>6. ASSUME NEW n \in 1..N
        PROVE  order[n] \in S /\ Rank(S, R, order[n]) = n - 1
    <2>1. n - 1 \in 0..(N - 1)
      BY <1>3
    <2>2. \E x \in S : Before(S, x) = n - 1
      BY <1>3, <1>4, <2>1
    <2> QED
      BY <1>4, <1>5, <2>2
  <1>7. DOMAIN order = 1..N /\ order \in Seq(S) /\ Len(order) = N
    BY <1>3, <1>5, <1>6
  <1>8. Ordered(order)
    <2> SUFFICES ASSUME NEW m \in 1..N, NEW n \in 1..N, m < n
                 PROVE  order[m] < order[n]
      BY <1>7 DEF Ordered
    <2>1. /\ order[m] \in S /\ order[n] \in S
          /\ Rank(S, R, order[m]) = m - 1 /\ Rank(S, R, order[n]) = n - 1
      BY <1>6
    <2>2. m - 1 < n - 1
      BY <1>3
    <2>3. <<order[m], order[n]>> \in R
      BY <1>3, <2>1, <2>2
    <2> QED
      BY <1>1, <2>1, <2>3
  <1>9. ASSUME NEW x \in S
        PROVE  \E n \in DOMAIN order : order[n] = x
    <2> DEFINE n == Rank(S, R, x) + 1
    <2>1. n \in 1..N /\ n - 1 = Rank(S, R, x)
      BY <1>3
    <2>2. order[n] \in S /\ Rank(S, R, order[n]) = Rank(S, R, x)
      BY <1>6, <2>1
    <2>3. Rank(S, R, x) \in Nat
      BY <1>3
    <2>4. order[n] = x
      BY <1>2, <1>3, <2>2, <2>3
    <2> QED
      BY <1>7, <2>1, <2>4
  <1>10. Elements(order) = S
    BY <1>6, <1>7, <1>9 DEF Elements
  <1> QED
    BY <1>7, <1>8, <1>10 DEF order, N

\* What is in order is left as it is.
LEMMA OrderedIsAscending ==
  ASSUME NEW list \in Seq(Nat), Ordered(list)
  PROVE  /\ IsFiniteSet(Elements(list)) /\ Cardinality(Elements(list)) = Len(list)
         /\ Ascending(Elements(list)) = list
  <1> DEFINE S == Elements(list)
             N == Len(list)
  <1>1. N \in Nat /\ DOMAIN list = 1..N /\ \A n \in 1..N : list[n] \in Nat
    OBVIOUS
  <1>2. S = {list[n] : n \in 1..N} /\ \A n \in 1..N : list[n] \in S
    BY <1>1 DEF Elements
  <1>3. ASSUME NEW m \in 1..N, NEW n \in 1..N
        PROVE  (list[m] < list[n] <=> m < n) /\ (list[m] = list[n] => m = n)
    <2>1. list[m] \in Nat /\ list[n] \in Nat /\ m \in Nat /\ n \in Nat
      BY <1>1
    <2>2. (m < n => list[m] < list[n]) /\ (n < m => list[n] < list[m])
      BY <1>1 DEF Ordered
    <2> QED
      BY <2>1, <2>2
  <1> HIDE DEF S, N
  <1>4. ASSUME NEW n \in 0..N
        PROVE  LET T == {list[m] : m \in 1..n} IN IsFiniteSet(T) /\ Cardinality(T) = n
    <2> DEFINE T == {list[m] : m \in 1..n}
               f == [m \in 1..n |-> list[m]]
    <2>1. n \in Nat /\ 1..n \subseteq 1..N
      BY <1>1
    <2>2. f \in Bijection(1..n, T)
      BY <1>3, <2>1 DEF Bijection, Injection, Surjection, IsInjective
    <2>3. IsFiniteSet(1..n) /\ Cardinality(1..n) = n
      BY <2>1, FS_Interval
    <2> QED
      BY <2>2, <2>3, FS_Bijection DEF ExistsBijection
  <1>5. IsFiniteSet(S) /\ Cardinality(S) = N
    <2>1. N \in 0..N
      BY <1>1
    <2> QED
      BY <1>2, <1>4, <2>1
  <1>6. ASSUME NEW n \in 1..N
        PROVE  Before(S, list[n]) = n - 1
    <2>1. n - 1 \in 0..N /\ n \in Nat /\ \A m \in 1..N : m < n <=> m \in 1..(n - 1)
      BY <1>1
    <2>2. {q \in S : q < list[n]} = {list[m] : m \in 1..(n - 1)}
      <3>1. ASSUME NEW q \in S, q < list[n]
            PROVE  \E m \in 1..(n - 1) : q = list[m]
        BY <1>2, <1>3, <2>1, <3>1
      <3>2. ASSUME NEW m \in 1..(n - 1)
            PROVE  list[m] \in S /\ list[m] < list[n]
        <4>1. m \in 1..N /\ m < n
          BY <1>1, <2>1
        <4> QED
          BY <1>2, <1>3, <4>1
      <3> QED
        BY <3>1, <3>2
    <2> QED
      BY <1>4, <2>1, <2>2 DEF Before
  <1>7. ASSUME NEW n \in 1..N
        PROVE  (CHOOSE p \in S : Before(S, p) = n - 1) = list[n]
    <2>1. ASSUME NEW p \in S, Before(S, p) = n - 1
          PROVE  p = list[n]
      <3>1. PICK m \in 1..N : p = list[m]
        BY <1>2
      <3>2. m - 1 = n - 1 /\ m \in Nat /\ n \in Nat
        BY <1>1, <1>6, <2>1, <3>1
      <3> QED
        BY <3>1, <3>2
    <2> QED
      BY <1>2, <1>6, <2>1
  <1>8. Ascending(S) = [n \in 1..N |-> list[n]]
    BY <1>5, <1>7 DEF Ascending
  <1>9. list = [n \in 1..N |-> list[n]]
    BY <1>1
  <1> QED
    BY <1>5, <1>8, <1>9 DEF S, N
-----------------------------------------------------------------------------
(* The filters of the list of pals. *)

Lists == {list \in Seq(Skills) : Ordered(list) /\ Len(list) <= MaxSkills}

FilterInv ==
  /\ address \in [scope : Filters!Scopes, option : FieldOptions \cup {None},
                  passives : Seq(Skills), view : Filters!Views]
  /\ fields \in [option : FieldOptions \cup {None}, passives : Lists]

\* The elements of a list are a finite set.
LEMMA FinitelyMany ==
  ASSUME NEW S, NEW list \in Seq(S)
  PROVE  IsFiniteSet(Elements(list)) /\ Elements(list) \subseteq S
  <1>1. list \in Surjection(1..Len(list), Elements(list))
    BY DEF Surjection, Elements
  <1>2. IsFiniteSet(1..Len(list))
    BY FS_Interval
  <1> QED
    BY <1>1, <1>2, FS_Surjection DEF Elements

\* The first few of a list in order are a list in order.
LEMMA FirstAreOrdered ==
  ASSUME NEW S \in SUBSET Nat, NEW list \in Seq(S), Ordered(list), NEW k \in 0..Len(list)
  PROVE  SubSeq(list, 1, k) \in Seq(S) /\ Len(SubSeq(list, 1, k)) = k /\ Ordered(SubSeq(list, 1, k))
  <1>1. /\ SubSeq(list, 1, k) \in Seq(S) /\ Len(SubSeq(list, 1, k)) = k
        /\ DOMAIN SubSeq(list, 1, k) = 1..k /\ 1..k \subseteq DOMAIN list
        /\ \A n \in 1..k : SubSeq(list, 1, k)[n] = list[n]
    BY PrefixIsPart
  <1> QED
    BY <1>1 DEF Ordered

LEMMA FirstFewOfList ==
  ASSUME Filters!FilterAssumption, NEW raw \in Seq(Skills)
  PROVE  Filters!FirstFew(raw) \in Lists
  <1> DEFINE sorted == Ascending(Elements(raw))
             k == IF Len(sorted) < MaxSkills THEN Len(sorted) ELSE MaxSkills
  <1>1. IsFiniteSet(Elements(raw)) /\ Elements(raw) \subseteq Skills /\ Skills \subseteq Nat
    BY FinitelyMany DEF Filters!FilterAssumption
  <1>2. sorted \in Seq(Elements(raw)) /\ Ordered(sorted)
    BY <1>1, AscendingIsOrdered
  <1>3. sorted \in Seq(Skills)
    BY <1>1, <1>2
  <1>4. Filters!FirstFew(raw) = SubSeq(sorted, 1, k)
    <2>1. Filters!Range(raw) = Elements(raw)
      BY DEF Filters!Range, Elements
    <2> QED
      BY <2>1, BothAscend DEF Filters!FirstFew
  <1> HIDE DEF sorted
  <1>5. k \in 0..Len(sorted) /\ k <= MaxSkills
    BY <1>3 DEF Filters!FilterAssumption
  <1> QED
    BY <1>1, <1>2, <1>3, <1>4, <1>5, FirstAreOrdered DEF Lists

LEMMA FewAreNumbers ==
  ASSUME Filters!FilterAssumption, NEW list \in Lists
  PROVE  list \in Seq(Skills) /\ list \in Seq(Nat) /\ Ordered(list) /\ Len(list) <= MaxSkills
  <1>1. list \in Seq(Skills) /\ Ordered(list) /\ Len(list) <= MaxSkills
    BY DEF Lists
  <1>2. \A S : Skills \subseteq S => list \in Seq(S)
    <2>1. \A n \in 1..Len(list) : list[n] \in Skills
      BY <1>1
    <2> QED
      BY <1>1, <2>1
  <1> QED
    BY <1>1, <1>2 DEF Filters!FilterAssumption

\* What a query may ask for is left as it is.
LEMMA FirstFewOfFew ==
  ASSUME Filters!FilterAssumption, NEW list \in Lists
  PROVE  /\ Filters!FirstFew(list) = list
         /\ Cardinality(Filters!Range(list)) = Len(list)
  <1>1. list \in Seq(Skills) /\ list \in Seq(Nat) /\ Ordered(list) /\ Len(list) <= MaxSkills
    BY FewAreNumbers
  <1>2. Filters!Range(list) = Elements(list)
    BY DEF Filters!Range, Elements
  <1>3. Ascending(Elements(list)) = list /\ Cardinality(Elements(list)) = Len(list)
    BY <1>1, OrderedIsAscending
  <1>4. SubSeq(list, 1, Len(list)) = list
    BY <1>1
  <1>5. (IF Len(list) < MaxSkills THEN Len(list) ELSE MaxSkills) = Len(list)
    BY <1>1 DEF Filters!FilterAssumption
  <1> QED
    BY <1>2, <1>3, <1>4, <1>5, BothAscend DEF Filters!FirstFew

\* A skill more or less.
LEMMA ToggledIsFew ==
  ASSUME Filters!FilterAssumption, NEW list \in Lists, NEW p \in Skills,
         p \in Filters!Range(list) \/ Len(list) < MaxSkills
  PROVE  Filters!Ascending(IF p \in Filters!Range(list) THEN Filters!Range(list) \ {p}
                           ELSE Filters!Range(list) \cup {p}) \in Lists
  <1> DEFINE S == Elements(list)
             T == IF p \in S THEN S \ {p} ELSE S \cup {p}
  <1>1. list \in Seq(Skills) /\ list \in Seq(Nat) /\ Ordered(list) /\ Len(list) <= MaxSkills
    BY FewAreNumbers
  <1>2. Filters!Range(list) = S
    BY DEF Filters!Range, Elements
  <1>3. IsFiniteSet(S) /\ Cardinality(S) = Len(list) /\ S \subseteq Skills /\ Len(list) \in Nat
    BY <1>1, OrderedIsAscending, FinitelyMany
  <1> HIDE DEF S
  <1>4. IsFiniteSet(T) /\ Cardinality(T) <= MaxSkills /\ T \subseteq Skills
    <2>1. CASE p \in S
      <3>1. IsFiniteSet(S \ {p}) /\ Cardinality(S \ {p}) = Len(list) - 1
        BY <1>3, <2>1, FS_RemoveElement
      <3> QED
        BY <1>1, <1>3, <2>1, <3>1 DEF Filters!FilterAssumption
    <2>2. CASE p \notin S
      <3>1. Len(list) < MaxSkills
        BY <1>2, <2>2
      <3>2. IsFiniteSet(S \cup {p}) /\ Cardinality(S \cup {p}) = Len(list) + 1
        BY <1>3, <2>2, FS_AddElement
      <3> QED
        BY <1>3, <2>2, <3>1, <3>2 DEF Filters!FilterAssumption
    <2> QED
      BY <2>1, <2>2
  <1> HIDE DEF T
  <1>5. Ascending(T) \in Seq(T) /\ Len(Ascending(T)) = Cardinality(T) /\ Ordered(Ascending(T))
    BY <1>4, AscendingIsOrdered DEF Filters!FilterAssumption
  <1>6. Ascending(T) \in Lists
    BY <1>4, <1>5 DEF Lists
  <1> QED
    BY <1>2, <1>6, BothAscend DEF T

LEMMA FilterInvHoldsAtFirst ==
  ASSUME Filters!FilterAssumption, Filters!Init
  PROVE  FilterInv
  <1>1. /\ address \in [scope : Filters!Scopes, option : FieldOptions \cup {None},
                        passives : Seq(Skills), view : Filters!Views]
        /\ fields = [option |-> address.option, passives |-> Filters!FirstFew(address.passives)]
    BY DEF Filters!Init, Filters!FilterAssumption
  <1>2. Filters!FirstFew(address.passives) \in Lists
    BY <1>1, FirstFewOfList
  <1> QED
    BY <1>1, <1>2 DEF FilterInv

Addresses == [scope : Filters!Scopes, option : FieldOptions \cup {None},
              passives : Seq(Skills), view : Filters!Views]

\* The fields of a page that is loaded are those of its address.
LEMMA LoadedIsTyped ==
  ASSUME Filters!FilterAssumption, NEW a \in Addresses, Filters!Load(a)
  PROVE  FilterInv'
  <1>1. address' = a /\ fields' = [option |-> a.option, passives |-> Filters!FirstFew(a.passives)]
    BY DEF Filters!Load, Filters!Fresh
  <1>2. Filters!FirstFew(a.passives) \in Lists
    BY FirstFewOfList DEF Addresses
  <1> QED
    BY <1>1, <1>2 DEF FilterInv, Addresses

\* What the links to a page, a scope and a view do to the filters.
Kept == /\ Filters!Parsed(address').passives = Filters!Parsed(address).passives
        /\ Filters!Parsed(address').option = Filters!Parsed(address).option

LEMMA ParsedAddress ==
  ASSUME Filters!FilterAssumption, NEW a \in Addresses
  PROVE  LET b == Filters!Parsed(a)
         IN /\ b \in Addresses /\ b.passives = Filters!FirstFew(a.passives) /\ b.option = a.option
            /\ Filters!Parsed(b).passives = b.passives /\ Filters!Parsed(b).option = b.option
  <1> DEFINE few == Filters!FirstFew(a.passives)
             b == Filters!Parsed(a)
  <1>1. few \in Lists /\ few \in Seq(Skills)
    BY FirstFewOfList, FewAreNumbers DEF Addresses
  <1>2. Filters!FirstFew(few) = few
    BY <1>1, FirstFewOfFew
  <1>3. \A c \in Addresses : /\ Filters!Parsed(c).passives = Filters!FirstFew(c.passives)
                             /\ Filters!Parsed(c).option = c.option
    BY DEF Filters!Parsed, Addresses
  <1>4. b \in Addresses
    BY <1>1 DEF Filters!Parsed, Addresses
  <1> HIDE DEF b
  <1>5. b.passives = few /\ b.option = a.option
    BY <1>3 DEF b
  <1> QED
    BY <1>2, <1>3, <1>4, <1>5 DEF b

LEMMA StepsKeepFilters ==
  ASSUME Filters!FilterAssumption, FilterInv, [Filters!Next]_(Filters!vars)
  PROVE  /\ FilterInv'
         /\ \/ Filters!TurnPage \/ (\E s \in Filters!Scopes : Filters!ChangeScope(s))
            \/ (\E v \in Filters!Views : Filters!ChangeView(v))
            => Kept
  <1>0. address \in Addresses /\ fields \in [option : FieldOptions \cup {None}, passives : Lists]
    BY DEF FilterInv, Addresses
  <1> DEFINE b == Filters!Parsed(address)
  <1>1. /\ b \in Addresses /\ b.passives = Filters!FirstFew(address.passives)
        /\ b.option = address.option
        /\ Filters!Parsed(b).passives = b.passives /\ Filters!Parsed(b).option = b.option
    BY <1>0, ParsedAddress
  <1>2. \A c \in Addresses : /\ Filters!Parsed(c).passives = Filters!FirstFew(c.passives)
                             /\ Filters!Parsed(c).option = c.option
    BY DEF Filters!Parsed, Addresses
  <1> HIDE DEF b
  <1>3. ASSUME NEW s \in Filters!Scopes, Filters!ChangeScope(s)
        PROVE  FilterInv' /\ Kept
    <2>1. address' = [b EXCEPT !.scope = s] /\ UNCHANGED fields
      BY <1>3 DEF Filters!ChangeScope, Filters!Follow, Filters!ScopeHref, b
    <2>2. address' \in Addresses /\ address'.passives = b.passives /\ address'.option = b.option
      BY <1>1, <2>1 DEF Addresses
    <2> QED
      BY <1>0, <1>1, <1>2, <2>1, <2>2 DEF FilterInv, Kept, b, Addresses
  <1>4. ASSUME NEW v \in Filters!Views, Filters!ChangeView(v)
        PROVE  FilterInv' /\ Kept
    <2>1. address' = [address EXCEPT !.view = v] /\ UNCHANGED fields
      BY <1>4 DEF Filters!ChangeView, Filters!Follow, Filters!ViewHref
    <2>2. /\ address' \in Addresses /\ address'.passives = address.passives
          /\ address'.option = address.option
      BY <1>0, <2>1 DEF Addresses
    <2> QED
      BY <1>0, <1>2, <2>1, <2>2 DEF FilterInv, Kept, Addresses
  <1>5. CASE Filters!TurnPage
    <2>1. Filters!Load(b)
      BY <1>5 DEF Filters!TurnPage, Filters!PageHref, b
    <2>2. address' = b
      BY <2>1 DEF Filters!Load
    <2> QED
      BY <1>1, <2>1, <2>2, LoadedIsTyped DEF Kept, b
  <1>6. ASSUME Filters!Next,
               ~(\E s \in Filters!Scopes : Filters!ChangeScope(s)),
               ~(\E v \in Filters!Views : Filters!ChangeView(v)), ~Filters!TurnPage
        PROVE  FilterInv'
    <2>1. CASE Filters!Reset
      <3>1. address' = [address EXCEPT !.option = None, !.passives = <<>>] /\ UNCHANGED fields
        BY <2>1 DEF Filters!Reset, Filters!Follow, Filters!ResetHref
      <3>2. address' = [scope |-> address.scope, option |-> None, passives |-> <<>>,
                        view |-> address.view]
        BY <1>0, <3>1 DEF Addresses
      <3>3. <<>> \in Seq(Skills)
        OBVIOUS
      <3>4. address' \in Addresses
        BY <1>0, <3>2, <3>3 DEF Addresses
      <3> QED
        BY <1>0, <3>1, <3>4 DEF FilterInv, Addresses
    <2>2. CASE Filters!Apply
      <3>1. fields.passives \in Seq(Skills)
        BY <1>0, FewAreNumbers
      <3>2. [scope |-> address.scope, view |-> address.view,
             option |-> IF advancedOpen THEN fields.option ELSE None,
             passives |-> fields.passives] \in Addresses
        BY <1>0, <3>1 DEF Addresses
      <3> QED
        BY <2>2, <3>2, LoadedIsTyped DEF Filters!Apply
    <2>3. ASSUME NEW p \in Skills, Filters!TogglePassive(p)
          PROVE  FilterInv'
      <3> DEFINE R == Filters!Range(fields.passives)
                 new == Filters!Ascending(IF p \in R THEN R \ {p} ELSE R \cup {p})
      <3>1. new \in Lists
        BY <1>0, <2>3, ToggledIsFew DEF Filters!TogglePassive
      <3>2. fields' = [option |-> fields.option, passives |-> new] /\ UNCHANGED address
        BY <1>0, <2>3 DEF Filters!TogglePassive
      <3> HIDE DEF new
      <3>3. [option |-> fields.option, passives |-> new]
              \in [option : FieldOptions \cup {None}, passives : Lists]
        BY <1>0, <3>1
      <3> QED
        BY <1>0, <3>2, <3>3 DEF FilterInv, Addresses
    <2>4. CASE Filters!ClearPassives
      <3>1. <<>> \in Lists
        BY DEF Lists, Ordered, Filters!FilterAssumption
      <3>2. fields' = [fields EXCEPT !.passives = <<>>] /\ UNCHANGED address
        BY <2>4 DEF Filters!ClearPassives
      <3> QED
        BY <1>0, <3>1, <3>2 DEF FilterInv, Addresses
    <2>5. ASSUME NEW option \in FieldOptions \cup {None}, Filters!Select(option)
          PROVE  FilterInv'
      BY <1>0, <2>5 DEF Filters!Select, FilterInv, Addresses
    <2>6. CASE Filters!ToggleAdvanced
      BY <1>0, <2>6 DEF Filters!ToggleAdvanced, FilterInv, Addresses
    <2>7. ASSUME \/ Filters!Deliver \/ \E list, inline \in BOOLEAN : Filters!Scroll(list, inline)
          PROVE  UNCHANGED <<address, fields>>
      BY <2>7 DEF Filters!Deliver, Filters!Scroll, Filters!form
    <2> QED
      BY <1>6, <2>1, <2>2, <2>3, <2>4, <2>5, <2>6, <2>7 DEF Filters!Next, FilterInv
  <1>7. CASE UNCHANGED Filters!vars
    BY <1>7 DEF Filters!vars, Filters!form, FilterInv, Kept
  <1> QED
    BY <1>3, <1>4, <1>5, <1>6, <1>7

\* Whatever address is opened and whatever is pressed, the form holds what a query
\* may ask for, and the links of the scopes, views and pages keep the filters.
THEOREM FiltersAreAQuery ==
  ASSUME Filters!FilterAssumption
  PROVE  Filters!Spec => []Filters!AsAQuery /\ Filters!LinksKeepTheFilters
  <1> DEFINE Keep ==
               Filters!TurnPage \/ (\E s \in Filters!Scopes : Filters!ChangeScope(s))
                 \/ (\E v \in Filters!Views : Filters!ChangeView(v)) =>
                   /\ Filters!Parsed(address').passives = Filters!Parsed(address).passives
                   /\ Filters!Parsed(address').option = Filters!Parsed(address).option
  <1>1. Filters!Init => FilterInv
    BY FilterInvHoldsAtFirst
  <1>2. FilterInv /\ [Filters!Next]_(Filters!vars) => FilterInv' /\ [Keep]_(Filters!vars)
    BY StepsKeepFilters DEF Kept
  <1>3. FilterInv => Filters!AsAQuery
    <2> SUFFICES ASSUME FilterInv
                 PROVE  Filters!AsAQuery
      OBVIOUS
    <2>1. fields.passives \in Lists /\ fields.option \in FieldOptions \cup {None}
      BY DEF FilterInv
    <2> QED
      BY <2>1, FirstFewOfFew, FewAreNumbers, FilterCardinality DEF Filters!AsAQuery
  <1> HIDE DEF Keep
  <1>4. Filters!Spec => []Filters!AsAQuery /\ [][Keep]_(Filters!vars)
    BY <1>1, <1>2, <1>3, PTL DEF Filters!Spec
  <1> QED
    BY <1>4 DEF Filters!LinksKeepTheFilters, Keep

-----------------------------------------------------------------------------
(* The pages of the list of pals. *)

\* Of two numbers the smaller and the larger.
LEMMA OfTwo ==
  ASSUME NEW a \in Int, NEW b \in Int
  PROVE  /\ Pals!Min({a, b}) = IF a < b THEN a ELSE b
         /\ Pals!Max({a, b}) = IF a < b THEN b ELSE a
BY DEF Pals!Min, Pals!Max

\* The pals at the places from low to high.
Among(list, low, high) == {list[i] : i \in {j \in DOMAIN list : low < j /\ j <= high}}

LEMMA PageIsAmong ==
  ASSUME NEW S, NEW list \in Seq(S), NEW low \in Nat, NEW high \in Nat
  PROVE  Pals!Range(SubSeq(list, low + 1, Pals!Min({high, Len(list)}))) = Among(list, low, high)
  <1> DEFINE top == IF high < Len(list) THEN high ELSE Len(list)
             items == SubSeq(list, low + 1, top)
  <1>1. Pals!Min({high, Len(list)}) = top /\ top \in Nat /\ DOMAIN list = 1..Len(list)
    BY OfTwo
  <1>2. \A j \in DOMAIN list : j <= high <=> j <= top
    BY <1>1
  <1> HIDE DEF top
  <1>3. DOMAIN items = 1..(top - low) /\ \A i \in 1..(top - low) : items[i] = list[i + low]
    BY <1>1
  <1>4. \A j \in Int : low < j /\ j <= top <=> j - low \in 1..(top - low)
    BY <1>1
  <1>5. ASSUME NEW i \in 1..(top - low)
        PROVE  i + low \in DOMAIN list /\ low < i + low /\ i + low <= high
    <2>1. i \in Int /\ i >= 1 /\ i <= top - low /\ top <= Len(list)
      BY <1>1 DEF top
    <2> QED
      BY <1>1, <1>2, <2>1
  <1>6. ASSUME NEW j \in DOMAIN list, low < j, j <= high
        PROVE  j - low \in 1..(top - low) /\ (j - low) + low = j
    BY <1>1, <1>2, <1>4, <1>6
  <1> HIDE DEF items
  <1>7. Pals!Range(items) = {items[i] : i \in 1..(top - low)}
    BY <1>3 DEF Pals!Range
  <1>8. ASSUME NEW i \in 1..(top - low)
        PROVE  items[i] \in Among(list, low, high)
    BY <1>3, <1>5 DEF Among
  <1>9. ASSUME NEW j \in DOMAIN list, low < j, j <= high
        PROVE  list[j] \in {items[i] : i \in 1..(top - low)}
    <2>1. j - low \in 1..(top - low) /\ items[j - low] = list[j]
      BY <1>3, <1>6, <1>9
    <2> QED
      BY <2>1
  <1>10. {items[i] : i \in 1..(top - low)} = Among(list, low, high)
    BY <1>8, <1>9 DEF Among
  <1> QED
    BY <1>1, <1>7, <1>10 DEF items

\* One page more.
LEMMA AmongAdds ==
  ASSUME NEW S, NEW list \in Seq(S), NEW low \in Nat, NEW high \in Nat, low <= high
  PROVE  Among(list, 0, low) \cup Among(list, low, high) = Among(list, 0, high)
  <1>1. DOMAIN list \subseteq Nat
    OBVIOUS
  <1> QED
    BY <1>1 DEF Among

\* The pages are enough for what is listed, and there is at least one.
LEMMA PagesAreEnough ==
  ASSUME Pals!PalPagesAssumption, NEW S, NEW list \in Seq(S)
  PROVE  Pals!Pages(list) \in Nat \ {0} /\ Len(list) <= Pals!Pages(list) * PageSize
  <1> DEFINE q == (Len(list) + PageSize - 1) \div PageSize
             p == Pals!Pages(list)
  <1>1. PageSize \in Nat \ {0} /\ Len(list) \in Nat
    BY DEF Pals!PalPagesAssumption
  <1>2. q \in Int /\ PageSize * q \in Int /\ Len(list) + PageSize - 1 < PageSize * q + PageSize
    BY <1>1, Quotient
  <1>3. p = IF 1 < q THEN q ELSE 1
    <2>1. \A n \in Int : Pals!Max({1, n}) = IF 1 < n THEN n ELSE 1
      BY DEF Pals!Max
    <2>2. p = Pals!Max({1, q})
      BY DEF Pals!Pages
    <2> HIDE DEF q, p
    <2> QED
      BY <1>2, <2>1, <2>2
  <1> HIDE DEF q, p
  <1>4. p \in Nat \ {0} /\ q <= p
    BY <1>2, <1>3
  <1>5. PageSize * q <= PageSize * p /\ PageSize * p \in Int
    BY <1>1, <1>2, <1>4, Larger, Product
  <1>6. Len(list) <= PageSize * p
    BY <1>1, <1>2, <1>5
  <1>7. PageSize * p = p * PageSize
    BY <1>1, <1>4
  <1> QED
    BY <1>4, <1>6, <1>7 DEF p

-----------------------------------------------------------------------------
Pinned == [snapshot : DOMAIN Contents, catalog : Nat]
Own(k) == Ascending(Contents[k] \cap Mine)

\* Of the list of the user's own pals, whatever is shared.
OfOwn(q) == q.scope = "mine" /\ q.shared = None

OwnPage(l) ==
  LET own == Own(l.context.snapshot)
  IN /\ l.pages = Pals!Pages(own) /\ l.number <= l.pages
     /\ Pals!Range(l.items) = Among(own, (l.number - 1) * PageSize, l.number * PageSize)

LEMMA PublishedPals ==
  ASSUME Pals!PalPagesAssumption, NEW k \in DOMAIN Contents, NEW F \in SUBSET Contents[k]
  PROVE  /\ F \subseteq Pals!Pals
         /\ Ascending(F) \in Seq(F) /\ Elements(Ascending(F)) = F
  <1>1. IsFiniteSet(Contents[k]) /\ Contents[k] \in SUBSET Nat
    BY DEF Pals!PalPagesAssumption, IsFiniteSet, Pals!IsFiniteSet
  <1>2. IsFiniteSet(F) /\ F \in SUBSET Nat
    BY <1>1, FS_Subset
  <1>3. Contents[k] \subseteq Pals!Pals
    BY DEF Pals!Pals, Pals!Range
  <1> QED
    BY <1>2, <1>3, AscendingIsOrdered

\* What one statement lists: a page of what the snapshot has.
LEMMA ListedIsAPage ==
  ASSUME Pals!PalPagesAssumption, snapshot \in DOMAIN Contents, catalog \in Nat,
         NEW q, q.number \in Nat \ {0}
  PROVE  LET l == Pals!Listed(q)
         IN /\ l.context = [snapshot |-> snapshot, catalog |-> catalog]
            /\ l.number \in Nat \ {0} /\ l.number <= q.number /\ l.pages \in Nat
            /\ Pals!Range(l.items) \subseteq Pals!Pals
            /\ OfOwn(q) => OwnPage(l)
  <1> DEFINE F == {p \in Pals!Candidates(q.scope) : q.shared = None \/ share[p] = q.shared}
             found == Ascending(F)
             pageCount == Pals!Pages(found)
             n == Pals!Min({q.number, pageCount})
             low == (n - 1) * PageSize
             high == n * PageSize
             items == SubSeq(found, low + 1, Pals!Min({high, Len(found)}))
             l == Pals!Listed(q)
  <1>1. F \subseteq Contents[snapshot]
    BY DEF Pals!Candidates
  <1>2. F \subseteq Pals!Pals /\ found \in Seq(F) /\ Elements(found) = F
    BY <1>1, PublishedPals
  <1>3. Pals!Filtered(q) = found
    BY BothAscend DEF Pals!Filtered
  <1>4. l = [context |-> [snapshot |-> snapshot, catalog |-> catalog], number |-> n,
             pages |-> pageCount, total |-> Len(found), items |-> items]
    BY <1>3 DEF Pals!Listed, Pals!Latest
  <1>5. OfOwn(q) => found = Own(snapshot)
    <2>1. OfOwn(q) => F = Contents[snapshot] \cap Mine
      BY DEF OfOwn, Pals!Candidates
    <2> QED
      BY <2>1 DEF Own
  <1> HIDE DEF F, found, l
  <1>6. pageCount \in Nat \ {0}
    BY <1>2, PagesAreEnough
  <1>7. n \in Nat \ {0} /\ n <= q.number /\ n <= pageCount
    <2>1. n = IF q.number < pageCount THEN q.number ELSE pageCount
      BY <1>6, OfTwo
    <2> HIDE DEF n, pageCount
    <2> QED
      BY <1>6, <2>1
  <1> HIDE DEF n, pageCount
  <1>8. low \in Nat /\ high \in Nat
    <2>1. n - 1 \in Nat /\ n \in Nat /\ PageSize \in Nat
      BY <1>7 DEF Pals!PalPagesAssumption
    <2> QED
      BY <2>1, Product
  <1>9. Pals!Range(items) = Among(found, low, high)
    <2> HIDE DEF low, high
    <2> QED
      BY <1>2, <1>8, PageIsAmong
  <1>10. Among(found, low, high) \subseteq F
    BY <1>2 DEF Among
  <1>11. OfOwn(q) => OwnPage(l)
    BY <1>4, <1>5, <1>7, <1>9 DEF OwnPage, pageCount
  <1> QED
    BY <1>2, <1>4, <1>6, <1>7, <1>9, <1>10, <1>11 DEF l
-----------------------------------------------------------------------------
(* The list of pals: what one rendering has read, what the browser shows, *)
(* and what has been seen by turning its pages.                            *)

QueryInv ==
  /\ snapshot \in DOMAIN Contents /\ catalog \in Nat
  /\ query.number \in Nat \ {0} /\ query.context \in Pinned \cup {None}
  /\ had = [p \in Pals!Pals |-> had[p]]

\* The switches of a list are those of its pals, and show what the preferences
\* have been.
SwitchesOK(l) ==
  /\ Pals!Range(l.items) \subseteq Pals!Pals
  /\ l.shares = [p \in Pals!Range(l.items) |-> l.shares[p]]
  /\ \A p \in Pals!Range(l.items) : l.shares[p] \in had[p]

\* What was listed answers the query.
ListOK(l) ==
  /\ l.context \in Pinned /\ l.pages \in Nat
  /\ l.number \in Nat \ {0} /\ l.number <= query.number
  /\ query.context # None => l.context = query.context
  /\ OfOwn(query) => OwnPage(l)

RenderInv ==
  /\ render = [step |-> render.step, list |-> render.list, counts |-> render.counts]
  /\ render.step = "list" => DOMAIN render.counts = {}
  /\ render.step = "summary" =>
       /\ ListOK(render.list) /\ SwitchesOK(render.list)
       /\ \A s \in DOMAIN render.counts :
            render.counts[s].snapshot = render.list.context.snapshot

PageInv ==
  /\ page = [state |-> page.state, context |-> page.context, number |-> page.number,
             pages |-> page.pages, items |-> page.items, shares |-> page.shares,
             counts |-> page.counts]
  /\ page.pages \in Nat
  /\ render.step # "shown" => page.state # "list"
  /\ page.state = "list" =>
       /\ page.context \in Pinned /\ SwitchesOK(page)
       /\ \A s \in Pals!Scopes : page.counts[s].snapshot = page.context.snapshot

\* A request that the page waits for was sent when the page was shown.
IsFlight(f) ==
  f = [pal |-> f.pal, enabled |-> f.enabled, state |-> f.state, heard |-> f.heard, nr |-> f.nr]

FlightInv ==
  \A f \in flights :
    /\ IsFlight(f)
    /\ f.heard \in BOOLEAN /\ f.pal \in Pals!Pals
    /\ f.heard => render.step = "shown"
    /\ f.heard /\ f.state = "ok" => f.enabled \in had[f.pal]

\* A tour stays with the snapshot of its first page, and has seen its pages.
TourInv ==
  /\ tour = [context |-> tour.context, scope |-> tour.scope, shared |-> tour.shared,
             last |-> tour.last, seen |-> tour.seen, pages |-> tour.pages, again |-> tour.again]
  /\ tour.last \in Nat
  /\ tour.last > 0 => tour.context \in Pinned
  /\ tour.last > 0 /\ OfOwn(tour) =>
       LET own == Own(tour.context.snapshot)
       IN /\ tour.pages = Pals!Pages(own) /\ tour.last <= tour.pages
          /\ tour.seen = Among(own, 0, tour.last * PageSize)

\* The pages that follow are asked for with the context of the tour.
PinnedInv ==
  tour.last > 0 =>
    /\ page.state = "list" => page.context = tour.context
    /\ render.step # "shown" /\ query.number > 1 => query.context = tour.context

PalInv == QueryInv /\ RenderInv /\ PageInv /\ FlightInv /\ TourInv /\ PinnedInv

LEMMA PalInvHoldsAtFirst ==
  ASSUME Pals!PalPagesAssumption
  PROVE  Pals!Init => PalInv
  <1> SUFFICES ASSUME Pals!Init
               PROVE  PalInv
    OBVIOUS
  <1> USE DEF Pals!Init, Pals!Error, Pals!NoTour
  <1>1. QueryInv
    <2>1. 1 \in DOMAIN Contents
      BY DEF Pals!PalPagesAssumption
    <2> QED
      BY <2>1 DEF QueryInv, Pals!DefaultQuery, Pals!Query
  <1>2. RenderInv
    BY DEF RenderInv
  <1>3. PageInv /\ FlightInv /\ TourInv /\ PinnedInv
    BY DEF PageInv, FlightInv, TourInv, PinnedInv
  <1> QED
    BY <1>1, <1>2, <1>3 DEF PalInv

\* A request that is not waited for any more.
LEMMA Unheard ==
  ASSUME NEW f, IsFlight(f)
  PROVE  /\ IsFlight([f EXCEPT !.heard = FALSE]) /\ [f EXCEPT !.heard = FALSE].heard = FALSE
         /\ [f EXCEPT !.heard = FALSE].pal = f.pal
  <1>1. \A b : /\ IsFlight([f EXCEPT !.heard = b]) /\ [f EXCEPT !.heard = b].heard = b
               /\ [f EXCEPT !.heard = b].pal = f.pal
    BY DEF IsFlight
  <1> QED
    BY <1>1, Zenon

LEMMA OpenKeepsPals ==
  ASSUME Pals!PalPagesAssumption, PalInv, NEW q, Pals!Open(q),
         q.number \in Nat \ {0}, q.context \in Pinned \cup {None},
         q.number > 1 /\ tour.last > 0 => q.context = tour.context
  PROVE  PalInv'
  <1> USE DEF PalInv
  <1>1. QueryInv'
    BY DEF Pals!Open, QueryInv
  <1>2. RenderInv'
    BY DEF Pals!Open, RenderInv
  <1>3. PageInv'
    BY DEF Pals!Open, PageInv, Pals!Error
  <1>4. FlightInv'
    <2>1. flights' = {[f EXCEPT !.heard = FALSE] : f \in flights}
      BY DEF Pals!Open
    <2>2. \A f \in flights :
            /\ IsFlight([f EXCEPT !.heard = FALSE]) /\ [f EXCEPT !.heard = FALSE].heard = FALSE
            /\ [f EXCEPT !.heard = FALSE].pal \in Pals!Pals
      BY Unheard DEF FlightInv
    <2>3. \A g \in flights' : IsFlight(g) /\ g.heard = FALSE /\ g.pal \in Pals!Pals
      BY <2>1, <2>2
    <2> QED
      BY <2>3 DEF FlightInv
  <1>5. TourInv'
    BY DEF Pals!Open, TourInv, OfOwn
  <1>6. PinnedInv'
    BY DEF Pals!Open, PinnedInv, Pals!Error
  <1> QED
    BY <1>1, <1>2, <1>3, <1>4, <1>5, <1>6

LEMMA TurningKeepsPals ==
  ASSUME Pals!PalPagesAssumption, PalInv,
         \/ \E n \in 1..Pals!Cardinality(Pals!Pals) : Pals!TurnPage(n)
         \/ \E scope \in Pals!Scopes, shared \in {None, TRUE, FALSE} :
              Pals!ChangeFilters(scope, shared)
         \/ Pals!Refresh
  PROVE  PalInv'
  <1>1. ASSUME NEW n, Pals!TurnPage(n)
        PROVE  PalInv'
    <2> DEFINE q == Pals!QueryParams(query, n, Pals!PageContext(page))
    <2>1. Pals!Open(q) /\ page.state = "list" /\ n \in 1..page.pages
      BY <1>1 DEF Pals!TurnPage
    <2>2. q.number = n /\ q.context = page.context
      BY DEF Pals!QueryParams, Pals!Query, Pals!PageContext
    <2>3. n \in Nat \ {0}
      BY <2>1 DEF PalInv, PageInv
    <2>4. page.context \in Pinned /\ (tour.last > 0 => page.context = tour.context)
      BY <2>1 DEF PalInv, PageInv, PinnedInv
    <2> HIDE DEF q
    <2> QED
      BY <2>1, <2>2, <2>3, <2>4, OpenKeepsPals
  <1>2. ASSUME NEW scope, NEW shared, Pals!ChangeFilters(scope, shared)
        PROVE  PalInv'
    <2> DEFINE q == Pals!Query(scope, shared, 1, None)
    <2>1. Pals!Open(q) /\ q.number = 1 /\ q.context = None
      BY <1>2 DEF Pals!ChangeFilters, Pals!Query
    <2> HIDE DEF q
    <2> QED
      BY <2>1, OpenKeepsPals
  <1>3. ASSUME Pals!Refresh
        PROVE  PalInv'
    <2> DEFINE q == Pals!DefaultQuery
    <2>1. Pals!Open(q) /\ q.number = 1 /\ q.context = None
      BY <1>3 DEF Pals!Refresh, Pals!DefaultQuery, Pals!Query
    <2> HIDE DEF q
    <2> QED
      BY <2>1, OpenKeepsPals
  <1> QED
    BY <1>1, <1>2, <1>3

\* A statement that is not refused reads what its query is pinned to.
LEMMA PinnedIsRead ==
  ASSUME Pals!PalPagesAssumption, NEW q, q.context \in Pinned, Pals!Refusal(q) = None
  PROVE  q.context = [snapshot |-> snapshot, catalog |-> catalog]
  <1>1. q.context # None /\ None \notin {"INVENTORY_SNAPSHOT_CHANGED", "GAME_DATA_VERSION_CHANGED"}
    BY DEF Pals!PalPagesAssumption, Pinned
  <1>2. q.context.snapshot = snapshot /\ q.context.catalog = catalog
    BY <1>1 DEF Pals!Refusal
  <1> QED
    BY <1>2 DEF Pinned

LEMMA Refusals ==
  ASSUME NEW q, Pals!Refusal(q) # None
  PROVE  Pals!Refusal(q) \in {"INVENTORY_SNAPSHOT_CHANGED", "GAME_DATA_VERSION_CHANGED"}
BY DEF Pals!Refusal

LEMMA ListingKeepsPals ==
  ASSUME Pals!PalPagesAssumption, PalInv, Pals!RenderList
  PROVE  PalInv'
  <1> DEFINE l == Pals!Listed(query)
  <1> USE DEF PalInv
  <1>1. /\ UNCHANGED <<snapshot, catalog, query, tour, flights>>
        /\ render.step = "list" /\ DOMAIN render.counts = {} /\ page.state # "list"
        /\ render = [step |-> render.step, list |-> render.list, counts |-> render.counts]
    BY DEF Pals!RenderList, RenderInv, PageInv
  <1>2. \A f \in flights : f.heard = FALSE
    BY <1>1 DEF FlightInv
  <1>3. FlightInv'
    BY <1>1, <1>2 DEF FlightInv
  <1>4. TourInv'
    BY <1>1 DEF TourInv, OfOwn
  <1>5. CASE Pals!Refusal(query) # None
    <2>1. /\ page' = Pals!Error(Pals!Refusal(query)) /\ had' = had
          /\ render' = [render EXCEPT !.step = "shown"]
      BY <1>5 DEF Pals!RenderList
    <2>2. page'.state # "list" /\ PageInv'
      BY <1>5, <2>1, Refusals DEF PageInv, Pals!Error
    <2>3. RenderInv' /\ QueryInv'
      BY <1>1, <2>1 DEF RenderInv, QueryInv
    <2>4. PinnedInv'
      BY <1>1, <2>1, <2>2 DEF PinnedInv
    <2> QED
      BY <1>3, <1>4, <2>2, <2>3, <2>4
  <1>6. CASE Pals!Refusal(query) = None
    <2> DEFINE list == [context |-> l.context, number |-> l.number, pages |-> l.pages,
                        items |-> l.items, shares |-> [p \in Pals!Range(l.items) |-> share[p]]]
    <2>1. /\ render' = [render EXCEPT !.step = "summary", !.list = list]
          /\ had' = [p \in Pals!Pals |-> {share[p]}] /\ page' = page
      BY <1>6 DEF Pals!RenderList
    <2>2. /\ l.context = [snapshot |-> snapshot, catalog |-> catalog]
          /\ l.number \in Nat \ {0} /\ l.number <= query.number /\ l.pages \in Nat
          /\ Pals!Range(l.items) \subseteq Pals!Pals
          /\ OfOwn(query) => OwnPage(l)
      BY ListedIsAPage DEF QueryInv
    <2>3. l.context \in Pinned /\ (query.context # None => l.context = query.context)
      BY <1>6, <2>2, PinnedIsRead DEF QueryInv, Pinned
    <2> HIDE DEF l
    <2>4. ListOK(list)
      BY <2>2, <2>3 DEF ListOK, OwnPage
    <2>5. /\ render' = [step |-> "summary", list |-> list, counts |-> render.counts]
          /\ list.items = l.items /\ list.shares = [p \in Pals!Range(l.items) |-> share[p]]
      BY <1>1, <2>1
    <2> HIDE DEF list
    <2>6. ListOK(render.list)'
      BY <1>1, <2>4, <2>5 DEF ListOK
    <2>7. SwitchesOK(render.list)'
      <3> DEFINE shares == [p \in Pals!Range(l.items) |-> share[p]]
      <3>1. render'.list.items = l.items /\ render'.list.shares = shares
        BY <2>5
      <3>2. /\ shares = [p \in Pals!Range(l.items) |-> shares[p]]
            /\ \A p \in Pals!Range(l.items) : shares[p] \in had'[p]
        BY <2>1, <2>2
      <3> HIDE DEF shares
      <3> QED
        BY <2>2, <3>1, <3>2 DEF SwitchesOK
    <2>8. RenderInv'
      BY <1>1, <2>5, <2>6, <2>7 DEF RenderInv
    <2>9. PageInv' /\ QueryInv'
      BY <1>1, <2>1 DEF PageInv, QueryInv
    <2>10. PinnedInv'
      BY <1>1, <2>1 DEF PinnedInv
    <2> QED
      BY <1>3, <1>4, <2>8, <2>9, <2>10
  <1> QED
    BY <1>5, <1>6

LEMMA CountingKeepsPals ==
  ASSUME Pals!PalPagesAssumption, PalInv, NEW scope, Pals!RenderCount(scope)
  PROVE  PalInv'
  <1> DEFINE q == Pals!SummaryQuery(scope)
  <1> USE DEF PalInv
  <1>1. /\ UNCHANGED <<snapshot, catalog, query, tour, flights, had>>
        /\ render.step = "summary" /\ page.state # "list"
        /\ render = [step |-> render.step, list |-> render.list, counts |-> render.counts]
        /\ ListOK(render.list) /\ SwitchesOK(render.list)
    BY DEF Pals!RenderCount, RenderInv, PageInv
  <1>2. FlightInv' /\ TourInv' /\ QueryInv'
    <2>1. \A f \in flights : f.heard = FALSE
      BY <1>1 DEF FlightInv
    <2> QED
      BY <1>1, <2>1 DEF FlightInv, TourInv, OfOwn, QueryInv
  <1>3. q.context = render.list.context /\ q.context \in Pinned
    BY <1>1 DEF Pals!SummaryQuery, Pals!Query, ListOK
  <1> HIDE DEF q
  <1>4. CASE Pals!Refusal(q) # None
    <2>1. /\ page' = Pals!Error(Pals!Refusal(q))
          /\ render' = [render EXCEPT !.step = "shown", !.list = None, !.counts = <<>>]
      BY <1>4 DEF Pals!RenderCount, q
    <2>2. page'.state # "list" /\ PageInv'
      BY <1>4, <2>1, Refusals DEF PageInv, Pals!Error
    <2>3. render' = [step |-> "shown", list |-> None, counts |-> <<>>]
      BY <1>1, <2>1
    <2>4. RenderInv' /\ PinnedInv'
      BY <1>1, <2>2, <2>3 DEF RenderInv, PinnedInv
    <2> QED
      BY <1>2, <2>2, <2>4
  <1>5. CASE Pals!Refusal(q) = None
    <2> DEFINE counts == [s \in DOMAIN render.counts \cup {scope} |->
                            IF s = scope
                            THEN [snapshot |-> snapshot, total |-> Pals!Listed(q).total]
                            ELSE render.counts[s]]
    <2>1. page' = page /\ render' = [render EXCEPT !.counts = counts]
      BY <1>5 DEF Pals!RenderCount, q
    <2>2. render' = [step |-> "summary", list |-> render.list, counts |-> counts]
      BY <1>1, <2>1
    <2>3. render.list.context.snapshot = snapshot
      BY <1>3, <1>5, PinnedIsRead
    <2>4. \A s \in DOMAIN counts : counts[s].snapshot = render.list.context.snapshot
      BY <1>1, <2>3 DEF RenderInv
    <2> HIDE DEF counts
    <2>5. ListOK(render.list)' /\ SwitchesOK(render.list)'
      BY <1>1, <2>2 DEF ListOK, SwitchesOK
    <2>6. RenderInv'
      BY <2>2, <2>4, <2>5 DEF RenderInv
    <2>7. PageInv' /\ PinnedInv'
      BY <1>1, <2>1, <2>2 DEF PageInv, PinnedInv
    <2> QED
      BY <1>2, <2>6, <2>7
  <1> QED
    BY <1>4, <1>5

\* The tour goes on with the next page of the same list, or starts anew.
LEMMA TouredIsTyped ==
  ASSUME Pals!PalPagesAssumption, PalInv, render.step = "summary"
  PROVE  LET t == Pals!Toured(render.list)
         IN /\ t = [context |-> t.context, scope |-> t.scope, shared |-> t.shared,
                    last |-> t.last, seen |-> t.seen, pages |-> t.pages, again |-> t.again]
            /\ t.last \in Nat
            /\ t.last > 0 => t.context = render.list.context
            /\ t.last > 0 /\ OfOwn(t) =>
                 LET own == Own(t.context.snapshot)
                 IN /\ t.pages = Pals!Pages(own) /\ t.last <= t.pages
                    /\ t.seen = Among(own, 0, t.last * PageSize)
  <1> DEFINE l == render.list
             t == Pals!Toured(l)
             own == Own(l.context.snapshot)
  <1>1. ListOK(l) /\ TourInv /\ PinnedInv
    BY DEF PalInv, RenderInv
  <1>2. l.context \in Pinned /\ l.number \in Nat \ {0} /\ PageSize \in Nat
    BY <1>1 DEF ListOK, Pals!PalPagesAssumption
  <1> HIDE DEF l
  <1>3. CASE l.number = 1
    <2>1. t = [context |-> l.context, scope |-> query.scope, shared |-> query.shared, last |-> 1,
               seen |-> Pals!Range(l.items), pages |-> l.pages, again |-> FALSE]
      BY <1>3 DEF Pals!Toured
    <2>2. OfOwn(t) => OwnPage(l)
      BY <1>1, <2>1 DEF OfOwn, ListOK
    <2>3. (l.number - 1) * PageSize = 0
      BY <1>2, <1>3
    <2>4. OfOwn(t) => /\ l.pages = Pals!Pages(own) /\ 1 <= l.pages
                      /\ Pals!Range(l.items) = Among(own, 0, 1 * PageSize)
      BY <1>3, <2>2, <2>3 DEF OwnPage
    <2> HIDE DEF own
    <2> QED
      BY <2>1, <2>4 DEF l, own
  <1>4. CASE l.number # 1 /\ l.number = tour.last + 1 /\ tour.scope = query.scope
             /\ tour.shared = query.shared
    <2>1. t = [tour EXCEPT !.last = l.number, !.pages = l.pages,
                           !.seen = @ \cup Pals!Range(l.items), !.context = l.context,
                           !.again = @ \/ tour.seen \cap Pals!Range(l.items) # {}]
      BY <1>4 DEF Pals!Toured
    <2>2. t = [context |-> l.context, scope |-> tour.scope, shared |-> tour.shared,
               last |-> l.number, seen |-> tour.seen \cup Pals!Range(l.items),
               pages |-> l.pages, again |-> t.again]
      BY <1>1, <2>1 DEF TourInv
    <2> HIDE DEF t
    <2>3. tour.last \in Nat /\ tour.last > 0 /\ l.number - 1 = tour.last
      BY <1>1, <1>2, <1>4 DEF TourInv
    <2>4. query.number > 1
      <3>1. l.number <= query.number /\ query.number \in Nat
        BY <1>1 DEF ListOK, PalInv, QueryInv
      <3> QED
        BY <1>2, <1>4, <3>1
    <2>5. l.context = tour.context
      <3>1. query.context = tour.context
        BY <1>1, <2>3, <2>4 DEF PinnedInv
      <3>2. tour.context # None
        BY <1>1, <2>3 DEF TourInv, Pinned, Pals!PalPagesAssumption
      <3> QED
        BY <1>1, <3>1, <3>2 DEF ListOK
    <2>6. ASSUME OfOwn(t)
          PROVE  /\ l.pages = Pals!Pages(own) /\ l.number <= l.pages
                 /\ tour.seen \cup Pals!Range(l.items) = Among(own, 0, l.number * PageSize)
      <3>1. OfOwn(query) /\ OfOwn(tour)
        BY <1>4, <2>2, <2>6 DEF OfOwn
      <3>2. /\ l.pages = Pals!Pages(own) /\ l.number <= l.pages
            /\ Pals!Range(l.items) = Among(own, tour.last * PageSize, l.number * PageSize)
        BY <1>1, <2>3, <3>1 DEF ListOK, OwnPage
      <3>3. tour.seen = Among(own, 0, tour.last * PageSize)
        BY <1>1, <2>3, <2>5, <3>1 DEF TourInv
      <3>4. own \in Seq(Contents[l.context.snapshot] \cap Mine)
        <4>1. l.context.snapshot \in DOMAIN Contents
          BY <1>2 DEF Pinned
        <4>2. Contents[l.context.snapshot] \cap Mine \in SUBSET Contents[l.context.snapshot]
          OBVIOUS
        <4>3. IsFiniteSet(Contents[l.context.snapshot])
              /\ Contents[l.context.snapshot] \in SUBSET Nat
          BY <4>1 DEF Pals!PalPagesAssumption, IsFiniteSet, Pals!IsFiniteSet
        <4>4. IsFiniteSet(Contents[l.context.snapshot] \cap Mine)
              /\ Contents[l.context.snapshot] \cap Mine \in SUBSET Nat
          BY <4>3, FS_Subset
        <4> QED
          BY <4>4, AscendingIsOrdered DEF Own
      <3> HIDE DEF own
      <3>5. /\ tour.last * PageSize \in Nat /\ l.number * PageSize \in Nat
            /\ tour.last * PageSize <= l.number * PageSize
        <4>1. tour.last <= l.number /\ l.number \in Nat
          BY <1>2, <2>3
        <4>2. PageSize * tour.last <= PageSize * l.number
          BY <1>2, <2>3, <4>1, Larger
        <4>3. /\ PageSize * tour.last = tour.last * PageSize
              /\ PageSize * l.number = l.number * PageSize
          BY <1>2, <2>3, <4>1
        <4> QED
          BY <1>2, <2>3, <4>1, <4>2, <4>3, Product
      <3>6. Among(own, 0, tour.last * PageSize)
              \cup Among(own, tour.last * PageSize, l.number * PageSize)
            = Among(own, 0, l.number * PageSize)
        BY <3>4, <3>5, AmongAdds
      <3> QED
        BY <3>2, <3>3, <3>6
    <2>7. t.last \in Nat /\ t.context = l.context
      BY <1>2, <2>2
    <2>8. OfOwn(t) => /\ t.pages = Pals!Pages(own) /\ t.last <= t.pages
                      /\ t.seen = Among(own, 0, t.last * PageSize)
      <3> HIDE DEF own
      <3> QED
        BY <2>2, <2>6
    <2>9. t = [context |-> t.context, scope |-> t.scope, shared |-> t.shared, last |-> t.last,
               seen |-> t.seen, pages |-> t.pages, again |-> t.again]
      BY <2>2
    <2>10. OfOwn(t) => /\ t.pages = Pals!Pages(Own(t.context.snapshot)) /\ t.last <= t.pages
                       /\ t.seen = Among(Own(t.context.snapshot), 0, t.last * PageSize)
      BY <2>7, <2>8
    <2> QED
      BY <2>7, <2>9, <2>10 DEF l, t
  <1>5. CASE l.number # 1 /\ ~(l.number = tour.last + 1 /\ tour.scope = query.scope
                                /\ tour.shared = query.shared)
    <2>1. t = Pals!NoTour
      BY <1>5 DEF Pals!Toured
    <2> QED
      BY <2>1 DEF Pals!NoTour, l
  <1> QED
    BY <1>3, <1>4, <1>5

LEMMA ShowingKeepsPals ==
  ASSUME Pals!PalPagesAssumption, PalInv, Pals!RenderPage
  PROVE  PalInv'
  <1> DEFINE l == render.list
             t == Pals!Toured(l)
             view == Pals!Shown(l, render.counts)
  <1> USE DEF PalInv
  <1>1. /\ UNCHANGED <<snapshot, catalog, query, flights, had>>
        /\ render.step = "summary" /\ DOMAIN render.counts = Pals!Scopes
        /\ page' = view /\ tour' = t
        /\ render' = [render EXCEPT !.step = "shown", !.list = None, !.counts = <<>>]
    BY DEF Pals!RenderPage
  <1>2. /\ render = [step |-> render.step, list |-> render.list, counts |-> render.counts]
        /\ ListOK(l) /\ SwitchesOK(l)
        /\ \A s \in Pals!Scopes : render.counts[s].snapshot = l.context.snapshot
    BY <1>1 DEF RenderInv
  <1>3. render' = [step |-> "shown", list |-> None, counts |-> <<>>]
    BY <1>1, <1>2
  <1>4. QueryInv' /\ FlightInv' /\ RenderInv'
    <2>1. \A f \in flights : f.heard = FALSE
      BY <1>1 DEF FlightInv
    <2> QED
      BY <1>1, <1>3, <2>1 DEF QueryInv, FlightInv, RenderInv
  <1>5. view = [state |-> "list", context |-> l.context, number |-> l.number, pages |-> l.pages,
                items |-> l.items, shares |-> l.shares, counts |-> render.counts]
    BY DEF Pals!Shown
  <1> HIDE DEF view
  <1>6. /\ t = [context |-> t.context, scope |-> t.scope, shared |-> t.shared,
                last |-> t.last, seen |-> t.seen, pages |-> t.pages, again |-> t.again]
        /\ t.last \in Nat
        /\ t.last > 0 => t.context = l.context
        /\ t.last > 0 /\ OfOwn(t) =>
             /\ t.pages = Pals!Pages(Own(t.context.snapshot)) /\ t.last <= t.pages
             /\ t.seen = Among(Own(t.context.snapshot), 0, t.last * PageSize)
    BY <1>1, TouredIsTyped
  <1> HIDE DEF t
  <1>7. l.context \in Pinned /\ l.pages \in Nat
    BY <1>2 DEF ListOK
  <1> HIDE DEF l
  <1>8. PageInv'
    <2>1. SwitchesOK(page)'
      BY <1>1, <1>2, <1>5 DEF SwitchesOK
    <2> QED
      BY <1>1, <1>2, <1>3, <1>5, <1>7, <2>1 DEF PageInv
  <1>9. TourInv'
    BY <1>1, <1>6, <1>7 DEF TourInv, OfOwn
  <1>10. PinnedInv'
    BY <1>1, <1>3, <1>5, <1>6 DEF PinnedInv
  <1> QED
    BY <1>4, <1>8, <1>9, <1>10

\* A request that has its answer.
LEMMA AnswerIsTyped ==
  ASSUME NEW f, IsFlight(f), NEW r
  PROVE  /\ IsFlight([f EXCEPT !.state = r]) /\ [f EXCEPT !.state = r].state = r
         /\ [f EXCEPT !.state = r].pal = f.pal
         /\ [f EXCEPT !.state = r].heard = f.heard
         /\ [f EXCEPT !.state = r].enabled = f.enabled
  <1>1. IsFlight([f EXCEPT !.state = r])
    BY DEF IsFlight
  <1>2. [f EXCEPT !.state = r].state = r
    BY DEF IsFlight
  <1>3. [f EXCEPT !.state = r].pal = f.pal
    BY DEF IsFlight
  <1>4. [f EXCEPT !.state = r].heard = f.heard
    BY DEF IsFlight
  <1>5. [f EXCEPT !.state = r].enabled = f.enabled
    BY DEF IsFlight
  <1> QED
    BY <1>1, <1>2, <1>3, <1>4, <1>5

\* A preference has one value more.
LEMMA PreferenceKeepsPals ==
  ASSUME PalInv, NEW p \in Pals!Pals, NEW e, had' = [had EXCEPT ![p] = @ \cup {e}],
         UNCHANGED <<snapshot, catalog, query, render, page, tour>>,
         \/ flights' = flights
         \/ \E f \in flights : \E g :
              /\ flights' = (flights \ {f}) \cup {g}
              /\ IsFlight(g) /\ g.pal = f.pal /\ g.heard = f.heard /\ g.enabled \in had'[g.pal]
  PROVE  PalInv'
  <1> USE DEF PalInv
  <1>1. had' = [q \in Pals!Pals |-> had'[q]] /\ \A q \in Pals!Pals : had[q] \subseteq had'[q]
    BY DEF QueryInv
  <1>2. QueryInv' /\ TourInv' /\ PinnedInv'
    BY <1>1 DEF QueryInv, TourInv, PinnedInv, OfOwn
  <1>3. ASSUME NEW l, SwitchesOK(l)
        PROVE  /\ Pals!Range(l.items) \subseteq Pals!Pals
               /\ l.shares = [q \in Pals!Range(l.items) |-> l.shares[q]]
               /\ \A q \in Pals!Range(l.items) : l.shares[q] \in had'[q]
    BY <1>1, <1>3 DEF SwitchesOK
  <1>4. RenderInv'
    <2>1. SwitchesOK(render.list) => SwitchesOK(render.list)'
      BY <1>3 DEF SwitchesOK
    <2> QED
      BY <2>1 DEF RenderInv, ListOK
  <1>5. PageInv'
    <2>1. SwitchesOK(page) => SwitchesOK(page)'
      BY <1>3 DEF SwitchesOK
    <2> QED
      BY <2>1 DEF PageInv
  <1>6. FlightInv'
    BY <1>1 DEF FlightInv
  <1> QED
    BY <1>2, <1>4, <1>5, <1>6

\* A request to set a preference, and its answer.
LEMMA SwitchingKeepsPals ==
  ASSUME Pals!PalPagesAssumption, PalInv,
         \/ \E p \in Pals!Pals : Pals!Toggle(p) \/ Pals!OtherToggles(p)
         \/ \E f \in flights : Pals!SetShare(f) \/ Pals!Answer(f)
  PROVE  PalInv'
  <1> USE DEF PalInv
  <1>1. ASSUME NEW p \in Pals!Pals, Pals!Toggle(p)
        PROVE  PalInv'
    <2>1. /\ UNCHANGED <<snapshot, catalog, query, render, page, tour, had>>
          /\ page.state = "list" /\ render.step = "shown"
      BY <1>1 DEF Pals!Toggle, PageInv, RenderInv
    <2> DEFINE g == [pal |-> p, enabled |-> ~page.shares[p], state |-> "sent", heard |-> TRUE,
                     nr |-> toggles + 1]
    <2>2. flights' = flights \cup {g}
      BY <1>1 DEF Pals!Toggle
    <2>3. IsFlight(g) /\ g.state # "ok" /\ g.heard \in BOOLEAN /\ g.pal = p
      BY DEF IsFlight
    <2> HIDE DEF g
    <2>4. FlightInv'
      BY <2>1, <2>2, <2>3 DEF FlightInv
    <2> QED
      BY <2>1, <2>4 DEF QueryInv, RenderInv, PageInv, TourInv, PinnedInv, SwitchesOK, ListOK, OfOwn
  <1>2. ASSUME NEW p \in Pals!Pals, Pals!OtherToggles(p)
        PROVE  PalInv'
    <2>1. /\ UNCHANGED <<snapshot, catalog, query, render, page, tour, flights>>
          /\ had' = [had EXCEPT ![p] = @ \cup {~share[p]}]
      BY <1>2 DEF Pals!OtherToggles, Pals!Prefer
    <2> QED
      BY <2>1, PreferenceKeepsPals
  <1>3. ASSUME NEW f \in flights, Pals!SetShare(f)
        PROVE  PalInv'
    <2>1. /\ UNCHANGED <<snapshot, catalog, query, render, page, tour>>
          /\ IsFlight(f) /\ f.pal \in Pals!Pals /\ f.heard \in BOOLEAN
          /\ f.heard => render.step = "shown"
      BY <1>3 DEF Pals!SetShare, FlightInv
    <2>2. CASE f.pal \in Contents[snapshot]
      <3> DEFINE g == [f EXCEPT !.state = "ok"]
      <3>1. /\ had' = [had EXCEPT ![f.pal] = @ \cup {f.enabled}]
            /\ flights' = (flights \ {f}) \cup {g}
        BY <1>3, <2>2 DEF Pals!SetShare, Pals!Prefer
      <3>2. /\ IsFlight(g) /\ g.pal = f.pal /\ g.heard = f.heard /\ g.enabled = f.enabled
        BY <2>1, AnswerIsTyped
      <3> HIDE DEF g
      <3>3. had'[f.pal] = had[f.pal] \cup {f.enabled}
        BY <2>1, <3>1 DEF QueryInv
      <3>4. g.enabled \in had'[g.pal]
        BY <3>2, <3>3
      <3> QED
        BY <2>1, <3>1, <3>2, <3>4, PreferenceKeepsPals
    <2>3. CASE f.pal \notin Contents[snapshot]
      <3> DEFINE g == [f EXCEPT !.state = "PAL_NOT_OWNED"]
      <3>1. had' = had /\ flights' = (flights \ {f}) \cup {g}
        BY <1>3, <2>3 DEF Pals!SetShare
      <3>2. /\ IsFlight(g) /\ g.pal = f.pal /\ g.heard = f.heard /\ g.state # "ok"
        BY <2>1, AnswerIsTyped
      <3> HIDE DEF g
      <3>3. FlightInv'
        BY <2>1, <3>1, <3>2 DEF FlightInv
      <3> QED
        BY <2>1, <3>1, <3>3
           DEF QueryInv, RenderInv, PageInv, TourInv, PinnedInv, SwitchesOK, ListOK, OfOwn
    <2> QED
      BY <2>2, <2>3
  <1>4. ASSUME NEW f \in flights, Pals!Answer(f)
        PROVE  PalInv'
    <2>1. UNCHANGED <<snapshot, catalog, query, render, tour, had>> /\ flights' = flights \ {f}
      BY <1>4 DEF Pals!Answer
    <2>2. QueryInv' /\ RenderInv' /\ FlightInv' /\ TourInv'
      BY <2>1 DEF QueryInv, RenderInv, FlightInv, TourInv, SwitchesOK, ListOK, OfOwn
    <2>3. CASE page' = page
      BY <2>1, <2>2, <2>3 DEF PageInv, PinnedInv, SwitchesOK
    <2>4. CASE f.heard /\ f.state = "ok" /\ page' = [page EXCEPT !.shares[f.pal] = f.enabled]
      <3> DEFINE shares == [page.shares EXCEPT ![f.pal] = f.enabled]
      <3>1. page' = [state |-> page.state, context |-> page.context, number |-> page.number,
                     pages |-> page.pages, items |-> page.items, shares |-> shares,
                     counts |-> page.counts]
        BY <2>4 DEF PageInv
      <3>2. f.enabled \in had[f.pal]
        BY <2>4 DEF FlightInv
      <3>3. SwitchesOK(page) => /\ shares = [p \in Pals!Range(page.items) |-> shares[p]]
                                /\ \A p \in Pals!Range(page.items) : shares[p] \in had[p]
        BY <3>2 DEF SwitchesOK
      <3> HIDE DEF shares
      <3>4. SwitchesOK(page) => SwitchesOK(page)'
        BY <2>1, <3>1, <3>3 DEF SwitchesOK
      <3>5. PageInv' /\ PinnedInv'
        BY <2>1, <3>1, <3>4 DEF PageInv, PinnedInv
      <3> QED
        BY <2>2, <3>5
    <2> QED
      BY <1>4, <2>3, <2>4 DEF Pals!Answer
  <1> QED
    BY <1>1, <1>2, <1>3, <1>4

LEMMA PalStepKeeps ==
  ASSUME Pals!PalPagesAssumption, PalInv, Pals!Next
  PROVE  PalInv'
  <1>1. ASSUME Pals!Publish \/ Pals!Activate
        PROVE  PalInv'
    <2>1. /\ UNCHANGED <<query, render, page, tour, flights, had>>
          /\ snapshot' \in DOMAIN Contents /\ catalog' \in Nat
      <3>1. Contents \in Seq(SUBSET Nat) /\ snapshot \in DOMAIN Contents /\ catalog \in Nat
        BY DEF PalInv, QueryInv, Pals!PalPagesAssumption
      <3> QED
        BY <1>1, <3>1 DEF Pals!Publish, Pals!Activate
    <2> QED
      BY <2>1
         DEF PalInv, QueryInv, RenderInv, PageInv, FlightInv, TourInv, PinnedInv, SwitchesOK,
             ListOK, OfOwn
  <1> QED
    BY <1>1, TurningKeepsPals, ListingKeepsPals, CountingKeepsPals, ShowingKeepsPals,
       SwitchingKeepsPals
    DEF Pals!Next

LEMMA PalInvStays ==
  ASSUME Pals!PalPagesAssumption, PalInv, [Pals!Next]_(Pals!vars)
  PROVE  PalInv'
  <1>1. CASE UNCHANGED Pals!vars
    BY <1>1
       DEF Pals!vars, PalInv, QueryInv, RenderInv, PageInv, FlightInv, TourInv, PinnedInv,
           SwitchesOK, ListOK, OfOwn
  <1> QED
    BY <1>1, PalStepKeeps

LEMMA PalInvIsEnough ==
  ASSUME Pals!PalPagesAssumption, PalInv
  PROVE  Pals!OwnPalsAllSeen /\ Pals!CountsOfTheList /\ Pals!SwitchShowsPastValue
  <1>1. Pals!CountsOfTheList /\ Pals!SwitchShowsPastValue
    BY DEF PalInv, PageInv, SwitchesOK, Pals!CountsOfTheList, Pals!SwitchShowsPastValue
  <1>2. ASSUME OfOwn(tour), tour.last > 0, tour.last = tour.pages
        PROVE  tour.seen = Contents[tour.context.snapshot] \cap Mine
    <2> DEFINE k == tour.context.snapshot
               F == Contents[k] \cap Mine
               own == Own(k)
    <2>1. k \in DOMAIN Contents
      BY <1>2 DEF PalInv, TourInv, Pinned
    <2>2. own \in Seq(F) /\ Elements(own) = F
      BY <2>1, PublishedPals DEF Own
    <2>3. tour.seen = Among(own, 0, Pals!Pages(own) * PageSize)
      BY <1>2 DEF PalInv, TourInv
    <2> HIDE DEF k, F, own
    <2>4. Pals!Pages(own) \in Nat /\ Len(own) <= Pals!Pages(own) * PageSize
      BY <2>2, PagesAreEnough
    <2>5. Pals!Pages(own) * PageSize \in Nat
      BY <2>4, Product DEF Pals!PalPagesAssumption
    <2>6. DOMAIN own = 1..Len(own) /\ Len(own) \in Nat
      BY <2>2
    <2>7. \A j \in DOMAIN own : 0 < j /\ j <= Pals!Pages(own) * PageSize
      BY <2>4, <2>5, <2>6
    <2>8. Among(own, 0, Pals!Pages(own) * PageSize) = Elements(own)
      BY <2>7 DEF Among, Elements
    <2> QED
      BY <2>2, <2>3, <2>8 DEF F, k
  <1>3. Pals!OwnPalsAllSeen
    BY <1>2 DEF Pals!OwnPalsAllSeen, OfOwn
  <1> QED
    BY <1>1, <1>3

\* The list of pals: whoever turns its pages to the last has seen all of his
\* own pals of one snapshot, whatever is published meanwhile, because the
\* context pins every page to it; the counters above a page are those of its
\* snapshot, and a switch shows no value that its preference has not had since
\* the page was read, in whatever order the answers come.
THEOREM PalsAreWhole ==
  ASSUME Pals!PalPagesAssumption
  PROVE  Pals!Spec =>
           [](Pals!OwnPalsAllSeen /\ Pals!CountsOfTheList /\ Pals!SwitchShowsPastValue)
  <1>1. Pals!Init => PalInv
    BY PalInvHoldsAtFirst
  <1>2. PalInv /\ [Pals!Next]_(Pals!vars) => PalInv'
    BY PalInvStays
  <1>3. PalInv => Pals!OwnPalsAllSeen /\ Pals!CountsOfTheList /\ Pals!SwitchShowsPastValue
    BY PalInvIsEnough
  <1> QED
    BY <1>1, <1>2, <1>3, PTL DEF Pals!Spec

\* The list and its filters together, as MCPages checks them.
THEOREM ListsStayWhole ==
  ASSUME Pals!PalPagesAssumption, Filters!FilterAssumption
  PROVE  Pals!Spec /\ Filters!Spec => ListsAreWhole
  <1> QED
    BY PalsAreWhole, FiltersAreAQuery, PTL DEF ListsAreWhole
=================================================================================
