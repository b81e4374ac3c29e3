----------------------------- MODULE RouteSaves -----------------------------
(***************************************************************************)
(* Saving the routes of a job as plans, and removing them: the buttons of  *)
(* the page of the job, the requests they send, and the rows of the player *)
(* in the database.                                                        *)
(*                                                                         *)
(* Only one route is marked as busy, so that requests for several routes,  *)
(* and several for one, may be under way.  The answers arrive in the order *)
(* in which the requests were executed, or not at all.                     *)
(***************************************************************************)
EXTENDS Integers, Sequences, FiniteSets

CONSTANTS
  Routes,
  MaxRequests,   \* bound: requests of one page
  None

RoutesAssumption == None \notin Routes

VARIABLES
  saved,          \* saved_breeding_plans of the player
  savedRouteIds,  \* what the page takes to be saved
  selected,
  busy,           \* busyRouteId
  planError,
  requests,       \* sent and not yet executed
  answers,        \* executed and not yet answered
  sent,           \* bound
  lost            \* auxiliary: the routes whose last request was executed without an answer

vars == <<saved, savedRouteIds, selected, busy, planError, requests, answers, sent, lost>>

Init ==
  /\ saved \in SUBSET Routes
  /\ savedRouteIds = saved      \* saved_plan_at of the first answer
  /\ selected \in Routes
  /\ busy = None /\ planError = FALSE
  /\ requests = {} /\ answers = <<>>
  /\ sent = 0 /\ lost = {}

-----------------------------------------------------------------------------
Select ==
  /\ selected' \in Routes \ {selected}
  /\ UNCHANGED <<saved, savedRouteIds, busy, planError, requests, answers, sent, lost>>

Send(kind) ==
  /\ busy # selected
  /\ sent < MaxRequests /\ sent' = sent + 1
  /\ busy' = selected
  /\ planError' = FALSE
  /\ requests' = requests \cup {[id |-> sent', kind |-> kind, route |-> selected]}
  /\ UNCHANGED <<saved, savedRouteIds, selected, answers, lost>>

\* saveSelectedRoute, of a job that is completed.
Save == selected \notin savedRouteIds /\ Send("save")

\* removeSelectedRoute
Remove == selected \in savedRouteIds /\ Send("remove")

Applied(rows, kind, route) == IF kind = "save" THEN rows \cup {route} ELSE rows \ {route}

\* Both functions may be called again.
Execute(request) ==
  /\ requests' = requests \ {request}
  /\ \/ /\ saved' = Applied(saved, request.kind, request.route)
        /\ answers' = Append(answers, [request |-> request, ok |-> TRUE])
     \/ /\ answers' = Append(answers, [request |-> request, ok |-> FALSE])
        /\ UNCHANGED saved
  /\ UNCHANGED <<savedRouteIds, selected, busy, planError, sent, lost>>

\* Mutation: the page does not wait for an answer that is ok.
TakenAlways(answer) ==
  savedRouteIds' = Applied(savedRouteIds, answer.request.kind, answer.request.route)

Taken(answer) ==
  savedRouteIds' = IF answer.ok
                   THEN Applied(savedRouteIds, answer.request.kind, answer.request.route)
                   ELSE savedRouteIds

\* Whatever came of it, no route is busy any more.
Answer ==
  /\ answers # <<>>
  /\ answers' = Tail(answers)
  /\ Taken(Head(answers))
  /\ planError' = (planError \/ ~Head(answers).ok)
  /\ busy' = None
  /\ lost' = IF Head(answers).ok THEN lost \ {Head(answers).request.route} ELSE lost
  /\ UNCHANGED <<saved, selected, requests, sent>>

\* The connection breaks after the request was executed.
LoseAnswer ==
  /\ answers # <<>>
  /\ answers' = Tail(answers)
  /\ planError' = TRUE
  /\ busy' = None
  /\ lost' = lost \cup {Head(answers).request.route}
  /\ UNCHANGED <<saved, savedRouteIds, selected, requests, sent>>

Next ==
  \/ Select \/ Save \/ Remove \/ Answer \/ LoseAnswer
  \/ \E request \in requests : Execute(request)

Spec == Init /\ [][Next]_vars

-----------------------------------------------------------------------------
(***************************************************************************)
(* Properties                                                              *)
(***************************************************************************)
UnderWay(route) ==
  \/ \E request \in requests : request.route = route
  \/ \E n \in DOMAIN answers : answers[n].request.route = route

\* When nothing is under way for a route, the page shows it as saved if and only if it
\* is, also after the requests of several clicks: unless an answer was lost, and then
\* until the next one that is ok.
SavedAgrees ==
  \A route \in Routes \ lost :
    ~UnderWay(route) => (route \in savedRouteIds <=> route \in saved)
=============================================================================
