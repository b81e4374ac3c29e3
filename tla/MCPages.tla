------------------------------- MODULE MCPages -------------------------------
(***************************************************************************)
(* The pages of the web application for TLC: the form that submits a       *)
(* breeding request (BreederForm), the view of its job (JobView), the      *)
(* routes of a plan as trees (BreedingTree), saving and listing plans      *)
(* (RouteSaves, PlanPages), and the list of pals with its filters and      *)
(* switches (PalPages, PalFilterForm).                                     *)
(*                                                                         *)
(* A behaviour is of one of the Parts, and the others stay at their        *)
(* initial states.  The form, the list of pals and its filters are two     *)
(* parts each, which bound different steps.                                *)
(***************************************************************************)
EXTENDS BreederForm, TLC

CONSTANTS Parts,
          lamball, anubis,
          Parents, Children, Indexes, StatedGenerations, MaxSteps,
          Plans, MaxPolls, MaxAttempts, MaxReloads, Slots,
          Routes, MaxRequests, PlanRoutes, PlanLimit, MaxPlanNow,
          Contents, CatalogVersions, Mine, PageSize, MaxToggles,
          Skills, MaxSkills, RawSkills, FieldOptions, PageCounts

VARIABLES part,
          existing, last, generation, steps, entities, occurrences, edges, named, state,
          job, shown, selected, timer, paused, answers, reloads,
          savedRows, savedRouteIds, route, busy, planError, requests, replies, sent, lost,
          now, rows, saving, planPage, planSeen, steady,
          snapshot, catalog, share, toggles, query, render, page, tour, pending, flights, had,
          address, fields, advancedOpen, touched, pages, attached, inView, seen, delivered

Tree == INSTANCE BreedingTree WITH Generations <- StatedGenerations
View == INSTANCE JobView
Saves == INSTANCE RouteSaves WITH saved <- savedRows, selected <- route, answers <- replies
PlanList == INSTANCE PlanPages WITH
  Routes <- PlanRoutes, Limit <- PlanLimit, MaxNow <- MaxPlanNow, page <- planPage, seen <- planSeen
Pals == INSTANCE PalPages WITH Catalogs <- CatalogVersions
Filters == INSTANCE PalFilterForm WITH
  Passives <- Skills, MaxPassives <- MaxSkills, RawPassives <- RawSkills, Options <- FieldOptions

ASSUME PagesAssumption ==
  /\ Tree!TreeAssumption /\ View!JobViewAssumption /\ Saves!RoutesAssumption
  /\ PlanList!PlanPagesAssumption /\ Pals!PalPagesAssumption /\ Filters!FilterAssumption

treeVars == <<existing, last, generation, steps, entities, occurrences, edges, named, state>>
viewVars == <<job, shown, selected, timer, paused, answers, reloads>>
saveVars == <<savedRows, savedRouteIds, route, busy, planError, requests, replies, sent, lost>>
planVars == <<now, rows, saving, planPage, planSeen, steady>>
palVars == <<snapshot, catalog, share, toggles, query, render, page, tour, pending, flights, had>>
filterVars == <<address, fields, advancedOpen, touched, pages, attached, inView, seen, delivered>>
listVars == <<palVars, filterVars>>
mcVars == <<part, vars, treeVars, viewVars, saveVars, planVars, listVars>>

-----------------------------------------------------------------------------
(* Values of the constants. *)
TwoCatalogs == <<{lamball, anubis} \cup Passives, {lamball}>>

Inventory(uid, pal) == [source |-> "inventory", pal |-> pal, uid |-> uid, producedBy |-> None]
Bred(index, pal) == [source |-> "intermediate", pal |-> pal, uid |-> None, producedBy |-> index]
Missing == [source |-> "missing", pal |-> lamball, uid |-> None, producedBy |-> None]
SomeParents == {Inventory("i1", lamball), Inventory("i1", anubis), Bred(0, lamball), Bred(1, lamball), Missing}

\* The search puts the routes that are ready first.
First  == [key |-> "a", ready |-> TRUE]
Second == [key |-> "b", ready |-> FALSE]
MorePlans == {<<>>, <<First, Second>>, <<Second>>}

ThreeThenThree == << {1, 2, 3, 5}, {2, 3, 4, 5} >>

SomeSkills == { <<>>, <<2, 2>>, <<3, 1, 2>> }

-----------------------------------------------------------------------------
\* Where a part has several initial states, they matter only when it moves.
MCInit ==
  /\ part \in Parts
  /\ IF part = "tree" THEN TRUE ELSE existing = FALSE
  /\ IF part = "saves" THEN TRUE ELSE savedRows = {} /\ route = 1
  /\ IF part = "filters" THEN TRUE
     ELSE address = [scope |-> "all", option |-> None, passives |-> <<>>, view |-> "cards"]
  /\ Init /\ Tree!Init /\ View!Init /\ Saves!Init /\ PlanList!Init
  /\ Pals!Init /\ Filters!Init

\* Two tabs with one pal, one version of the catalogue and no passives, while jobs may
\* be disabled, ...
TwoTabs ==
  /\ world'.version = 1 /\ service'.missing = {} /\ service'.limit = 5
  /\ \A t \in Tabs : /\ form'[t].target \in {None, lamball} /\ form'[t].passives = {}
                     /\ form'[t].generations \in {1, 5}

\* ... or one of them, with all values of the fields, one request and one change of
\* what surrounds it.
OneTab ==
  /\ submits' <= 1
  /\ service' # service => service = [missing |-> {}, creation |-> TRUE, limit |-> 5]
  /\ \A t \in Tabs : <<form'[t], call'[t]>> # <<form[t], call[t]>> =>
       \A u \in Tabs \ {t} : form[u] = Fresh([snapshot |-> 1, version |-> 1]) /\ call[u] = NoCall

\* Pages of pals are turned while a preference changes once, ...
Turning == toggles' <= 1 /\ flights' = {}

\* ... or the switches of one page are pressed.
Switching == UNCHANGED <<snapshot, catalog, query>>

\* The filters are used without scrolling, or the list is scrolled under the scopes.
Filtering == UNCHANGED inView
Scrolling == UNCHANGED touched /\ address'.option = None

MCNext ==
  /\ UNCHANGED part
  /\ \/ part = "two tabs" /\ Next /\ TwoTabs /\ UNCHANGED <<treeVars, viewVars, saveVars, planVars, listVars>>
     \/ part = "one tab" /\ Next /\ OneTab /\ UNCHANGED <<treeVars, viewVars, saveVars, planVars, listVars>>
     \/ part = "tree" /\ Tree!Next /\ UNCHANGED <<vars, viewVars, saveVars, planVars, listVars>>
     \/ part = "view" /\ View!Next /\ UNCHANGED <<vars, treeVars, saveVars, planVars, listVars>>
     \/ part = "saves" /\ Saves!Next /\ UNCHANGED <<vars, treeVars, viewVars, planVars, listVars>>
     \/ part = "plans" /\ PlanList!Next /\ UNCHANGED <<vars, treeVars, viewVars, saveVars, listVars>>
     \/ /\ UNCHANGED <<vars, treeVars, viewVars, saveVars, planVars>>
        /\ \/ part = "pals" /\ Pals!Next /\ Turning /\ UNCHANGED filterVars
           \/ part = "switches" /\ Pals!Next /\ Switching /\ UNCHANGED filterVars
           \/ part = "filters" /\ Filters!Next /\ Filtering /\ UNCHANGED palVars
           \/ part = "scrolling" /\ Filters!Next /\ Scrolling /\ UNCHANGED palVars

MCSpec == MCInit /\ [][MCNext]_mcVars

Symmetry == Permutations(Tabs) \cup Permutations(Passives) \cup Permutations(Slots)

-----------------------------------------------------------------------------
\* The tree of a route: see BreedingTree.
TreeIsTrue == Tree!TreeIsTrue

\* The page of a job and the plans a user keeps agree with the server, whatever
\* the order of the answers: see JobView, RouteSaves and PlanPages.
JobPageAgrees ==
  View!ResultIsFinal /\ View!PageIsWatched /\ Saves!SavedAgrees /\ PlanList!TourIsWhole

\* A list that is paged, filtered and switched while it changes shows what there
\* is, and asks for what was chosen: see PalPages and PalFilterForm.
ListsAreWhole ==
  /\ [](Pals!OwnPalsAllSeen /\ Pals!CountsOfTheList /\ Pals!SwitchShowsPastValue /\ Filters!AsAQuery)
  /\ Filters!LinksKeepTheFilters
=============================================================================
