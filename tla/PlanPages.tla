----------------------------- MODULE PlanPages ------------------------------
(***************************************************************************)
(* The list of saved plans, page by page from the newest to the oldest,    *)
(* while plans are saved and removed in other windows.  A page begins      *)
(* after the last plan of the page before it, known by the time at which   *)
(* it was saved and its route, and shows no plan saved after the first     *)
(* page was opened.                                                        *)
(*                                                                         *)
(* now is the clock of the database: a transaction saves with the time at  *)
(* which it began and may commit later.                                    *)
(***************************************************************************)
EXTENDS Integers, Sequences, FiniteSets, FiniteSetsExt, SequencesExt, Functions

CONSTANTS
  Routes,    \* numbers
  Limit,     \* plans of a page, 20
  MaxNow,    \* bound of the clock
  None

PlanPagesAssumption ==
  Routes \subseteq Nat /\ Limit \in Nat \ {0} /\ None \notin [at : Nat, route : Nat]

VARIABLES
  now,
  rows,      \* route |-> saved_at
  saving,    \* the transactions that have begun: route, saved_at
  page,      \* what is shown: a page of the list, the plan of a route or an error
  seen,      \* auxiliary: the plans of the pages since the first one, in their order
  steady     \* auxiliary: the plans that are there since the first page was opened

vars == <<now, rows, saving, page, seen, steady>>

Without(f, route) == [r \in DOMAIN f \ {route} |-> f[r]]
With(f, route, at) == [r \in DOMAIN f \cup {route} |-> IF r = route THEN at ELSE f[r]]

Init ==
  /\ now = 1
  /\ rows = <<>> /\ saving = {}
  /\ page = [kind |-> "none"] /\ seen = <<>> /\ steady = {}

-----------------------------------------------------------------------------
Tick ==
  /\ now < MaxNow /\ now' = now + 1
  /\ UNCHANGED <<rows, saving, page, seen, steady>>

BeginSave ==
  /\ Cardinality(saving) < 2
  /\ \E route \in Routes : saving' = saving \cup {[route |-> route, at |-> now]}
  /\ UNCHANGED <<now, rows, page, seen, steady>>

\* save_breeding_plan: the row of a route that is saved already stays.
CommitSave(save) ==
  /\ saving' = saving \ {save}
  /\ rows' = IF save.route \in DOMAIN rows THEN rows ELSE With(rows, save.route, save.at)
  /\ UNCHANGED <<now, page, seen, steady>>

\* Mutation: the time alone, although two plans may have been saved at one time.
AfterByTime(route, cursor) == rows[route] < cursor.at

After(route, cursor) ==
  \/ rows[route] < cursor.at
  \/ rows[route] = cursor.at /\ route < cursor.route

Matching(cursor, boundary) ==
  {r \in DOMAIN rows : rows[r] <= boundary /\ (cursor # None => After(r, cursor))}

Newer(r, s) == rows[r] > rows[s] \/ (rows[r] = rows[s] /\ r > s)

\* The newest first, then by route.
InOrder(routes) ==
  [n \in 1..Cardinality(routes) |->
    CHOOSE r \in routes : Cardinality({s \in routes : Newer(s, r)}) = n - 1]

Page(cursor, boundary) ==
  LET order == InOrder(Matching(cursor, boundary))
      visible == SubSeq(order, 1, Min({Limit, Len(order)}))
  IN [kind |-> "list", items |-> visible, boundary |-> boundary,
      cursor |-> IF Len(order) <= Limit THEN None
                 ELSE [at |-> rows[Last(visible)], route |-> Last(visible)]]

\* "/plans": the boundary is the time of the first page.
OpenList ==
  /\ page' = Page(None, now)
  /\ seen' = page'.items
  /\ steady' = {r \in DOMAIN rows : rows[r] <= now}
  /\ UNCHANGED <<now, rows, saving>>

OpenNext ==
  /\ page.kind = "list" /\ page.cursor # None
  /\ page' = Page(page.cursor, page.boundary)
  /\ seen' = seen \o page'.items
  /\ UNCHANGED <<now, rows, saving, steady>>

\* A link of the list, or an address from elsewhere: what is not saved is not found.
OpenPlan ==
  /\ \E route \in Routes :
       page' = IF route \in DOMAIN rows THEN [kind |-> "plan", route |-> route]
               ELSE [kind |-> "error"]
  /\ seen' = <<>> /\ steady' = {}
  /\ UNCHANGED <<now, rows, saving>>

\* remove_breeding_plan
Removed(route) == rows' = Without(rows, route)

\* removePlan: the list is opened when the plan is removed, and the page stays when not.
RemovePlan ==
  /\ page.kind = "plan"
  /\ Removed(page.route)
  /\ page' = [kind |-> "none"]
  /\ UNCHANGED <<now, saving, seen, steady>>

\* In another window.
RemoveElsewhere ==
  /\ \E route \in DOMAIN rows : Removed(route) /\ steady' = steady \ {route}
  /\ UNCHANGED <<now, saving, page, seen>>

Next ==
  \/ Tick \/ BeginSave \/ OpenList \/ OpenNext \/ OpenPlan \/ RemovePlan \/ RemoveElsewhere
  \/ \E save \in saving : CommitSave(save)

Spec == Init /\ [][Next]_vars

-----------------------------------------------------------------------------
(***************************************************************************)
(* Properties                                                              *)
(***************************************************************************)
\* At the last page every plan that was there all the time was seen exactly once, the
\* newer before the older, whatever was saved and removed on the way.
TourIsWhole ==
  page.kind = "list" /\ page.cursor = None =>
    /\ \A r \in steady : \E n \in DOMAIN seen : {m \in DOMAIN seen : seen[m] = r} = {n}
    /\ \A m, n \in DOMAIN seen :
         m < n /\ {seen[m], seen[n]} \subseteq steady => rows[seen[m]] >= rows[seen[n]]
=============================================================================
