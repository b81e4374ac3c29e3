------------------------------ MODULE PalPages ------------------------------
(***************************************************************************)
(* The list of pals page by page: what one rendering reads in several      *)
(* requests, the context that pins the following pages to the snapshot and *)
(* the catalog version of the first, and the switches by which an owner    *)
(* shares a pal with the guild while anybody turns pages.                  *)
(*                                                                         *)
(* Pals are numbers in the order of the list.  A link of the pagination    *)
(* loads the whole page anew.                                              *)
(***************************************************************************)
EXTENDS Integers, Sequences, FiniteSets, FiniteSetsExt, SequencesExt

CONSTANTS
  Contents,       \* the pals of each snapshot that is published, in turn
  Catalogs,       \* how many catalog versions are activated, in turn
  Mine,           \* the pals of the user
  PageSize,
  MaxToggles,     \* bound: changes of a sharing preference
  None

VARIABLES
  snapshot, catalog,  \* the latest snapshot and the active catalog version of the world
  share,              \* pal_share_preferences, a missing row being TRUE
  toggles,
  query,              \* the query of the page that is shown or being rendered
  render,             \* how far the server is with it
  page,               \* what the browser shows
  tour,               \* the pages turned one after the other
  pending, flights,   \* pendingId and the PATCH requests of the page
  had                 \* the values each preference has had since the page was read

vars == <<snapshot, catalog, share, toggles, query, render, page, tour, pending, flights, had>>

PalPagesAssumption ==
  /\ Contents \in Seq(SUBSET Nat) /\ Contents # <<>>
  /\ \A n \in DOMAIN Contents : IsFiniteSet(Contents[n])
  /\ PageSize \in Nat \ {0}
  /\ None \notin [snapshot : Nat, catalog : Nat]
                 \cup {"INVENTORY_SNAPSHOT_CHANGED", "GAME_DATA_VERSION_CHANGED"}

Pals == UNION Range(Contents)
Scopes == {"all", "mine", "shared"}
Latest == [snapshot |-> snapshot, catalog |-> catalog]

\* Mutation: the context is not passed on from the first page.
PageContextLater(p) == IF p.number = 1 THEN None ELSE p.context

\* pageContext and decodePageContext: the pair comes back as it was, and
\* anything that is not such a pair is no context.
PageContext(p) == p.context

Query(scope, shared, number, context) ==
  [scope |-> scope, shared |-> shared, number |-> number, context |-> context]

\* What parsePalListQuery takes for an absent or a malformed parameter.
DefaultQuery == Query("all", None, 1, None)

\* queryParams: the filters as they are, another number and the context.
QueryParams(q, number, context) == Query(q.scope, q.shared, number, context)

-----------------------------------------------------------------------------
\* list_available_pals_page_v4, one statement: the filters are applied to the
\* snapshot, the sharing preferences are those of the moment.
Refusal(q) ==
  IF q.context = None THEN None
  ELSE IF q.context.snapshot # snapshot THEN "INVENTORY_SNAPSHOT_CHANGED"
  ELSE IF q.context.catalog # catalog THEN "GAME_DATA_VERSION_CHANGED"
  ELSE None

Candidates(scope) ==
  {p \in Contents[snapshot] :
     \/ scope \in {"all", "mine"} /\ p \in Mine
     \/ scope \in {"all", "shared"} /\ p \notin Mine /\ share[p]}

\* Each of a set of numbers once, in order: a function of the place, for the
\* proofs.
Before(S, p) == Cardinality({q \in S : q < p})
Ascending(S) == [n \in 1..Cardinality(S) |-> CHOOSE p \in S : Before(S, p) = n - 1]

Filtered(q) == Ascending({p \in Candidates(q.scope) : q.shared = None \/ share[p] = q.shared})

Pages(found) == Max({1, (Len(found) + PageSize - 1) \div PageSize})

Listed(q) ==
  LET found == Filtered(q)
      number == Min({q.number, Pages(found)})
  IN [context |-> Latest, number |-> number, pages |-> Pages(found), total |-> Len(found),
      items |-> SubSeq(found, (number - 1) * PageSize + 1, Min({number * PageSize, Len(found)}))]

-----------------------------------------------------------------------------
NoTour ==
  [context |-> None, scope |-> "all", shared |-> None, last |-> 0, seen |-> {}, pages |-> 0,
   again |-> FALSE]

\* The page as the browser gets it: the list, the counters above it, and for
\* each pal the position of its switch.
Shown(l, counts) ==
  [state |-> "list", context |-> l.context, number |-> l.number, pages |-> l.pages,
   items |-> l.items, shares |-> l.shares, counts |-> counts]

Error(code) ==
  [state |-> code, context |-> None, number |-> 0, pages |-> 0, items |-> <<>>, shares |-> <<>>, counts |-> <<>>]

Init ==
  /\ snapshot = 1 /\ catalog = 1
  /\ share = [p \in Pals |-> TRUE] /\ toggles = 0
  /\ query = DefaultQuery
  /\ render = [step |-> "list", list |-> None, counts |-> <<>>]
  /\ page = Error("loading")
  /\ tour = NoTour
  /\ pending = None /\ flights = {}
  /\ had = [p \in Pals |-> {}]

\* The switches and the requests of the page that is left answer to nobody.
Open(q) ==
  /\ render.step = "shown"
  /\ query' = q
  /\ render' = [step |-> "list", list |-> None, counts |-> <<>>]
  /\ page' = Error("loading")
  /\ pending' = None /\ flights' = {[f EXCEPT !.heard = FALSE] : f \in flights}
  /\ UNCHANGED <<snapshot, catalog, share, toggles, tour, had>>

\* PalPagination links every page in a step or two: the first, the last, and
\* the neighbours of the current one.
TurnPage(number) ==
  /\ page.state = "list" /\ number \in 1..page.pages
  /\ Open(QueryParams(query, number, PageContext(page)))

\* A scope, a filter or the other view: no page and no context.
ChangeFilters(scope, shared) == Open(Query(scope, shared, 1, None))

\* The link of InventoryContextError and of the navigation.
Refresh == page.state # "loading" /\ page.state # "list" /\ Open(DefaultQuery)

-----------------------------------------------------------------------------
\* The tour goes on when the next page is shown, and starts with a first page.
Toured(l) ==
  IF l.number = 1
  THEN [context |-> l.context, scope |-> query.scope, shared |-> query.shared, last |-> 1,
        seen |-> Range(l.items), pages |-> l.pages, again |-> FALSE]
  ELSE IF /\ l.number = tour.last + 1 /\ tour.scope = query.scope /\ tour.shared = query.shared
  THEN [tour EXCEPT !.last = l.number, !.pages = l.pages, !.seen = @ \cup Range(l.items),
                    !.context = l.context, !.again = @ \/ tour.seen \cap Range(l.items) # {}]
  ELSE NoTour

\* listPals of the page: the sharing preferences are read with the list.
RenderList ==
  /\ render.step = "list"
  /\ IF Refusal(query) # None
     THEN /\ page' = Error(Refusal(query))
          /\ render' = [render EXCEPT !.step = "shown"]
          /\ UNCHANGED had
     ELSE LET l == Listed(query) IN
          /\ render' = [render EXCEPT !.step = "summary",
               !.list = [context |-> l.context, number |-> l.number, pages |-> l.pages, items |-> l.items,
                         shares |-> [p \in Range(l.items) |-> share[p]]]]
          /\ had' = [p \in Pals |-> {share[p]}]
          /\ UNCHANGED page
  /\ UNCHANGED <<snapshot, catalog, share, toggles, query, tour, pending, flights>>

\* Mutation: the counters are read without the context of the list.
SummaryLatest(scope) == Query(scope, None, 1, None)

\* stableContext: the counters are those of the snapshot that was listed.
SummaryQuery(scope) == Query(scope, None, 1, render.list.context)

\* getOverviewSummary: three lists of one pal at once, of which any may come first.
RenderCount(scope) ==
  /\ render.step = "summary" /\ scope \notin DOMAIN render.counts
  /\ IF Refusal(SummaryQuery(scope)) # None
     THEN /\ page' = Error(Refusal(SummaryQuery(scope)))
          /\ render' = [render EXCEPT !.step = "shown", !.list = None, !.counts = <<>>]
     ELSE /\ render' = [render EXCEPT !.counts =
               [s \in DOMAIN @ \cup {scope} |->
                  IF s = scope THEN [snapshot |-> snapshot, total |-> Listed(SummaryQuery(scope)).total]
                  ELSE render.counts[s]]]
          /\ UNCHANGED page
  /\ UNCHANGED <<snapshot, catalog, share, toggles, query, tour, pending, flights, had>>

RenderPage ==
  /\ render.step = "summary" /\ DOMAIN render.counts = Scopes
  /\ page' = Shown(render.list, render.counts)
  /\ tour' = Toured(render.list)
  /\ render' = [render EXCEPT !.step = "shown", !.list = None, !.counts = <<>>]
  /\ UNCHANGED <<snapshot, catalog, share, toggles, query, pending, flights, had>>

-----------------------------------------------------------------------------
\* Mutation: the switch moves at once.
ToggleAtOnce(p) ==
  /\ page.state = "list" /\ p \in Range(page.items) \cap Mine /\ pending # p
  /\ pending' = p
  /\ flights' = flights \cup {[pal |-> p, enabled |-> ~page.shares[p], state |-> "sent",
                               heard |-> TRUE, nr |-> toggles + 1]}
  /\ page' = [page EXCEPT !.shares[p] = ~@]
  /\ toggles < MaxToggles /\ toggles' = toggles + 1
  /\ UNCHANGED <<snapshot, catalog, share, query, render, tour, had>>

\* PalInventory's toggle: the switch moves when the answer has come.  Only the
\* last pal that was pressed counts as pending.
Toggle(p) ==
  /\ page.state = "list" /\ p \in Range(page.items) \cap Mine /\ pending # p
  /\ pending' = p
  /\ flights' = flights \cup {[pal |-> p, enabled |-> ~page.shares[p], state |-> "sent",
                               heard |-> TRUE, nr |-> toggles + 1]}
  /\ toggles < MaxToggles /\ toggles' = toggles + 1
  /\ UNCHANGED <<snapshot, catalog, share, query, render, page, tour, had>>

Prefer(p, enabled) ==
  /\ share' = [share EXCEPT ![p] = enabled]
  /\ had' = [had EXCEPT ![p] = @ \cup {enabled}]

\* set_pal_share_enabled_for_web: the pal must be in the latest snapshot.
SetShare(f) ==
  /\ f.state = "sent"
  /\ IF f.pal \in Contents[snapshot]
     THEN /\ Prefer(f.pal, f.enabled)
          /\ flights' = (flights \ {f}) \cup {[f EXCEPT !.state = "ok"]}
     ELSE /\ flights' = (flights \ {f}) \cup {[f EXCEPT !.state = "PAL_NOT_OWNED"]}
          /\ UNCHANGED <<share, had>>
  /\ UNCHANGED <<snapshot, catalog, toggles, query, render, page, tour, pending>>

\* Whatever the answer, no switch is pending any more.
Answer(f) ==
  /\ f.state # "sent"
  /\ flights' = flights \ {f}
  /\ IF f.heard
     THEN /\ pending' = None
          /\ page' = IF f.state = "ok" THEN [page EXCEPT !.shares[f.pal] = f.enabled] ELSE page
     ELSE UNCHANGED <<pending, page>>
  /\ UNCHANGED <<snapshot, catalog, share, toggles, query, render, tour, had>>

\* The owner of another pal of the guild changes his mind.
OtherToggles(p) ==
  /\ p \notin Mine /\ toggles < MaxToggles
  /\ Prefer(p, ~share[p]) /\ toggles' = toggles + 1
  /\ UNCHANGED <<snapshot, catalog, query, render, page, tour, pending, flights>>

\* A snapshot is published, or a catalog version activated.
Publish ==
  /\ snapshot < Len(Contents) /\ snapshot' = snapshot + 1
  /\ UNCHANGED <<catalog, share, toggles, query, render, page, tour, pending, flights, had>>

Activate ==
  /\ catalog < Catalogs /\ catalog' = catalog + 1
  /\ UNCHANGED <<snapshot, share, toggles, query, render, page, tour, pending, flights, had>>

Next ==
  \/ \E n \in 1..Cardinality(Pals) : TurnPage(n)
  \/ \E scope \in Scopes, shared \in {None, TRUE, FALSE} : ChangeFilters(scope, shared)
  \/ Refresh \/ RenderList \/ RenderPage
  \/ \E scope \in Scopes : RenderCount(scope)
  \/ \E p \in Pals : Toggle(p) \/ OtherToggles(p)
  \/ \E f \in flights : SetShare(f) \/ Answer(f)
  \/ Publish \/ Activate

Spec == Init /\ [][Next]_vars

-----------------------------------------------------------------------------
(***************************************************************************)
(* Properties                                                              *)
(***************************************************************************)
\* A page has as many items as it may, and its counters stand for all scopes.
TypeOK ==
  /\ snapshot \in 1..Len(Contents) /\ catalog \in 1..Catalogs
  /\ share \in [Pals -> BOOLEAN]
  /\ render.step \in {"list", "summary", "shown"}
  /\ Len(page.items) <= PageSize
  /\ page.state = "list" => DOMAIN page.counts = Scopes /\ page.number \in 1..page.pages
  /\ pending \in Pals \cup {None}

\* A list that sharing does not bear on shows every pal when its last page has
\* been reached, whatever is published meanwhile.
OwnPalsAllSeen ==
  tour.scope = "mine" /\ tour.shared = None /\ tour.last > 0 /\ tour.last = tour.pages =>
    tour.seen = Contents[tour.context.snapshot] \cap Mine

\* The counters above a list are those of the snapshot it is from.
CountsOfTheList ==
  page.state = "list" => \A s \in Scopes : page.counts[s].snapshot = page.context.snapshot

\* A switch never shows a value that the preference did not have since the
\* page was read, however the answers of several switches overtake each other.
SwitchShowsPastValue ==
  page.state = "list" => \A p \in Range(page.items) : page.shares[p] \in had[p]

\* No pal is seen twice by turning the pages one after the other.
NoPalSeenTwice == ~tour.again
=============================================================================
