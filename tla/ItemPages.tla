----------------------------- MODULE ItemPages ------------------------------
(***************************************************************************)
(* The item inventory of a guild in the browser: the list that the server  *)
(* makes of the latest snapshot for every request, the page of it that an  *)
(* address asks for, the names of the bases, and the links to other pages. *)
(*                                                                         *)
(* Items are numbers in the order of their names, and snapshots too.  A    *)
(* search is known by the items whose names contain it.                    *)
(***************************************************************************)
EXTENDS Integers, Sequences, FiniteSets, FiniteSetsExt, SequencesExt, Functions

CONSTANTS
  Items, Food,
  Inventories,   \* for each snapshot, for each item: quantity, craftable, bases
  Made,          \* the items that have a recipe
  Limit,         \* the most items of one answer
  PageSizes,     \* ITEM_PAGE_SIZES, the first is the default
  Searches,      \* sets of items
  MaxPage,       \* bound: the largest page an address asks for
  Letters        \* how many letters the alphabet of base names has

ItemPagesAssumption ==
  /\ Items \subseteq Nat /\ IsFiniteSet(Items) /\ Food \subseteq Items
  /\ Limit \in Nat
  /\ PageSizes \in Seq(Nat \ {0}) /\ PageSizes # <<>>
  /\ Inventories # <<>>
  /\ Inventories \in Seq([Items -> [quantity : Nat, craftable : Nat, bases : SUBSET Nat]])
  /\ \A s \in DOMAIN Inventories, i \in Items : IsFiniteSet(Inventories[s][i].bases)
  /\ Letters \in Nat \ {0}

VARIABLES
  latest,    \* the latest snapshot
  query,     \* what the address asks for
  shown,     \* the page that is shown
  tour       \* auxiliary: the pages seen since page one by following "next"

vars == <<latest, query, shown, tour>>

Kinds == {"all", "material", "food"}

\* The elements of a set in an order.
Ordered(S, Before(_, _)) ==
  [n \in 1..Cardinality(S) |->
    CHOOSE i \in S : Cardinality({j \in S : Before(j, i)}) = n - 1]

-----------------------------------------------------------------------------
\* What the database knows of, cut off in the order of names.
Candidates(s) ==
  LET known == Ordered({i \in Items : Inventories[s][i].quantity > 0 \/ i \in Made}, <)
  IN Range(SubSeq(known, 1, Min({Limit, Len(known)})))

\* calculateGuildItemCapacities: what is neither there nor can be made is left out.
Listed(s) ==
  {i \in Candidates(s) : Inventories[s][i].quantity > 0 \/ Inventories[s][i].craftable > 0}

OfKind(kind) == IF kind = "all" THEN Items ELSE IF kind = "food" THEN Food ELSE Items \ Food

\* The most first, then by name.
Filtered(s, q) ==
  Ordered(Listed(s) \cap q.search \cap OfKind(q.kind),
    LAMBDA i, j : \/ Inventories[s][i].quantity > Inventories[s][j].quantity
                  \/ Inventories[s][i].quantity = Inventories[s][j].quantity /\ i < j)

TotalPages(s, q) == (Len(Filtered(s, q)) + q.size - 1) \div q.size

PageNumber(s, q) == Min({q.page, Max({TotalPages(s, q), 1})})

\* Mutation: a page starts at the last item of the one before it.
PageItemsOverlapping(s, q) ==
  LET list == Filtered(s, q)
      start == (PageNumber(s, q) - 1) * q.size
  IN SubSeq(list, Max({start, 1}), Min({start + q.size, Len(list)}))

PageItems(s, q) ==
  LET list == Filtered(s, q)
      start == (PageNumber(s, q) - 1) * q.size
  IN SubSeq(list, start + 1, Min({start + q.size, Len(list)}))

\* alphabeticIndex: A to Z, then AA and so on.
Name[n \in Nat] ==
  IF n = 0 THEN <<>> ELSE Append(Name[(n - 1) \div Letters], (n - 1) % Letters)

\* Mutation: the bases of the page.
BaseNamesOfPage(s, q) ==
  LET bases == UNION {Inventories[s][i].bases : i \in Range(PageItems(s, q))}
      order == Ordered(bases, <)
  IN {<<order[n], Name[n]>> : n \in DOMAIN order}

\* The bases of all listed items, also of those that are not on the page.
BaseNames(s, q) ==
  LET bases == UNION {Inventories[s][i].bases : i \in Listed(s)}
      order == Ordered(bases, <)
  IN {<<order[n], Name[n]>> : n \in DOMAIN order}

\* Mutation: one page earlier the middle is shown.
PageTokensEarly(current, total) ==
  IF total <= 7 THEN 1..total
  ELSE IF current <= 3 THEN 1..5 \cup {total}
  ELSE IF current >= total - 3 THEN {1} \cup (total - 4)..total
  ELSE {1, current - 1, current, current + 1, total}

\* pageTokens: an ellipsis stands for the pages between two that are not neighbours.
PageTokens(current, total) ==
  IF total <= 7 THEN 1..total
  ELSE IF current <= 4 THEN 1..5 \cup {total}
  ELSE IF current >= total - 3 THEN {1} \cup (total - 4)..total
  ELSE {1, current - 1, current, current + 1, total}

\* The links to pages, to the one before and to the next one.
Links ==
  PageTokens(shown.page, shown.total)
  \cup (IF shown.page <= 1 THEN {} ELSE {shown.page - 1})
  \cup (IF shown.page >= shown.total THEN {} ELSE {shown.page + 1})

-----------------------------------------------------------------------------
\* What the server answers from the latest snapshot.
Rendered(q) ==
  [snapshot |-> latest, page |-> PageNumber(latest, q), total |-> TotalPages(latest, q),
   items |-> PageItems(latest, q),
   names |-> {base \in BaseNames(latest, q) :
                \E i \in Range(PageItems(latest, q)) : base[1] \in Inventories[latest][i].bases}]

Show(q) ==
  /\ query' = q
  /\ shown' = Rendered(q)

Start(page) == <<[snapshot |-> page.snapshot, items |-> page.items]>>

Open(q) ==
  /\ Show(q)
  /\ tour' = IF shown'.page = 1 THEN Start(shown') ELSE <<>>
  /\ UNCHANGED latest

Init ==
  /\ latest = 1
  /\ query = [search |-> Items, kind |-> "all", page |-> 1, size |-> PageSizes[1]]
  /\ shown = Rendered(query)
  /\ tour = Start(shown)

\* The form leaves the page out of the address.
Apply ==
  \E search \in Searches, kind \in Kinds, size \in Range(PageSizes) :
    Open([search |-> search, kind |-> kind, page |-> 1, size |-> size])

\* An address from elsewhere, whose page need not exist.
Address == \E page \in 1..MaxPage : Open([query EXCEPT !.page = page])

\* pageHref: the rest of the query stays.
Turn ==
  \E page \in Links :
    /\ Show([query EXCEPT !.page = page])
    /\ tour' = IF page = 1 THEN Start(shown')
               ELSE IF tour # <<>> /\ page = shown.page + 1 /\ Len(tour) = shown.page
               THEN tour \o Start(shown')
               ELSE <<>>
    /\ UNCHANGED latest

Publish ==
  /\ latest < Len(Inventories)
  /\ latest' = latest + 1
  /\ UNCHANGED <<query, shown, tour>>

Next == Apply \/ Address \/ Turn \/ Publish

Spec == Init /\ [][Next]_vars

-----------------------------------------------------------------------------
(***************************************************************************)
(* Properties                                                              *)
(***************************************************************************)
Toured == tour # <<>> /\ Len(tour) = shown.total

\* Following "next" from page one to the last one shows everything that matches
\* exactly once and in order, when no snapshot is published on the way.
TourSeesAllOnce ==
  Toured /\ (\A n \in DOMAIN tour : tour[n].snapshot = tour[1].snapshot) =>
    FlattenSeq([n \in DOMAIN tour |-> tour[n].items]) = Filtered(tour[1].snapshot, query)

\* A base keeps its name from page to page and from filter to filter of a snapshot,
\* and no two bases share one.
NamesStay ==
  shown'.snapshot = shown.snapshot =>
    \A old \in shown.names, new \in shown'.names : old[1] = new[1] <=> old[2] = new[2]

NamesAgree == [][NamesStay]_vars

\* From the page that is shown its neighbours can be reached, every link leads to a
\* page there is, and an ellipsis stands for two pages or more.
LinksLead ==
  shown.total > 0 =>
    LET tokens == PageTokens(shown.page, shown.total)
    IN /\ Links \subseteq 1..shown.total
       /\ (shown.page - 1)..(shown.page + 1) \cap 1..shown.total \subseteq tokens
       /\ \A hidden \in 1..shown.total \ tokens :
            \E other \in {hidden - 1, hidden + 1} : other \in 1..shown.total \ tokens

\* All pages of a tour are of one snapshot.
TourOfOneSnapshot == \A n \in DOMAIN tour : tour[n].snapshot = tour[1].snapshot

\* Whatever the guild has of an item is on some page.
StockIsListed ==
  \A i \in Items : Inventories[latest][i].quantity > 0 => i \in Listed(latest)
=============================================================================
