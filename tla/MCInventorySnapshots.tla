------------------------ MODULE MCInventorySnapshots ------------------------
(***************************************************************************)
(* The inventory of a world for TLC: the transactions on its snapshots     *)
(* (InventorySnapshots), and what the pages make of the items in them: the *)
(* list of items (ItemPages), the trend of an item (ItemTrend) and how     *)
(* many of it can be crafted (ItemCapacity).                               *)
(*                                                                         *)
(* A behaviour is of one of the Parts, and the others stay at their        *)
(* initial states.  MaxLeases bounds the number of claims.                 *)
(***************************************************************************)
EXTENDS InventorySnapshots, TLC

CONSTANTS Parts, MaxLeases,
          Items, Food, Inventories, Made, ItemLimit, PageSizes, Searches, MaxPage, Letters,
          Quantities, Axis, MaxTrendNow,
          CraftItems, Books, MaxStock, MaxNodes, MaxBatches

VARIABLES part,
          itemSnapshot, itemQuery, itemPage, itemTour,
          trendNow, stock, synced, trendLatest, samples, observed, unparsed,
          book, inStock, item, recipe, low, high, phase, alternatives

ItemList == INSTANCE ItemPages WITH
  Limit <- ItemLimit, latest <- itemSnapshot, query <- itemQuery, shown <- itemPage,
  tour <- itemTour
Trend == INSTANCE ItemTrend WITH MaxNow <- MaxTrendNow, now <- trendNow, latest <- trendLatest
Capacity == INSTANCE ItemCapacity WITH Items <- CraftItems, stock <- inStock

ASSUME ItemAssumption == Trend!TrendAssumption /\ ItemList!ItemPagesAssumption

itemVars == <<itemSnapshot, itemQuery, itemPage, itemTour>>
trendVars == <<trendNow, stock, synced, trendLatest, samples, observed, unparsed>>
capacityVars == <<book, inStock, item, recipe, low, high, phase, alternatives>>
mcVars == <<part, vars, itemVars, trendVars, capacityVars>>

-----------------------------------------------------------------------------
(* Values of the constants. *)
MCRequests == Users \X SnapshotIds

Stack(quantity, craftable, bases) == [quantity |-> quantity, craftable |-> craftable, bases |-> bases]
FirstStock ==
  <<Stack(3, 0, {1}), Stack(5, 0, {2, 3}), Stack(1, 0, {4}), Stack(0, 2, {}), Stack(3, 0, {5}),
    Stack(0, 0, {}), Stack(2, 0, {1, 4}), Stack(7, 0, {2}), Stack(4, 1, {3})>>
SecondStock ==
  [FirstStock EXCEPT ![8] = Stack(0, 0, {}), ![6] = Stack(9, 9, {2, 6}), ![1] = Stack(1, 0, {1})]
TwoStocks == <<FirstStock, SecondStock>>
AllOrOdd == {1..9, {1, 3, 5, 7, 9}}
Sizes == <<1, 4>>

\* Recipes: 1 is raw, 2 and 3 are parts, 4 is the product.
Recipe(product, count, ingredients, deny) ==
  [product |-> product, count |-> count, ingredients |-> ingredients, deny |-> deny, kind |-> "handcraft"]
In(i, n) == [item |-> i, count |-> n]
SharedParts ==
  << Recipe(2, 2, <<In(1, 1)>>, {}), Recipe(3, 1, <<In(1, 1), In(2, 1)>>, {}),
     Recipe(4, 1, <<In(2, 1), In(3, 1)>>, {}) >>
Alternatives ==
  << Recipe(2, 1, <<In(1, 2)>>, {}), Recipe(2, 1, <<In(3, 1)>>, {}),
     Recipe(4, 2, <<In(2, 1), In(1, 1)>>, {}), Recipe(4, 1, <<In(3, 1)>>, {}),
     [Recipe(3, 1, <<In(1, 1)>>, {}) EXCEPT !.kind = "other"] >>
Denied ==
  << Recipe(2, 3, <<In(1, 1)>>, {}), Recipe(3, 1, <<In(2, 1)>>, {2}),
     Recipe(4, 1, <<In(2, 1), In(3, 1)>>, {}) >>
Cycle ==
  << Recipe(2, 1, <<In(3, 1)>>, {}), Recipe(3, 1, <<In(2, 1)>>, {}),
     Recipe(4, 1, <<In(3, 1), In(1, 1)>>, {1}) >>
Chain ==
  << Recipe(2, 1, <<In(1, 1)>>, {}), Recipe(3, 1, <<In(2, 1)>>, {}), Recipe(4, 1, <<In(3, 1)>>, {2}) >>
AllBooks == {SharedParts, Alternatives, Denied, Cycle, Chain}
-----------------------------------------------------------------------------
\* Where a part has several initial states, they matter only when it moves.
MCInit ==
  /\ part \in Parts
  /\ IF part = "trend" THEN TRUE ELSE stock = 0
  /\ IF part = "capacity" THEN TRUE
     ELSE book = SharedParts /\ inStock = [i \in CraftItems |-> 0] /\ item = 4
  /\ Init /\ ItemList!Init /\ Trend!Init /\ Capacity!Init

MCNext ==
  /\ UNCHANGED part
  /\ \/ part = "snapshots" /\ Next /\ lastLease' <= MaxLeases
          /\ UNCHANGED <<itemVars, trendVars, capacityVars>>
     \/ part = "items" /\ ItemList!Next /\ UNCHANGED <<vars, trendVars, capacityVars>>
     \/ part = "trend" /\ Trend!Next /\ UNCHANGED <<vars, itemVars, capacityVars>>
     \/ part = "capacity" /\ Capacity!Next /\ UNCHANGED <<vars, itemVars, trendVars>>

MCSpec == MCInit /\ [][MCNext]_mcVars

Symmetry == Permutations(JobIds) \cup Permutations(SnapshotIds) \cup Permutations(Contents)

-----------------------------------------------------------------------------
\* The items are all listed once, what is said to have changed has, and what is
\* said to be craftable can be crafted: see ItemPages, ItemTrend and ItemCapacity.
ItemsAddUp ==
  /\ [](part = "items" => ItemList!TourSeesAllOnce /\ ItemList!LinksLead)
  /\ [](part = "trend" => Trend!ChangeIsObserved)
  /\ [](part = "capacity" => Capacity!PlansAreSound)
  /\ ItemList!NamesAgree
=============================================================================
