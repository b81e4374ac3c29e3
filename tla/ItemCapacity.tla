---------------------------- MODULE ItemCapacity ----------------------------
(***************************************************************************)
(* How many of an item a guild can craft from what it has: a depth first   *)
(* search over the recipes for a number of batches, with one ledger that   *)
(* every branch consumes from, and a search for the largest number of      *)
(* batches that works.                                                     *)
(*                                                                         *)
(* A recipe is known by its place in the book, which is in the order of    *)
(* the recipe ids; items are numbers in the order of their ids.  Amounts   *)
(* stay below 2^53, where the code would saturate them.                    *)
(***************************************************************************)
EXTENDS Integers, Sequences, FiniteSets, FiniteSetsExt, SequencesExt, Functions

CONSTANTS
  Items,
  Books,          \* sequences of recipes: product, count, ingredients, deny, kind
  MaxStock,       \* bound: how many of an item the guild has
  MaxNodes,       \* maximumSearchNodes
  MaxBatches,     \* maximumBatches
  None

VARIABLES
  book, stock, item,   \* the question
  recipe,              \* the recipe of the item that is tried, as a place in Tops
  low, high,           \* the largest number of batches that worked, and one that did not
  phase,
  alternatives         \* the results for the recipes that were tried

vars == <<book, stock, item, recipe, low, high, phase, alternatives>>

Supported(r) == book[r].kind \in {"handcraft", "cooking"}

\* recipesByProduct, in the order of the ids.
Producing(i) == SetToSortSeq({r \in DOMAIN book : Supported(r) /\ book[r].product = i}, <)

-----------------------------------------------------------------------------
Ledger == [have |-> stock, order |-> <<>>, batches |-> [r \in DOMAIN book |-> 0]]

Failure(missing, status) == [missing |-> missing, status |-> status]
Missing(i, n) == {<<i, n>>}
TooComplex == Failure({}, "complexity_limit")

\* failureKey: the fewest missing, then the names, then the status by name.
Total(f) == FoldSet(LAMBDA m, sum : m[2] + sum, 0, f.missing)
StatusRank == [complexity_limit |-> 1, ready |-> 2, recipe_cycle |-> 3]
Key(f) ==
  LET entries == SetToSortSeq(f.missing, LAMBDA m, n : m[1] < n[1])
  IN <<Total(f)>> \o FlattenSeq(entries) \o <<StatusRank[f.status]>>

Before(s, t) ==
  \/ Len(s) < Len(t) /\ s = SubSeq(t, 1, Len(s))
  \/ \E k \in 1..Min({Len(s), Len(t)}) : s[k] < t[k] /\ SubSeq(s, 1, k - 1) = SubSeq(t, 1, k - 1)

Least(failures) ==
  IF failures = {} THEN TooComplex
  ELSE CHOOSE f \in failures : \A g \in failures \ {f} : Before(Key(f), Key(g))

Outcome(ledger, failure, budget) == [ledger |-> ledger, failure |-> failure, budget |-> budget]
Failed(f, budget) == Outcome(None, f, budget)

\* The product goes into the ledger, and the batches to the step of the recipe,
\* whose place in the plan is that of its first use.
Produce(ledger, r, batches) ==
  [have |-> [ledger.have EXCEPT ![book[r].product] = @ + book[r].count * batches],
   order |-> IF ledger.batches[r] = 0 THEN Append(ledger.order, r) ELSE ledger.order,
   batches |-> [ledger.batches EXCEPT ![r] = @ + batches]]

\* Mutation: what is used of an item stays in the ledger.
TakeNothing(ledger, i, amount) ==
  [rest |-> ledger, shortfall |-> amount - Min({ledger.have[i], amount})]

Take(ledger, i, amount) ==
  LET consumed == Min({ledger.have[i], amount})
  IN [rest |-> [ledger EXCEPT !.have[i] = @ - consumed], shortfall |-> amount - consumed]

Ceiling(n, d) == (n + d - 1) \div d

RECURSIVE ExecuteRecipe(_, _, _, _, _, _), SatisfyIngredients(_, _, _, _, _, _),
          TryOptions(_, _, _, _, _, _, _), ObtainOptions(_, _, _, _, _, _),
          TryRecipes(_, _, _, _, _, _, _)

\* Mutation: what a recipe denies is not denied below the next one.
ExecuteRecipeOwn(r, batches, ledger, forbidden, active, budget) ==
  IF budget = 0 THEN Failed(TooComplex, 0)
  ELSE LET s == SatisfyIngredients(book[r].ingredients, batches, ledger,
                                   book[r].deny, active, budget - 1)
       IN IF s.ledger = None THEN s ELSE [s EXCEPT !.ledger = Produce(@, r, batches)]

\* One node of the search.
ExecuteRecipe(r, batches, ledger, forbidden, active, budget) ==
  IF budget = 0 THEN Failed(TooComplex, 0)
  ELSE LET s == SatisfyIngredients(book[r].ingredients, batches, ledger,
                                   forbidden \cup book[r].deny, active, budget - 1)
       IN IF s.ledger = None THEN s ELSE [s EXCEPT !.ledger = Produce(@, r, batches)]

SatisfyIngredients(ingredients, batches, ledger, forbidden, active, budget) ==
  IF ingredients = <<>> THEN Outcome(ledger, None, budget)
  ELSE LET o == ObtainOptions(Head(ingredients).item, Head(ingredients).count * batches,
                              ledger, forbidden, active, budget)
       IN TryOptions(o.options, o.failures, Tail(ingredients), batches, forbidden, active, o.budget)

\* Each way to obtain an ingredient until the rest can be had too.
TryOptions(options, failures, ingredients, batches, forbidden, active, budget) ==
  IF options = <<>> THEN Failed(Least(failures), budget)
  ELSE LET s == SatisfyIngredients(ingredients, batches, Head(options), forbidden, active, budget)
       IN IF s.ledger # None THEN s
          ELSE TryOptions(Tail(options), failures \cup {s.failure}, ingredients, batches,
                          forbidden, active, s.budget)

\* What is there first; the shortfall by each of the recipes for the item.
ObtainOptions(i, amount, ledger, forbidden, active, budget) ==
  LET t == Take(ledger, i, amount)
      no(status) == [options |-> <<>>, budget |-> budget,
                     failures |-> {Failure(Missing(i, t.shortfall), status)}]
  IN IF t.shortfall = 0 THEN [options |-> <<t.rest>>, failures |-> {}, budget |-> budget]
     ELSE IF i \in active THEN no("recipe_cycle")
     ELSE IF i \in forbidden \/ Producing(i) = <<>> THEN no("ready")
     ELSE TryRecipes(Producing(i), i, t.shortfall, t.rest, forbidden, active, budget)

\* A recipe is used for the whole shortfall or not at all.
TryRecipes(recipes, i, shortfall, ledger, forbidden, active, budget) ==
  IF recipes = <<>> THEN [options |-> <<>>, failures |-> {}, budget |-> budget]
  ELSE LET s == ExecuteRecipe(Head(recipes), Ceiling(shortfall, book[Head(recipes)].count),
                              ledger, forbidden, active \cup {i}, budget)
           others == TryRecipes(Tail(recipes), i, shortfall, ledger, forbidden, active, s.budget)
       IN IF s.ledger = None THEN [others EXCEPT !.failures = @ \cup {s.failure}]
          ELSE [others EXCEPT !.options = <<[s.ledger EXCEPT !.have[i] = @ - shortfall]>> \o @]

\* attempt: from the whole inventory, with a budget of its own.
Attempt(r, batches) ==
  ExecuteRecipe(r, batches, Ledger, book[r].deny, {book[r].product}, MaxNodes)

Works(r, batches) == Attempt(r, batches).ledger # None

-----------------------------------------------------------------------------
Tops == Producing(item)
Top == Tops[recipe]

Init ==
  /\ book \in Books
  /\ stock \in [Items -> 0..MaxStock]
  /\ item \in {i \in Items : Producing(i) # <<>>}
  /\ recipe = 1 /\ low = 0 /\ high = 1
  /\ phase = "double"
  /\ alternatives = <<>>

\* The next recipe for the item, or the answer.
Conclude(alternative) ==
  /\ alternatives' = Append(alternatives, alternative)
  /\ recipe' = recipe + 1 /\ low' = 0 /\ high' = 1
  /\ phase' = IF recipe < Len(Tops) THEN "double" ELSE "done"

\* The number of batches is doubled until it does not work.  If the largest one
\* works, nothing is promised.
Double ==
  /\ phase = "double"
  /\ IF ~Works(Top, high)
     THEN phase' = "bisect" /\ UNCHANGED <<recipe, low, high, alternatives>>
     ELSE IF high = MaxBatches
     THEN Conclude([recipe |-> Top, craftable |-> 0, plan |-> None, limiting |-> {},
                    status |-> "complexity_limit"])
     ELSE /\ low' = high /\ high' = Min({high * 2, MaxBatches})
          /\ UNCHANGED <<recipe, phase, alternatives>>
  /\ UNCHANGED <<book, stock, item>>

\* Mutation: the number that worked is taken to be one more.
BisectAbove ==
  /\ phase = "bisect" /\ low + 1 < high
  /\ LET middle == (low + high) \div 2
     IN IF Works(Top, middle) THEN low' = middle + 1 /\ UNCHANGED high
        ELSE high' = middle /\ UNCHANGED low
  /\ UNCHANGED <<book, stock, item, recipe, phase, alternatives>>

Bisect ==
  /\ phase = "bisect" /\ low + 1 < high
  /\ LET middle == (low + high) \div 2
     IN IF Works(Top, middle) THEN low' = middle /\ UNCHANGED high
        ELSE high' = middle /\ UNCHANGED low
  /\ UNCHANGED <<book, stock, item, recipe, phase, alternatives>>

\* What one batch more would lack, and whether nothing works for another reason.
Answer ==
  /\ phase = "bisect" /\ low + 1 >= high
  /\ LET failure == Attempt(Top, low + 1).failure
     IN Conclude([recipe |-> Top, craftable |-> low * book[Top].count,
                  plan |-> IF low > 0 THEN Attempt(Top, low).ledger ELSE None,
                  limiting |-> failure.missing,
                  status |-> IF low = 0 THEN failure.status ELSE "ready"])
  /\ UNCHANGED <<book, stock, item>>

Next == Double \/ Bisect \/ Answer

Spec == Init /\ [][Next]_vars

\* The alternative that calculate returns: the most, then the first recipe.
Selected ==
  CHOOSE a \in Range(alternatives) : \A b \in Range(alternatives) :
    a.craftable > b.craftable \/ (a.craftable = b.craftable /\ a.recipe <= b.recipe)

-----------------------------------------------------------------------------
(***************************************************************************)
(* Properties                                                              *)
(***************************************************************************)
Planned == {a \in Range(alternatives) : a.plan # None}

Used(r, i) ==
  FoldSeq(LAMBDA g, sum : sum + (IF g.item = i THEN g.count ELSE 0), 0, book[r].ingredients)

\* What a plan leaves of an item, counted from its steps.
Balance(plan, i) ==
  stock[i] + FoldSet(LAMBDA r, sum : sum + plan.batches[r] *
    ((IF book[r].product = i THEN book[r].count ELSE 0) - Used(r, i)), 0, DOMAIN book)

\* The steps of a plan use no more of any item than there is and they produce,
\* and leave what the ledger says: nothing is counted twice, however many
\* branches share it.
PlanBalances ==
  \A a \in Planned : \A i \in Items : Balance(a.plan, i) >= 0 /\ Balance(a.plan, i) = a.plan.have[i]

\* The number that is promised comes on top of what the guild has of the item:
\* obtainable_total is the sum of the two.
PlanYieldsThePromise ==
  \A a \in Planned : Balance(a.plan, item) = stock[item] + a.craftable

\* The search ends at a number of batches that works while one more does not,
\* or the number is the largest the search may try.
EndsAtTheBoundary ==
  phase = "done" =>
    \A a \in Range(alternatives) : a.status # "complexity_limit" =>
      LET n == a.craftable \div book[a.recipe].count
      IN (n > 0 => Works(a.recipe, n)) /\ ~Works(a.recipe, n + 1)

\* No step of a plan makes an item that the recipe denies, and none makes the
\* item itself but the recipe that was asked for.
DeniedIsNotCrafted ==
  \A a \in Planned : \A r \in Range(a.plan.order) :
    r # a.recipe => book[r].product \notin book[a.recipe].deny \cup {item}

\* A plan spends what there is, on what may be made, up to the boundary.
PlansAreSound == PlanBalances /\ EndsAtTheBoundary /\ DeniedIsNotCrafted

\* The answer is the largest number of batches that works.
MaximumAdditional ==
  phase = "done" =>
    \A a \in Range(alternatives) : \A n \in 1..MaxBatches - 1 :
      a.status # "complexity_limit" /\ Works(a.recipe, n) => n * book[a.recipe].count <= a.craftable
=============================================================================
