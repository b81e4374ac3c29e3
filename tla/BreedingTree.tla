---------------------------- MODULE BreedingTree ----------------------------
(***************************************************************************)
(* buildBreedingTree: the tree that shows a breeding route, built from its *)
(* steps in the order of their indexes, and the layout of the tree in      *)
(* columns of generations for wide screens.  A route is data of another    *)
(* program: it may refer to steps that do not exist, or call one pal two   *)
(* species, and is then refused as a whole; which of several errors is     *)
(* reported is left out.                                                   *)
(***************************************************************************)
EXTENDS Integers, FiniteSets, FiniteSetsExt

CONSTANTS Parents,   \* the parents a step may have in the route
          Children,  \* the species a step may have as its child
          Indexes,   \* the step indexes of routes
          Generations, \* the generations a step may state; None if it has none
          MaxSteps,  \* bound: steps of a route
          None

\* The contract of a route: steps are counted from 0 and generations from 1.
TreeAssumption ==
  /\ Indexes \subseteq Nat /\ Generations \subseteq (Nat \ {0}) \cup {None}
  /\ \A parent \in Parents : parent.source \in {"intermediate", "inventory", "missing"}

VARIABLES existing,    \* the route says that the target exists already
          last,        \* index of the last step, -1 before the first one
          generation,  \* generation of each step so far
          steps, entities, occurrences, edges,
          named,       \* the species the route names at each card
          state        \* "building", "built" or "refused"
vars == <<existing, last, generation, steps, entities, occurrences, edges, named, state>>

Init ==
  /\ existing \in BOOLEAN /\ last = -1 /\ generation = <<>> /\ named = {}
  /\ steps = {} /\ entities = {} /\ occurrences = {} /\ edges = {}
  /\ state = "building"

-----------------------------------------------------------------------------
\* Identifiers: the child of a step, a pal of the inventory, a missing pal.
ChildId(index) == <<"child", index, None, None>>
EntityId(parent, index, side) ==
  CASE parent.source = "intermediate" -> ChildId(parent.producedBy)
    [] parent.source = "inventory" -> <<"inventory", None, None, parent.uid>>
    [] parent.source = "missing" -> <<"missing", index, side, None>>

\* Mutation: a pal of the inventory is in the tree once.
OccurrenceOfPal(parent, index, side) ==
  IF parent.source = "inventory" THEN <<"inventory", None, None, parent.uid>>
  ELSE EntityId(parent, index, side)

\* A pal of the inventory occurs wherever it is a parent.
OccurrenceId(parent, index, side) ==
  IF parent.source = "inventory" THEN <<"inventory", index, side, parent.uid>>
  ELSE EntityId(parent, index, side)

Produced(parent) == {e \in entities : e.id = ChildId(parent.producedBy)}

\* Mutation: a step that was made in the same generation may be a parent.
ParentExists(parent, index, g, side) ==
  CASE parent.source = "intermediate" ->
         \E e \in Produced(parent) : e.pal = parent.pal
    [] parent.source = "inventory" -> \A e \in entities : e.id = EntityId(parent, index, side) => e.pal = parent.pal
    [] parent.source = "missing" -> TRUE

\* Mutation: the species of a pal of the inventory is not compared.
ParentOfAnySpecies(parent, index, g, side) ==
  parent.source = "intermediate" => \E e \in Produced(parent) : e.pal = parent.pal /\ e.generation < g

\* resolveParent: an intermediate was made by an earlier step of an earlier
\* generation, and a pal of the inventory is of one species.
ParentIsValid(parent, index, g, side) ==
  CASE parent.source = "intermediate" ->
         \E e \in Produced(parent) : e.pal = parent.pal /\ e.generation < g
    [] parent.source = "inventory" ->
         \A e \in entities : e.id = EntityId(parent, index, side) => e.pal = parent.pal
    [] parent.source = "missing" -> TRUE

\* ... nor two species within one step.
SameSpecies(a, b) ==
  a.source = "inventory" /\ b.source = "inventory" /\ a.uid = b.uid => a.pal = b.pal

\* resolveSourceGenerations: a step without a generation follows its parents.
ResolvedGeneration(stated, a, b) ==
  LET earlier == {p \in {a, b} : p.source = "intermediate"}
  IN IF stated # None THEN stated
     ELSE Max({0} \cup {generation[p.producedBy] : p \in earlier}) + 1

Dangling(a, b) ==
  \E p \in {a, b} : p.source = "intermediate" /\ p.producedBy \notin DOMAIN generation

\* The column of a parent that no step makes.
ParentLayer(g) == Max({0, g - 1})

\* What a parent adds, unless a step made it; the entity of a pal stays as it
\* was first seen.
NewEntities(parent, index, g, side) ==
  IF parent.source = "intermediate" \/ \E e \in entities : e.id = EntityId(parent, index, side)
  THEN {}
  ELSE {[id |-> EntityId(parent, index, side), kind |-> parent.source, pal |-> parent.pal,
         generation |-> ParentLayer(g), target |-> FALSE]}

NewOccurrences(parent, index, g, side) ==
  IF parent.source = "intermediate" THEN {}
  ELSE {[id |-> OccurrenceId(parent, index, side), entity |-> EntityId(parent, index, side),
         layer |-> ParentLayer(g), step |-> index, role |-> side]}

EdgeFor(parent, index, side) ==
  [from |-> OccurrenceId(parent, index, side), to |-> ChildId(index), step |-> index, side |-> side]

ChildEntity(child, index, g) ==
  [id |-> ChildId(index), kind |-> "intermediate", pal |-> child, generation |-> g, target |-> FALSE]

ChildOccurrence(index, g) ==
  [id |-> ChildId(index), entity |-> ChildId(index), layer |-> g, step |-> index, role |-> "child"]

\* One turn of the loop, with the next step in the order of the indexes.
AddStep(index, stated, a, b, child) ==
  /\ state = "building" /\ Cardinality(steps) < MaxSteps /\ index >= last
  /\ ~Dangling(a, b)
  /\ LET g == ResolvedGeneration(stated, a, b) IN
       /\ index # last
       /\ ParentIsValid(a, index, g, "a")
       /\ ParentIsValid(b, index, g, "b")
       /\ SameSpecies(a, b)
       /\ last' = index
       /\ generation' = [i \in DOMAIN generation \cup {index} |-> IF i = index THEN g ELSE generation[i]]
       /\ steps' = steps \cup {[index |-> index, generation |-> g,
                                a |-> OccurrenceId(a, index, "a"), b |-> OccurrenceId(b, index, "b")]}
       /\ entities' = entities \cup NewEntities(a, index, g, "a") \cup NewEntities(b, index, g, "b")
                        \cup {ChildEntity(child, index, g)}
       /\ occurrences' = occurrences \cup NewOccurrences(a, index, g, "a")
                           \cup NewOccurrences(b, index, g, "b") \cup {ChildOccurrence(index, g)}
       /\ edges' = edges \cup {EdgeFor(a, index, "a"), EdgeFor(b, index, "b")}
       /\ named' = named \cup {<<OccurrenceId(a, index, "a"), a.pal>>,
                               <<OccurrenceId(b, index, "b"), b.pal>>, <<ChildId(index), child>>}
  /\ UNCHANGED <<existing, state>>

\* BreedingTreeBuildError: there is no tree but a message.
Refuse(index, stated, a, b) ==
  /\ state = "building" /\ Cardinality(steps) < MaxSteps /\ index >= last
  /\ \/ index = last
     \/ Dangling(a, b)
     \/ /\ ~Dangling(a, b)
        /\ LET g == ResolvedGeneration(stated, a, b) IN
          \/ ~ParentIsValid(a, index, g, "a") \/ ~ParentIsValid(b, index, g, "b")
          \/ ~SameSpecies(a, b)
  /\ state' = "refused"
  /\ UNCHANGED <<existing, last, generation, steps, entities, occurrences, edges, named>>

\* Mutation: the target is the child of the first step.
FinishFirst ==
  /\ state = "building" /\ steps # {}
  /\ entities' = {IF e.kind = "intermediate" /\ e.id[2] = 0 THEN [e EXCEPT !.kind = "target", !.target = TRUE] ELSE e :
                    e \in entities}
  /\ state' = "built"
  /\ UNCHANGED <<existing, last, generation, steps, occurrences, edges, named>>

\* The child of the last step is the target of the route.
Finish ==
  /\ state = "building" /\ steps # {}
  /\ entities' = {IF e.id = ChildId(last) THEN [e EXCEPT !.kind = "target", !.target = TRUE] ELSE e :
                    e \in entities}
  /\ state' = "built"
  /\ UNCHANGED <<existing, last, generation, steps, occurrences, edges, named>>

\* buildRouteWithoutSteps: the target alone, if it exists.
FinishEmpty ==
  /\ state = "building" /\ steps = {} /\ state' = "built"
  /\ LET id == <<"inventory", None, None, "target">> IN
       IF existing
       THEN /\ entities' = {[id |-> id, kind |-> "existing_target", pal |-> None, generation |-> 0, target |-> TRUE]}
            /\ occurrences' = {[id |-> id, entity |-> id, layer |-> 0, step |-> None, role |-> "child"]}
       ELSE UNCHANGED <<entities, occurrences>>
  /\ UNCHANGED <<existing, last, generation, steps, edges, named>>

Next ==
  \/ \E index \in Indexes, stated \in Generations, a \in Parents, b \in Parents :
       (\E child \in Children : AddStep(index, stated, a, b, child)) \/ Refuse(index, stated, a, b)
  \/ Finish \/ FinishEmpty

Spec == Init /\ [][Next]_vars

-----------------------------------------------------------------------------
\* The layout.

RoleOrder(role) == CASE role = "a" -> 0 [] role = "b" -> 1 [] role = "child" -> 2

\* compareOccurrences within a column.
Before(o, p) == o.step < p.step \/ (o.step = p.step /\ RoleOrder(o.role) < RoleOrder(p.role))

Layer(g) == {o \in occurrences : o.layer = g}
LayerNumbers == {o.layer : o \in occurrences}
ColumnCount == Max({0} \cup LayerNumbers) + 1
MaxRows == Max({1} \cup {Cardinality(Layer(g)) : g \in LayerNumbers})

\* Math.round
Rounded(n, d) == (2 * n + d) \div (2 * d)

\* Mutation: the rows are spread over one row less.
SpreadTight(i, count, maximum) ==
  IF count = 1 THEN (maximum + 1) \div 2
  ELSE Rounded(i * (maximum - 2), count - 1) + 1

\* spreadRows: the row of the i-th of "count" cards, counted from 0.
Spread(i, count, maximum) ==
  IF count = 1 THEN (maximum + 1) \div 2
  ELSE Rounded(i * (maximum - 1), count - 1) + 1

\* createTreeLayout
Cell(o) ==
  [column |-> o.layer,
   row |-> Spread(Cardinality({p \in Layer(o.layer) : Before(p, o)}), Cardinality(Layer(o.layer)), MaxRows)]

EntityOf(o) == CHOOSE e \in entities : e.id = o.entity

OccurrenceById(id) == CHOOSE o \in occurrences : o.id = id

\* The connectors of a step on wide screens end at its child.
Connected(s) ==
  \A id \in {s.a, s.b, ChildId(s.index)} : \E o \in occurrences : o.id = id

\* The badge of a card: where its pal comes from.
Source(e) ==
  CASE e.kind = "missing" -> "missing" [] e.kind = "target" -> "target"
    [] e.kind = "existing_target" -> "existing target"
    [] e.kind = "intermediate" -> "intermediate" [] e.kind = "inventory" -> "available"

\* The owner line of a pal that is still to be made names its step by the index.
ProducedByStep(e) == IF e.kind = "intermediate" THEN e.id[2] + 1 ELSE None

\* What a card says of its pal.
Card(o) ==
  LET e == EntityOf(o) IN
    [pal |-> e.pal, source |-> Source(e), madeBy |-> ProducedByStep(e),
     role |-> IF o.role # "child" THEN o.role ELSE IF e.target THEN "final target" ELSE "intermediate child"]

\* The cards of a step on narrow screens, under the step's number in the list.
MobileCards(s) ==
  [number |-> Cardinality({r \in steps : r.index <= s.index}),
   a |-> Card(OccurrenceById(s.a)), b |-> Card(OccurrenceById(s.b)),
   child |-> Card(OccurrenceById(ChildId(s.index)))]

\* A message, a hint that there is nothing to show, or the tree.
View == CASE state = "refused" -> "message"
          [] state = "built" /\ entities = {} -> "empty"
          [] state = "built" /\ entities # {} -> "tree"
          [] state = "building" -> "none"

-----------------------------------------------------------------------------
Built == View = "tree"

\* Every arrow leads from a column to a later one, and both of its ends are
\* there, so that the tree has no cycle.
ArrowsLeadOn ==
  Built => /\ \A s \in steps : Connected(s)
           /\ \A e \in edges : OccurrenceById(e.from).layer < OccurrenceById(e.to).layer

\* Two cards never share a cell, and each is in the grid.
CardsDoNotOverlap ==
  Built => /\ \A o, p \in occurrences : o # p => Cell(o) # Cell(p)
           /\ \A o \in occurrences : Cell(o).column \in 0..(ColumnCount - 1) /\ Cell(o).row \in 1..MaxRows

\* Whatever steps share a pal, every card shows the species that the route names
\* in its place.
CardsAsNamed ==
  Built => \A n \in named : Card(OccurrenceById(n[1])).pal = n[2]

\* Each use of a pal of the inventory has a card of its own, next to its step.
EachUseHasItsCard ==
  Built => \A s, r \in steps : s # r => {s.a, s.b} \cap {r.a, r.b} \subseteq {ChildId(i) : i \in Indexes}

\* If the route counts its steps from 0, the narrow screen numbers them as the
\* owner lines refer to them, and ends with the target.
NumbersAgree ==
  Built /\ {s.index : s \in steps} = 0..(Cardinality(steps) - 1) =>
    \A s \in steps :
      LET cards == MobileCards(s) IN
        /\ cards.child.role = "final target" <=> cards.number = Cardinality(steps)
        /\ cards.child.madeBy \in {cards.number, None}
        /\ \A card \in {cards.a, cards.b} : card.madeBy # None => card.madeBy < cards.number

\* The tree shows the route: its arrows, cards and numbers are those of the steps.
TreeIsTrue ==
  ArrowsLeadOn /\ CardsDoNotOverlap /\ CardsAsNamed /\ EachUseHasItsCard /\ NumbersAgree
=============================================================================
