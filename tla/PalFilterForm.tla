--------------------------- MODULE PalFilterForm ----------------------------
(***************************************************************************)
(* The filters of the list of pals and its pagination, as they live in the *)
(* browser: fields that take their value from the address once, links that *)
(* change the address under them, a form that loads the page anew, and a   *)
(* floating pagination that follows what the window shows.                 *)
(*                                                                         *)
(* Passive skills are numbers in the order of their identifiers.  One      *)
(* select field stands for the four of the advanced filters.               *)
(***************************************************************************)
EXTENDS Integers, Sequences, FiniteSets, SequencesExt

CONSTANTS
  Passives,
  MaxPassives,   \* how many of them a query may ask for
  RawPassives,   \* the passive parameters an address may have, as sequences
  Options,       \* the values of the select field
  PageCounts,    \* the numbers of pages a list may have, 0 for an empty one
  None

VARIABLES
  address,       \* the parameters of the page that is shown
  fields,        \* the values the components of the form hold
  advancedOpen,
  touched,       \* the form was changed since the address was
  pages,         \* total_pages, 0 for an empty list, where the pagination is not rendered
  attached,      \* the observer watches the list that is on the page
  inView,        \* what the window shows: the list, the pagination at its end
  seen,          \* inventoryVisible and inlineVisible
  delivered      \* the observer has reported what the window shows

form == <<fields, advancedOpen, touched>>
scroll == <<pages, attached, inView, seen, delivered>>
vars == <<address, form, scroll>>

Scopes == {"all", "mine", "shared"}
Views == {"cards", "table"}

FilterAssumption ==
  Passives \subseteq Nat /\ RawPassives \subseteq Seq(Passives) /\ MaxPassives \in Nat

\* Each of a set of numbers once, in order: a function of the place, for the
\* proofs.
Before(S, p) == Cardinality({q \in S : q < p})
Ascending(S) == [n \in 1..Cardinality(S) |-> CHOOSE p \in S : Before(S, p) = n - 1]

\* passiveValues and the state of the combobox: each once, in order, MaxPassives at most.
FirstFew(raw) ==
  LET sorted == Ascending(Range(raw))
  IN SubSeq(sorted, 1, IF Len(sorted) < MaxPassives THEN Len(sorted) ELSE MaxPassives)

\* parsePalListQuery.
Parsed(a) == [a EXCEPT !.passives = FirstFew(@)]

Invisible == [list |-> FALSE, inline |-> FALSE]

\* useState(initialValue): every field takes its value from the address.
Fresh(a) ==
  /\ fields' = [option |-> a.option, passives |-> FirstFew(a.passives)]
  /\ advancedOpen' = (a.option # None)
  /\ touched' = FALSE

\* A page that is loaded renders everything anew.
Load(a) ==
  /\ address' = a
  /\ Fresh(a)
  /\ pages' \in PageCounts
  /\ attached' = (pages' > 1)
  /\ inView' = Invisible /\ seen' = Invisible /\ delivered' = FALSE

Init ==
  /\ address \in [scope : Scopes, option : Options \cup {None}, passives : RawPassives, view : Views]
  /\ fields = [option |-> address.option, passives |-> FirstFew(address.passives)]
  /\ advancedOpen = (address.option # None)
  /\ touched = FALSE
  /\ pages \in PageCounts
  /\ attached = (pages > 1)
  /\ inView = Invisible /\ seen = Invisible /\ delivered = FALSE

-----------------------------------------------------------------------------
SameList(a) == a = address
EffectRuns(a) == pages' # pages \/ Parsed(a).view # Parsed(address).view

\* A Link changes the address and the properties of the components.  The list
\* has the parameters for its key and is another one, the fields stay; the
\* effect of the pagination runs again if the number of pages or the view is new.
Follow(a) ==
  /\ address' = a
  /\ touched' = FALSE
  /\ UNCHANGED <<fields, advancedOpen>>
  /\ pages' \in PageCounts
  /\ attached' = (pages' > 1 /\ (EffectRuns(a) \/ (SameList(a) /\ attached)))
  /\ seen' = IF pages = 0 \/ pages' = 0 THEN Invisible ELSE seen
  /\ inView' \in [list : BOOLEAN, inline : BOOLEAN]
  /\ delivered' = FALSE

ScopeHref(scope) == [Parsed(address) EXCEPT !.scope = scope]

ResetHref == [address EXCEPT !.option = None, !.passives = <<>>]

\* Mutation: set in place of append keeps the last of a repeated parameter.
ViewHrefLast(view) == [address EXCEPT !.view = view, !.passives = IF @ = <<>> THEN @ ELSE <<Last(@)>>]

\* The parameters as they are, unparsed, without page and context.
ViewHref(view) == [address EXCEPT !.view = view]

\* A page of the pagination: the parsed query, by a link that loads the page.
PageHref == Parsed(address)

ChangeScope(scope) == Follow(ScopeHref(scope))
Reset == Follow(ResetHref)
ChangeView(view) == Follow(ViewHref(view))
TurnPage == pages > 1 /\ Load(PageHref)

-----------------------------------------------------------------------------
\* FilterSelect.
Select(option) ==
  /\ advancedOpen /\ option # fields.option
  /\ fields' = [fields EXCEPT !.option = option]
  /\ touched' = TRUE
  /\ UNCHANGED <<address, advancedOpen, scroll>>

\* Mutation: a fifth skill can be chosen.
TogglePassiveAny(p) ==
  /\ fields' = [fields EXCEPT !.passives =
       Ascending(IF p \in Range(@) THEN Range(@) \ {p} ELSE Range(@) \cup {p})]
  /\ touched' = TRUE
  /\ UNCHANGED <<address, advancedOpen, scroll>>

\* toggleValue of the combobox, whose options are disabled at the limit.
TogglePassive(p) ==
  /\ p \in Range(fields.passives) \/ Len(fields.passives) < MaxPassives
  /\ fields' = [fields EXCEPT !.passives =
       Ascending(IF p \in Range(@) THEN Range(@) \ {p} ELSE Range(@) \cup {p})]
  /\ touched' = TRUE
  /\ UNCHANGED <<address, advancedOpen, scroll>>

ClearPassives ==
  /\ fields.passives # <<>>
  /\ fields' = [fields EXCEPT !.passives = <<>>]
  /\ touched' = TRUE
  /\ UNCHANGED <<address, advancedOpen, scroll>>

\* The content of a closed Collapsible is not rendered: its fields are gone,
\* and take their value from the address when it is opened again.
ToggleAdvanced ==
  /\ advancedOpen' = ~advancedOpen
  /\ fields' = [fields EXCEPT !.option = IF advancedOpen THEN None ELSE address.option]
  /\ UNCHANGED <<address, touched, scroll>>

\* The form is submitted by GET: the hidden inputs that are rendered, with the
\* scope and the view of the address.
Apply ==
  Load([scope |-> address.scope, view |-> address.view,
        option |-> IF advancedOpen THEN fields.option ELSE None, passives |-> fields.passives])

-----------------------------------------------------------------------------
Scroll(list, inline) ==
  /\ inView' = [list |-> list, inline |-> inline] /\ inView' # inView
  /\ inline => pages > 1
  /\ delivered' = FALSE
  /\ UNCHANGED <<address, form, pages, attached, seen>>

\* The callback of the observer.  A list that is no longer on the page does
\* not intersect the window.
Deliver ==
  /\ pages > 1 /\ ~delivered /\ delivered' = TRUE
  /\ seen' = [list |-> attached /\ inView.list, inline |-> inView.inline]
  /\ UNCHANGED <<address, form, pages, attached, inView>>

FloatingVisible == pages > 1 /\ seen.list /\ ~seen.inline

Next ==
  \/ \E scope \in Scopes : ChangeScope(scope)
  \/ \E view \in Views : ChangeView(view)
  \/ Reset \/ TurnPage \/ Apply \/ ToggleAdvanced \/ ClearPassives \/ Deliver
  \/ \E option \in Options \cup {None} : Select(option)
  \/ \E p \in Passives : TogglePassive(p)
  \/ \E list, inline \in BOOLEAN : Scroll(list, inline)

Spec == Init /\ [][Next]_vars

-----------------------------------------------------------------------------
(***************************************************************************)
(* Properties                                                              *)
(***************************************************************************)
\* The combobox holds what a query may ask for, whatever address was opened
\* and whatever was pressed: each skill once, in order, MaxPassives at most.
AsAQuery ==
  /\ fields.passives = FirstFew(fields.passives)
  /\ fields.passives # <<>> => Cardinality(Range(fields.passives)) = Len(fields.passives)
  /\ Len(fields.passives) <= MaxPassives
  /\ fields.option \in Options \cup {None}

\* The links of the scopes, of the views and of the pages keep every filter that is
\* applied, as the query reads it, although some go through the parsed query
\* and others through the parameters as they came.
LinksKeepTheFilters ==
  [][TurnPage \/ (\E s \in Scopes : ChangeScope(s)) \/ (\E v \in Views : ChangeView(v)) =>
       /\ Parsed(address').passives = Parsed(address).passives
       /\ Parsed(address').option = Parsed(address).option]_vars

\* Applying a form that nobody has changed since the address did leaves the
\* list as it is, also after the filters were cleared.
ApplyUntouchedKeeps ==
  [][Apply /\ ~touched => Parsed(address') = Parsed(address)]_vars

\* Once the observer has reported, the pagination floats while the list is in
\* the window and its end is not.
FloatsWhileListVisible ==
  delivered /\ pages > 1 => FloatingVisible = (inView.list /\ ~inView.inline)
=============================================================================
