--------------------------- MODULE RuntimeSettings ---------------------------
(***************************************************************************)
(* The runtime settings: an append-only list of versions, written by the   *)
(* form of the settings page, by the switch of the jobs page and by the    *)
(* rollback button.  Each request names the version its page showed.  The  *)
(* form's inputs are uncontrolled: a refresh of the page changes the       *)
(* inputs nobody has touched and leaves the others as they are.            *)
(***************************************************************************)
EXTENDS Naturals, Sequences

CONSTANTS Fields, Flag,      \* the settings; Flag is job_creation_enabled
          Values, None,
          FormTabs, JobTabs, \* open settings pages and open jobs pages
          MaxVersions        \* bound: versions written

FlagAssumption == Flag \in Fields
ValuesAssumption == Values # {}

VARIABLES versions, \* runtime_settings_versions, in the order of insertion
          tab,      \* the pages
          request   \* the request of each page that the server has not answered
vars == <<versions, tab, request>>

Tabs == FormTabs \cup JobTabs

Settings == [Fields -> Values]
Untouched == [f \in Fields |-> None]
First == [number |-> 1, settings |-> [f \in Fields |-> CHOOSE v \in Values : TRUE],
          kind |-> "initial", expected |-> 0, edited |-> {}]
Fresh(s, n) == [shown |-> n, settings |-> s, touched |-> Untouched, edited |-> {}, state |-> "idle"]
Last == versions[Len(versions)]

Init ==
  /\ versions = <<First>>
  /\ tab = [t \in Tabs |-> Fresh(First.settings, 1)]
  /\ request = [t \in Tabs |-> None]

-----------------------------------------------------------------------------
\* What the inputs of the form hold.
FormValue(t) ==
  [f \in Fields |-> IF tab[t].touched[f] # None THEN tab[t].touched[f] ELSE tab[t].settings[f]]

\* Opening the page anew.
OpenPage(t) ==
  /\ request[t] = None
  /\ tab' = [tab EXCEPT ![t] = Fresh(Last.settings, Last.number)]
  /\ UNCHANGED <<versions, request>>

Edit(t) ==
  /\ t \in FormTabs
  /\ \E f \in Fields, v \in Values :
       /\ FormValue(t)[f] # v
       /\ tab' = [tab EXCEPT ![t].touched[f] = v, ![t].edited = @ \cup {f}]
  /\ UNCHANGED <<versions, request>>

\* runAdminAction with a fresh idempotency key: no two requests share one.
Send(t, kind, settings, edited) ==
  /\ request[t] = None /\ tab[t].state # "pending"
  /\ request' = [request EXCEPT ![t] =
       [kind |-> kind, expected |-> tab[t].shown, settings |-> settings, edited |-> edited,
        read |-> 0, reply |-> None]]
  /\ tab' = [tab EXCEPT ![t].state = "pending", ![t].edited = {}]
  /\ UNCHANGED versions

Save(t) == t \in FormTabs /\ Send(t, "save", FormValue(t), tab[t].edited)

ToggleJobCreation(t) ==
  /\ t \in JobTabs
  /\ \E v \in Values \ {tab[t].settings[Flag]} :
       Send(t, "toggle", [tab[t].settings EXCEPT ![Flag] = v], {Flag})

Rollback(t) ==
  /\ t \in FormTabs /\ tab[t].shown > 1
  /\ Send(t, "rollback", tab[t].settings, tab[t].edited)

-----------------------------------------------------------------------------
\* "order by version desc limit 1 for update": the row is chosen before the
\* wait for its lock, and a version inserted meanwhile is not seen.
ReadCurrent(t) ==
  /\ request[t] # None /\ request[t].read = 0
  /\ request' = [request EXCEPT ![t].read = Last.number]
  /\ UNCHANGED <<versions, tab>>

\* Mutation: the previous version is looked for among those up to the current one.
WrittenCurrent(r) ==
  IF r.kind = "rollback" THEN versions[r.read].settings ELSE r.settings

Written(r) ==
  IF r.kind = "rollback" THEN versions[r.read - 1].settings ELSE r.settings

\* Mutation: the column version is not unique.
AnswerTwice(r) ==
  IF r.read # r.expected THEN "RUNTIME_SETTINGS_VERSION_CONFLICT" ELSE "ok"

\* Mutation: only a save is compared with the current version.
AnswerSaves(r) ==
  IF r.kind = "save" /\ r.read # r.expected THEN "RUNTIME_SETTINGS_VERSION_CONFLICT"
  ELSE IF \E i \in DOMAIN versions : versions[i].number = r.read + 1
  THEN "ADMIN_DATA_UNAVAILABLE" ELSE "ok"

\* The violation of the unique version reaches the page as ADMIN_DATA_UNAVAILABLE.
Answer(r) ==
  IF r.read # r.expected THEN "RUNTIME_SETTINGS_VERSION_CONFLICT"
  ELSE IF \E i \in DOMAIN versions : versions[i].number = r.read + 1
  THEN "ADMIN_DATA_UNAVAILABLE" ELSE "ok"

Write(t) ==
  LET r == request[t] IN
  /\ r # None /\ r.read > 0 /\ r.reply = None
  /\ Answer(r) = "ok" => Len(versions) < MaxVersions
  /\ versions' = IF Answer(r) = "ok"
       THEN Append(versions, [number |-> r.read + 1, settings |-> Written(r), kind |-> r.kind,
                              expected |-> r.expected, edited |-> r.edited])
       ELSE versions
  /\ request' = [request EXCEPT ![t].reply = Answer(r)]
  /\ UNCHANGED tab

-----------------------------------------------------------------------------
\* What was edited for the failed request is still in the inputs.
Failed(t) == [tab[t] EXCEPT !.state = "error", !.edited = @ \cup request[t].edited]

\* The page is refreshed after a success only: what it shows and the inputs
\* that were not touched follow the current version.
Receive(t) ==
  /\ request[t] # None /\ request[t].reply # None
  /\ tab' = [tab EXCEPT ![t] =
       IF request[t].reply = "ok"
       THEN [@ EXCEPT !.state = "done", !.shown = Last.number, !.settings = Last.settings]
       ELSE Failed(t)]
  /\ request' = [request EXCEPT ![t] = None]
  /\ UNCHANGED versions

\* fetch throws: the page cannot know whether the server has acted.
LoseReply(t) ==
  /\ request[t] # None
  /\ request[t].reply # None \/ request[t].read = 0
  /\ tab' = [tab EXCEPT ![t] = Failed(t)]
  /\ request' = [request EXCEPT ![t] = None]
  /\ UNCHANGED versions

Next ==
  \E t \in Tabs :
    \/ OpenPage(t) \/ Edit(t) \/ Save(t) \/ ToggleJobCreation(t) \/ Rollback(t)
    \/ ReadCurrent(t) \/ Write(t) \/ Receive(t) \/ LoseReply(t)

Spec == Init /\ [][Next]_vars

-----------------------------------------------------------------------------
\* The variables keep their types (the tables, the pages and their requests).
TypeOK ==
  /\ \A i \in DOMAIN versions : versions[i].settings \in Settings /\ versions[i].number \in 1 .. MaxVersions
  /\ \A t \in Tabs : tab[t].settings \in Settings /\ tab[t].state \in {"idle", "pending", "done", "error"}
  /\ \A t \in Tabs : request[t] # None => request[t].settings \in Settings

\* Each version is written over the one its page showed, also when two
\* requests read the same current row before either has written.
EachOnTheLast ==
  \A i \in DOMAIN versions : versions[i].number = i /\ versions[i].expected = i - 1

\* The switch changes job_creation_enabled and nothing another page has
\* saved meanwhile, and pressing it again after a lost reply does not undo it.
SwitchChangesTheFlag ==
  \A i \in DOMAIN versions : versions[i].kind = "toggle" =>
    \A f \in Fields : (versions[i].settings[f] = versions[i - 1].settings[f]) <=> (f # Flag)

\* A rollback takes back the version its page showed and no other: what it
\* restores is the version before that one.
RollbackTakesBackOne ==
  \A i \in DOMAIN versions : versions[i].kind = "rollback" =>
    versions[i].settings = versions[versions[i].expected - 1].settings /\ versions[i].expected = i - 1

\* The versions are a series of single changes, each of the version before it,
\* whatever the pages have loaded and whatever is sent again.
SettingsAreSerial == EachOnTheLast /\ SwitchChangesTheFlag /\ RollbackTakesBackOne

\* "Optimistic concurrency": a save changes a field of the version it names
\* only if the administrator edited it since the page showed that version.
SaveChangesWhatWasEdited ==
  \A i \in DOMAIN versions : versions[i].kind = "save" =>
    \A f \in Fields \ versions[i].edited : versions[i].settings[f] = versions[i - 1].settings[f]
=============================================================================
