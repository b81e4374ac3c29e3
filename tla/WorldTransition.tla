--------------------------- MODULE WorldTransition ---------------------------
(***************************************************************************)
(* A world is moved, in place, from the save worker (whose payloads name   *)
(* everything by the raw UID of the save) to public sync (whose payloads   *)
(* name everything by the redacted UID), and perhaps back: supabase/       *)
(* migrations/20260729020000_public_sync_world_transition.sql.             *)
(*                                                                         *)
(* A UID is a pair of what it names and its form.  Players stand for       *)
(* guilds too, which are treated alike; the preference of a pal stands for *)
(* its lifecycle row too.  A refusal the code has for reasons outside this *)
(* module (processing jobs, a recent heartbeat of the save worker, another *)
(* owner's device) is a step that is not taken.                            *)
(***************************************************************************)
CONSTANTS Players,      \* players of the save
          Pals,         \* pals of the save
          Devices,      \* sync devices, all of one owner
          NoOne         \* nobody holds a lock; no pending write

VARIABLES
  save,        \* the players and pals the game's save has by now
  uid,         \* the form of worlds.world_uid
  second,      \* there is a second world, under the redacted UID
  players,     \* the rows of players of the world
  prefs,       \* pal_share_preferences: share_enabled by form and pal, or "none"
  latest,      \* the form and contents of the latest snapshot
  transition,  \* the row of public_sync_world_transitions
  device,      \* the rows of sync_devices
  upload,      \* where the upload of a device is
  worldLock,   \* who holds the lock of the world's row
  rowLock,     \* who holds the lock of the transition's row
  toggle,      \* a change of a preference whose pal was looked up, or NoOne
  choice,      \* history: what the owner of a pal last chose
  strayed      \* history: the pals changed under a UID of the other form

vars == <<save, uid, second, players, prefs, latest, transition, device,
          upload, worldLock, rowLock, toggle, choice, strayed>>

Forms == {"raw", "redacted"}

Mover == "transition"
Mapper == "rollback"

LockAssumption == NoOne \notin {Mover, Mapper} /\ Devices \cap {Mover, Mapper, NoOne} = {}

\* The types, and the locks: an upload that may publish holds the world, and a
\* rollback that may restore holds both rows.
TypeOK ==
  /\ save.players \subseteq Players /\ save.pals \subseteq Pals
  /\ uid \in Forms /\ second \in BOOLEAN
  /\ players \subseteq [player : Players, born : Forms, form : Forms]
  /\ prefs \in [Forms -> [Pals -> {"none", "shared", "private"}]]
  /\ latest \in [form : Forms, pals : SUBSET Pals]
  /\ transition \in [state : {"none", "transitioned", "rolled_back"},
                     players : SUBSET (Players \X Forms), pals : SUBSET Pals]
  /\ device \in [Devices -> [world : {"none", "main", "second"}, revoked : BOOLEAN]]
  /\ upload \in [Devices -> {"idle", "begun", "holding"}]
  /\ worldLock \in Devices \cup {Mover, Mapper, NoOne}
  /\ rowLock \in {Mapper, NoOne}
  /\ \A d \in Devices : upload[d] = "holding" <=> worldLock = d
  /\ worldLock = Mapper => rowLock = Mapper
  /\ choice \in [Pals -> {"shared", "private"}] /\ strayed \subseteq Pals

-----------------------------------------------------------------------------
(* What the tables say. *)

\* What identifies a row of players (its UUID) is abstracted to the player and
\* the form it had when it was inserted.
Id(row) == <<row.player, row.born>>
Ids == {Id(row) : row \in players}

\* A payload's players: those that are there under their UID are kept, the
\* others are new rows.
WithPlayers(form) ==
  players \cup {[player |-> p, born |-> form, form |-> form] :
    p \in {q \in save.players : \A row \in players : row.player # q \/ row.form # form}}

\* A pal that is seen for the first time under its UID is shared; a preference
\* that is there is kept.
WithPrefs(form) ==
  [prefs EXCEPT ![form] =
    [q \in Pals |-> IF q \in save.pals /\ @[q] = "none" THEN "shared" ELSE @[q]]]

\* What the pages show for a pal of the latest snapshot.
Shown(q) == IF prefs[latest.form][q] = "private" THEN "private" ELSE "shared"

-----------------------------------------------------------------------------
(* The game, and the two sources of snapshots. *)

\* A player joins or a pal is caught.
Joins ==
  /\ \/ \E p \in Players \ save.players : save' = [save EXCEPT !.players = @ \cup {p}]
     \/ \E q \in Pals \ save.pals : save' = [save EXCEPT !.pals = @ \cup {q}]
  /\ UNCHANGED <<uid, second, players, prefs, latest, transition, device, upload,
                 worldLock, rowLock, toggle, choice, strayed>>

\* private.publish_inventory_snapshot, whose payload must name the world by its
\* UID.
\* Mutation: the UID of the payload is not compared.
PublishUnchecked(form) ==
  /\ players' = WithPlayers(form)
  /\ prefs' = WithPrefs(form)
  /\ latest' = [form |-> form, pals |-> save.pals]

Publish(form) ==
  /\ uid = form
  /\ players' = WithPlayers(form)
  /\ prefs' = WithPrefs(form)
  /\ latest' = [form |-> form, pals |-> save.pals]

\* The save worker publishes.
WorkerPublishes ==
  /\ worldLock = NoOne
  /\ Publish("raw")
  /\ UNCHANGED <<save, uid, second, transition, device, upload, worldLock, rowLock,
                 toggle, choice, strayed>>

\* publish_sync_device_snapshot: the device's row is locked ...
UploadBegins(d) ==
  /\ upload[d] = "idle" /\ ~device[d].revoked
  /\ upload' = [upload EXCEPT ![d] = "begun"]
  /\ UNCHANGED <<save, uid, second, players, prefs, latest, transition, device,
                 worldLock, rowLock, toggle, choice, strayed>>

\* ... then that of the world with the payload's UID ...
UploadLocks(d) ==
  /\ upload[d] = "begun" /\ device[d].world \in {"none", "main"}
  /\ uid = "redacted" /\ worldLock = NoOne
  /\ upload' = [upload EXCEPT ![d] = "holding"]
  /\ worldLock' = d
  /\ UNCHANGED <<save, uid, second, players, prefs, latest, transition, device,
                 rowLock, toggle, choice, strayed>>

\* ... the snapshot is published, and a device that had no world has it now ...
UploadCommits(d) ==
  /\ upload[d] = "holding"
  /\ Publish("redacted")
  /\ device' = [device EXCEPT ![d].world = "main"]
  /\ upload' = [upload EXCEPT ![d] = "idle"]
  /\ worldLock' = NoOne
  /\ UNCHANGED <<save, uid, second, transition, rowLock, toggle, choice, strayed>>

\* ... and where no world has the UID, a device without one gets a new world.
UploadElsewhere(d) ==
  /\ upload[d] = "begun" /\ device[d].world = "none" /\ uid = "raw"
  /\ second' = TRUE
  /\ device' = [device EXCEPT ![d].world = "second"]
  /\ upload' = [upload EXCEPT ![d] = "idle"]
  /\ UNCHANGED <<save, uid, players, prefs, latest, transition, worldLock, rowLock,
                 toggle, choice, strayed>>

\* A device whose world has another UID by now is refused; one of the second
\* world publishes there.
UploadLeaves(d) ==
  /\ upload[d] = "begun"
  /\ \/ device[d].world = "main" /\ uid = "raw"
     \/ device[d].world = "second"
  /\ upload' = [upload EXCEPT ![d] = "idle"]
  /\ UNCHANGED <<save, uid, second, players, prefs, latest, transition, device,
                 worldLock, rowLock, toggle, choice, strayed>>

\* revoke_sync_device waits for the device's row.
Revoke(d) ==
  /\ upload[d] = "idle" /\ ~device[d].revoked
  /\ device' = [device EXCEPT ![d].revoked = TRUE]
  /\ UNCHANGED <<save, uid, second, players, prefs, latest, transition, upload,
                 worldLock, rowLock, toggle, choice, strayed>>

-----------------------------------------------------------------------------
(* set_pal_share_enabled: the pal is looked up in the latest snapshot, then  *)
(* its preference is written; a new row waits for the lock of the world.     *)

ToggleLooks(q, value) ==
  /\ toggle = NoOne /\ q \in latest.pals
  /\ toggle' = [pal |-> q, form |-> latest.form, value |-> value]
  /\ UNCHANGED <<save, uid, second, players, prefs, latest, transition, device,
                 upload, worldLock, rowLock, choice, strayed>>

ToggleWrites ==
  /\ toggle # NoOne
  /\ prefs[toggle.form][toggle.pal] = "none" => worldLock = NoOne
  /\ prefs' = [prefs EXCEPT ![toggle.form][toggle.pal] = toggle.value]
  /\ choice' = [choice EXCEPT ![toggle.pal] = toggle.value]
  /\ strayed' = IF toggle.form = uid THEN strayed ELSE strayed \cup {toggle.pal}
  /\ toggle' = NoOne
  /\ UNCHANGED <<save, uid, second, players, latest, transition, device, upload,
                 worldLock, rowLock>>

-----------------------------------------------------------------------------
(* The two moves. *)

\* The rows under the other form; what was not recorded keeps its UID.
Remapped(ids, form) ==
  {[row EXCEPT !.form = IF Id(row) \in ids THEN form ELSE @] : row \in players}

Moved(pals, from, to) ==
  [f \in Forms |-> [q \in Pals |->
    CASE q \in pals /\ f = from -> "none"
      [] q \in pals /\ f = to -> prefs[from][q]
      [] OTHER -> prefs[f][q]]]

\* transition_world_to_public_sync locks the world, then the transition ...
TransitionBegins ==
  /\ worldLock = NoOne
  /\ worldLock' = Mover
  /\ UNCHANGED <<save, uid, second, players, prefs, latest, transition, device,
                 upload, rowLock, toggle, choice, strayed>>

\* ... and, unless it was moved before or the new UID is taken, records and
\* changes every UID at once.
\* Mutation: the preferences are left as they are.
TransitionWithoutPrefs ==
  /\ worldLock = Mover /\ rowLock = NoOne
  /\ transition.state = "none" /\ ~second
  /\ LET mapped == {q \in Pals : prefs["raw"][q] # "none"} IN
       /\ transition' = [state |-> "transitioned", players |-> Ids, pals |-> mapped]
       /\ players' = Remapped(Ids, "redacted")
       /\ UNCHANGED prefs
  /\ uid' = "redacted"
  /\ worldLock' = NoOne
  /\ UNCHANGED <<save, second, latest, device, upload, rowLock, toggle, choice, strayed>>

TransitionCommits ==
  /\ worldLock = Mover /\ rowLock = NoOne
  /\ transition.state = "none" /\ ~second
  /\ LET mapped == {q \in Pals : prefs["raw"][q] # "none"} IN
       /\ transition' = [state |-> "transitioned", players |-> Ids, pals |-> mapped]
       /\ players' = Remapped(Ids, "redacted")
       /\ prefs' = Moved(mapped, "raw", "redacted")
  /\ uid' = "redacted"
  /\ worldLock' = NoOne
  /\ UNCHANGED <<save, second, latest, device, upload, rowLock, toggle, choice, strayed>>

\* It is refused, or the database ends it to resolve a deadlock.
TransitionEnds ==
  /\ worldLock = Mover
  /\ transition.state # "none" \/ second \/ rowLock = Mapper
  /\ worldLock' = NoOne
  /\ UNCHANGED <<save, uid, second, players, prefs, latest, transition, device,
                 upload, rowLock, toggle, choice, strayed>>

\* rollback_public_sync_world_transition locks the transition, looks for a
\* device of the world that is not revoked ...
RollbackBegins ==
  /\ rowLock = NoOne /\ transition.state = "transitioned"
  /\ \A d \in Devices : device[d].world = "main" => device[d].revoked
  /\ rowLock' = Mapper
  /\ UNCHANGED <<save, uid, second, players, prefs, latest, transition, device,
                 upload, worldLock, toggle, choice, strayed>>

\* ... only then locks the world ...
RollbackLocks ==
  /\ rowLock = Mapper /\ worldLock = NoOne
  /\ worldLock' = Mapper
  /\ UNCHANGED <<save, uid, second, players, prefs, latest, transition, device,
                 upload, rowLock, toggle, choice, strayed>>

\* ... and gives what was recorded its old UID, if no player has joined, all of
\* it is there and none of the old UIDs is taken.
\* Mutation: players may have joined.
MayRestoreAnyPlayers ==
  /\ uid = "redacted"
  /\ \A q \in transition.pals : prefs["redacted"][q] # "none" /\ prefs["raw"][q] = "none"

MayRestore ==
  /\ uid = "redacted"
  /\ Ids = transition.players
  /\ \A row \in players : row.form = "redacted"
  /\ \A q \in transition.pals : prefs["redacted"][q] # "none" /\ prefs["raw"][q] = "none"

RollbackCommits ==
  /\ worldLock = Mapper /\ MayRestore
  /\ players' = Remapped(transition.players, "raw")
  /\ prefs' = Moved(transition.pals, "redacted", "raw")
  /\ uid' = "raw"
  /\ transition' = [transition EXCEPT !.state = "rolled_back"]
  /\ worldLock' = NoOne /\ rowLock' = NoOne
  /\ UNCHANGED <<save, second, latest, device, upload, toggle, choice, strayed>>

\* It is refused, or the database ends it to resolve a deadlock.
RollbackEnds ==
  /\ rowLock = Mapper
  /\ \/ worldLock = Mapper /\ ~MayRestore /\ worldLock' = NoOne
     \/ worldLock = Mover /\ UNCHANGED worldLock
  /\ rowLock' = NoOne
  /\ UNCHANGED <<save, uid, second, players, prefs, latest, transition, device,
                 upload, toggle, choice, strayed>>

-----------------------------------------------------------------------------

\* A world of the save worker, with a snapshot of what the save has.
Init ==
  /\ \E p \in Players, q \in Pals : save = [players |-> {p}, pals |-> {q}]
  /\ uid = "raw" /\ second = FALSE
  /\ players = {[player |-> p, born |-> "raw", form |-> "raw"] : p \in save.players}
  /\ prefs = [f \in Forms |-> [q \in Pals |->
                IF f = "raw" /\ q \in save.pals THEN "shared" ELSE "none"]]
  /\ latest = [form |-> "raw", pals |-> save.pals]
  /\ transition = [state |-> "none", players |-> {}, pals |-> {}]
  /\ device = [d \in Devices |-> [world |-> "none", revoked |-> FALSE]]
  /\ upload = [d \in Devices |-> "idle"]
  /\ worldLock = NoOne /\ rowLock = NoOne /\ toggle = NoOne
  /\ choice = [q \in Pals |-> "shared"] /\ strayed = {}

Next ==
  \/ Joins \/ WorkerPublishes
  \/ \E d \in Devices :
       \/ UploadBegins(d) \/ UploadLocks(d) \/ UploadCommits(d)
       \/ UploadElsewhere(d) \/ UploadLeaves(d) \/ Revoke(d)
  \/ \E q \in Pals, value \in {"shared", "private"} : ToggleLooks(q, value)
  \/ ToggleWrites
  \/ TransitionBegins \/ TransitionCommits \/ TransitionEnds
  \/ RollbackBegins \/ RollbackLocks \/ RollbackCommits \/ RollbackEnds

Spec == Init /\ [][Next]_vars

-----------------------------------------------------------------------------
(* Properties *)

\* Whatever the moves and the uploads do at the same time, every player of the
\* world has the form of the world's UID: none is left behind by a move, and
\* the next payload finds each of them.
OneForm == \A row \in players : row.form = uid

\* A player is one row, to which users are bound, and stays that row: neither a
\* move nor an upload after it makes a second one.
PlayersKeepTheirRow ==
  [][/\ \A row \in players : \E new \in players' : Id(new) = Id(row)
     /\ \A row, other \in players' : row.player = other.player => row = other]_vars

\* Once the latest snapshot is in the form of the world again, the pages show
\* of every pal that was moved with the world what its owner chose last, unless
\* the choice was made in between, under a UID the world no longer has.
ChoicesComeAlong ==
  latest.form = uid =>
    \A q \in latest.pals \ strayed :
      \/ transition.state = "rolled_back" /\ q \notin transition.pals
      \/ Shown(q) = choice[q]

\* "share preference: ... keeps the player's choice" (docs/operations/
\* save-worker-to-public-sync-cutover.md:33): the pages always show what the
\* owner of a pal chose last.
ChoicesHold == \A q \in latest.pals : Shown(q) = choice[q]

\* "rollback requires that all sync devices of the world are revoked" (the same
\* document, line 160): none is left that the world moved away from.
RolledBackIsUnbound ==
  transition.state = "rolled_back" =>
    \A d \in Devices : device[d].world = "main" => device[d].revoked
=============================================================================
