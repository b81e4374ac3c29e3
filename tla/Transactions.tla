---------------------------- MODULE Transactions ----------------------------
(***************************************************************************)
(* What the functions of the database insert and delete, statement by      *)
(* statement, under the foreign keys of Schema: the import and publication *)
(* of a catalog, snapshots and their items, jobs, results and saved plans, *)
(* and the retention.  A function is one transaction.  When a statement is *)
(* refused the whole transaction is, and db keeps the row that refused it. *)
(*                                                                         *)
(* Rows of one world, player and guild.  The rows of a snapshot, with the  *)
(* job computed on it and its route, have its number, those of a catalog   *)
(* version the number of the version, and all others the number one.       *)
(***************************************************************************)
EXTENDS Schema

CONSTANTS Snapshots, Versions    \* numbers

VARIABLES
  db,
  snapshot,   \* the state of each inventory snapshot
  items,      \* the state of each item snapshot
  version,    \* the status of each catalog version
  job,        \* the status of the job on each snapshot
  saved       \* auxiliary: the jobs whose route a user has saved and not removed

vars == <<db, snapshot, items, version, job, saved>>

OfSnapshot ==
  {"inventory_snapshots", "pal_snapshot_items", "item_inventory_snapshots",
   "item_inventory_bases", "item_inventory_stack_items", "item_inventory_totals",
   "item_inventory_base_totals", "item_inventory_recipe_capacities",
   "breeding_jobs", "breeding_plans", "breeding_routes", "saved_breeding_plans"}

OfVersion ==
  {"game_data_versions", "game_data_import_runs", "game_data_import_batches", "catalog_pals",
   "catalog_passive_skills", "catalog_active_skills", "catalog_pal_active_skills",
   "catalog_partner_skills", "catalog_localizations", "catalog_breeding_recipes",
   "catalog_items", "catalog_item_recipes", "catalog_item_recipe_ingredients",
   "breeding_data_versions", "breeding_recipes"}

Number(k, v) ==
  [t \in Names \cup {"users"} |->
     IF t \in OfSnapshot THEN k ELSE IF t \in OfVersion THEN v ELSE 1]

World == <<"worlds", 1>>
LatestSnapshot == <<"latest_snapshot_id", "id">>
LatestItems == <<"latest_item_inventory_snapshot_id", "id">>
ActiveVersion == <<"active_game_data_version_id">>

\* The number of the row that the world refers to by a key, if it does.
Of(d, by) == {link.to[2] : link \in {l \in d.links : l.from = World /\ l.by = by}}

Init ==
  /\ db = InsertAll(Database({<<"users", 1>>}, {}, {}),
                    <<"profiles", "scoring_profiles", "worlds">>, Number(1, 1))
  /\ snapshot = [k \in Snapshots |-> "none"]
  /\ items = [k \in Snapshots |-> "none"]
  /\ version = [v \in Versions |-> "none"]
  /\ job = [k \in Snapshots |-> "none"]
  /\ saved = {}

-----------------------------------------------------------------------------
Stage(v) ==
  /\ version[v] = "none"
  /\ db' = InsertAll(db, <<"game_data_versions", "game_data_import_runs",
                           "game_data_import_batches">>, Number(1, v))
  /\ version' = [version EXCEPT ![v] = "staging"]
  /\ UNCHANGED <<snapshot, items, job, saved>>

Tidied ==
  <<"catalog_item_recipe_ingredients", "catalog_item_recipes", "catalog_items",
    "catalog_pal_active_skills", "catalog_partner_skills", "catalog_breeding_recipes",
    "catalog_localizations", "catalog_passive_skills", "catalog_active_skills", "catalog_pals">>

Imported ==
  <<"catalog_pals", "catalog_passive_skills", "catalog_active_skills",
    "catalog_pal_active_skills", "catalog_partner_skills", "catalog_localizations",
    "catalog_breeding_recipes", "catalog_items", "catalog_item_recipes",
    "catalog_item_recipe_ingredients">>

Finalize(v) ==
  /\ version[v] = "staging"
  /\ db' = InsertAll(DeleteAll(db, Tidied, {v}), Imported, Number(1, v))
  /\ version' = [version EXCEPT ![v] = "validated"]
  /\ UNCHANGED <<snapshot, items, job, saved>>

\* The first publication copies the recipes for the breeding engine.
Activate(v) ==
  /\ version[v] \in {"validated", "published"}
  /\ LET number == Number(1, v)
         copied == InsertAll(db, <<"breeding_data_versions", "breeding_recipes">>, number)
         active == Update(copied, World, ActiveVersion, {<<"game_data_versions", v>>})
     IN db' = Update(active, World, <<"active_breeding_version_id">>,
                     {<<"breeding_data_versions", v>>})
  /\ version' = [version EXCEPT ![v] = "published"]
  /\ UNCHANGED <<snapshot, items, job, saved>>

-----------------------------------------------------------------------------
\* The sample of five minutes refers to the snapshot of its last value.
Sampled(d) ==
  LET sample == <<"item_inventory_five_minute_samples", 1>>
      totals == <<"item_inventory_five_minute_totals">>
      again(k) ==
        Update(Insert(d, sample[1], Number(k, 1)), sample, <<"snapshot_id", "world_id">>,
               {<<"item_inventory_snapshots", k>>})
  IN IF Of(d, LatestItems) = {} THEN d
     ELSE LET k == CHOOSE k \in Of(d, LatestItems) : TRUE
          IN InsertAll(DeleteAll(again(k), totals, {1}), totals, Number(k, 1))

\* The function of the earlier migration first, whose totals are then made anew.
ItemsInserted(d, k, number) ==
  LET derived == <<"item_inventory_recipe_capacities", "item_inventory_base_totals",
                   "item_inventory_totals">>
      first == InsertAll(d, <<"item_inventory_snapshots", "item_inventory_bases",
                 "item_inventory_stack_items", "item_inventory_totals",
                 "item_inventory_base_totals", "item_inventory_recipe_capacities",
                 "item_inventory_hourly_rollups", "item_inventory_daily_rollups">>, number)
  IN InsertAll(DeleteAll(first, derived, {k}),
               <<"item_inventory_totals", "item_inventory_base_totals">>, number)

PalsInserted(d, number) ==
  InsertAll(d, <<"guilds", "players", "inventory_snapshots", "pal_snapshot_items",
                 "pal_instance_lifecycle", "pal_share_preferences">>, number)

\* The world refers to the snapshot, and to its items where there are any.
Latest(d, k, withItems) ==
  LET pals == Update(d, World, LatestSnapshot, {<<"inventory_snapshots", k>>})
  IN IF withItems
     THEN Sampled(Update(pals, World, LatestItems, {<<"item_inventory_snapshots", k>>}))
     ELSE pals

\* Items are stored under the active version; a save without items keeps the last.
Publish(k, withItems) ==
  /\ snapshot[k] = "none"
  /\ withItems => Of(db, ActiveVersion) # {}
  /\ LET v == IF withItems THEN CHOOSE w \in Of(db, ActiveVersion) : TRUE ELSE 1
         number == Number(k, v)
         pals == PalsInserted(db, number)
     IN db' = Latest(IF withItems THEN ItemsInserted(pals, k, number) ELSE pals, k, withItems)
  /\ snapshot' = [snapshot EXCEPT ![k] = "published"]
  /\ items' = [items EXCEPT ![k] = IF withItems THEN "published" ELSE @]
  /\ UNCHANGED <<version, job, saved>>

\* The same save again, whose rows are still there.
PublishAgain(k) ==
  /\ snapshot[k] = "published"
  /\ db' = Latest(db, k, items[k] = "published")
  /\ UNCHANGED <<snapshot, items, version, job, saved>>

Reject(k) ==
  /\ snapshot[k] = "none"
  /\ db' = Insert(db, "inventory_snapshots", Number(k, 1))
  /\ snapshot' = [snapshot EXCEPT ![k] = "failed"]
  /\ UNCHANGED <<items, version, job, saved>>

\* The heartbeat of a device.
Sample ==
  /\ db' = Sampled(db)
  /\ UNCHANGED <<snapshot, items, version, job, saved>>

-----------------------------------------------------------------------------
CreateJob(k) ==
  /\ job[k] = "none" /\ k \in Of(db, LatestSnapshot)
  /\ \E v \in Of(db, ActiveVersion) : db' = Insert(db, "breeding_jobs", Number(k, v))
  /\ job' = [job EXCEPT ![k] = "processing"]
  /\ UNCHANGED <<snapshot, items, version, saved>>

Plan(k) == <<"breeding_plans", k>>
Recommended == <<"recommended_route_id">>

\* Mutation: the routes are inserted afresh.
PersistAfresh(k) ==
  /\ job[k] \in {"processing", "algorithm_completed"}
  /\ LET number == Number(k, 1)
         plan == Update(Insert(db, "breeding_plans", number), Plan(k), Recommended, {})
         routes == Insert(Delete(plan, "breeding_routes", {k}), "breeding_routes", number)
     IN db' = Update(routes, Plan(k), Recommended, {<<"breeding_routes", k>>})
  /\ job' = [job EXCEPT ![k] = "algorithm_completed"]
  /\ UNCHANGED <<snapshot, items, version, saved>>

\* A worker that takes the job over persists its result once more.  Here it is the same
\* route; one that differs at its rank is refused and changes nothing (see JobView).
Persist(k) ==
  /\ job[k] \in {"processing", "algorithm_completed"}
  /\ LET number == Number(k, 1)
         plan == Update(Insert(db, "breeding_plans", number), Plan(k), Recommended, {})
         routes == Insert(plan, "breeding_routes", number)
     IN db' = Update(routes, Plan(k), Recommended, {<<"breeding_routes", k>>})
  /\ job' = [job EXCEPT ![k] = "algorithm_completed"]
  /\ UNCHANGED <<snapshot, items, version, saved>>

Complete(k) ==
  /\ job[k] = "algorithm_completed"
  /\ job' = [job EXCEPT ![k] = "completed"]
  /\ UNCHANGED <<db, snapshot, items, version, saved>>

\* Whatever the job's status is: the route only has to be the user's own.
SavePlan(k) ==
  /\ <<"breeding_routes", k>> \in db.rows
  /\ db' = Insert(db, "saved_breeding_plans", Number(k, 1))
  /\ saved' = saved \cup {k}
  /\ UNCHANGED <<snapshot, items, version, job>>

RemovePlan(k) ==
  /\ <<"saved_breeding_plans", k>> \in db.rows
  /\ db' = Delete(db, "saved_breeding_plans", {k})
  /\ saved' = saved \ {k}
  /\ UNCHANGED <<snapshot, items, version, job>>

-----------------------------------------------------------------------------
\* Mutation: bases before what is stored by base.
ItemPayloadByBase ==
  <<"item_inventory_bases", "item_inventory_recipe_capacities", "item_inventory_base_totals",
    "item_inventory_totals", "item_inventory_stack_items">>

ItemPayload ==
  <<"item_inventory_recipe_capacities", "item_inventory_base_totals", "item_inventory_totals",
    "item_inventory_stack_items", "item_inventory_bases">>

\* Mutation: the pals of a snapshot stay.
CleanUpItems(pals, withItems, failures, buckets) ==
  /\ LET detected == Delete(db, "execution_candidate_detection_runs", pals)
         failed == Delete(detected, "inventory_snapshots", failures)
         payload == DeleteAll(failed, ItemPayload, withItems)
     IN db' = DeleteAll(payload, buckets, {1})
  /\ snapshot' = [k \in Snapshots |->
       IF k \in failures THEN "none" ELSE IF k \in pals THEN "purged" ELSE snapshot[k]]
  /\ items' = [k \in Snapshots |-> IF k \in withItems THEN "purged" ELSE items[k]]
  /\ job' = [k \in Snapshots |->
       IF k \in pals /\ job[k] \in {"processing", "algorithm_completed"} THEN "failed" ELSE job[k]]
  /\ UNCHANGED <<version, saved>>

\* One batch of the retention: the snapshots that are old, the failures that are
\* old, and the buckets that are.
CleanUp(pals, withItems, failures, buckets) ==
  /\ LET detected == Delete(db, "execution_candidate_detection_runs", pals)
         purged == Delete(detected, "pal_snapshot_items", pals)
         failed == Delete(purged, "inventory_snapshots", failures)
         payload == DeleteAll(failed, ItemPayload, withItems)
     IN db' = DeleteAll(payload, buckets, {1})
  /\ snapshot' = [k \in Snapshots |->
       IF k \in failures THEN "none" ELSE IF k \in pals THEN "purged" ELSE snapshot[k]]
  /\ items' = [k \in Snapshots |-> IF k \in withItems THEN "purged" ELSE items[k]]
  /\ job' = [k \in Snapshots |->
       IF k \in pals /\ job[k] \in {"processing", "algorithm_completed"} THEN "failed" ELSE job[k]]
  /\ UNCHANGED <<version, saved>>

Buckets == <<"item_inventory_five_minute_samples", "item_inventory_hourly_rollups",
             "item_inventory_daily_rollups">>

Retention ==
  \E pals \in SUBSET {k \in Snapshots : snapshot[k] = "published" /\ k \notin Of(db, LatestSnapshot)},
     withItems \in SUBSET {k \in Snapshots : items[k] = "published" /\ k \notin Of(db, LatestItems)},
     failures \in SUBSET {k \in Snapshots : snapshot[k] = "failed"},
     old \in 0..Len(Buckets) :
       CleanUp(pals, withItems, failures, SubSeq(Buckets, 1, old))

Next ==
  \/ \E v \in Versions : Stage(v) \/ Finalize(v) \/ Activate(v)
  \/ \E k \in Snapshots, withItems \in BOOLEAN : Publish(k, withItems)
  \/ \E k \in Snapshots : PublishAgain(k) \/ Reject(k)
  \/ Sample
  \/ \E k \in Snapshots : CreateJob(k) \/ Persist(k) \/ Complete(k) \/ SavePlan(k) \/ RemovePlan(k)
  \/ Retention

Spec == Init /\ [][Next]_vars

-----------------------------------------------------------------------------
(***************************************************************************)
(* Properties                                                              *)
(***************************************************************************)
\* No statement of any function is refused by a foreign key, in whatever order
\* the functions are called: parents are inserted before children and deleted
\* after them, and what a deletion would orphan is deleted before.
NothingRefused == db.refused = {}

OutliveTheSnapshot ==
  {"breeding_jobs", "breeding_plans", "breeding_routes", "saved_breeding_plans",
   "item_inventory_snapshots"}

\* Once a snapshot is purged no row is left that needs it, over any number of keys,
\* but those that are to outlive it; the list of deletions leaves no table out.
PurgeIsComplete ==
  \A k \in Snapshots : \A t \in OfSnapshot : <<t, k>> \in db.rows =>
    /\ items[k] = "purged" => "item_inventory_snapshots" \notin Behind(Required(t))
    /\ snapshot[k] = "purged" /\ "inventory_snapshots" \in Required(t) => t \in OutliveTheSnapshot

\* A saved plan and all it shows, the route, its job, the player and the guild, is not
\* lost with a snapshot or with a second result of the job, until its user removes it.
SavedPlansStay ==
  \A k \in saved :
    {<<t, k>> : t \in {"saved_breeding_plans", "breeding_routes", "breeding_plans", "breeding_jobs"}}
    \cup {<<"players", 1>>, <<"guilds", 1>>} \subseteq db.rows

\* The foreign keys hold, the retention is complete, and it takes nothing saved.
TablesHold == NothingRefused /\ PurgeIsComplete /\ SavedPlansStay
=============================================================================
