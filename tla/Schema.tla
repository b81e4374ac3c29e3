------------------------------- MODULE Schema -------------------------------
(***************************************************************************)
(* The tables of the database and the foreign keys between them: what a    *)
(* row of each table needs before it can be inserted, and what it may      *)
(* refer to in columns that can be null.  A key is known by its columns.   *)
(* Below, what a statement does under these keys, on a database of rows    *)
(* <<table, number>> and of links from the key of one row to another row.  *)
(***************************************************************************)
EXTENDS Integers, Sequences, FiniteSets

Needs(by, to) == [by |-> by, to |-> to, null |-> FALSE]
May(by, to) == [by |-> by, to |-> to, null |-> TRUE]

admin_audit_events == {May(<<"actor_user_id">>, "users")}

admin_catalog_operations ==
  {Needs(<<"created_by">>, "users"), Needs(<<"upload_id">>, "admin_catalog_uploads")}

admin_catalog_uploads ==
  {Needs(<<"created_by">>, "users"), May(<<"source_id">>, "game_data_sources"),
   May(<<"staged_version_id">>, "game_data_versions")}

agent_command_results == {Needs(<<"command_id">>, "agent_commands")}

agent_commands == {Needs(<<"created_by">>, "users")}

agent_worker_heartbeats == {}

breeding_data_sources == {}

breeding_data_versions ==
  {May(<<"published_by">>, "profiles"), May(<<"source_id">>, "breeding_data_sources")}

breeding_jobs ==
  {Needs(<<"breeding_data_version_id">>, "breeding_data_versions"),
   Needs(<<"game_data_version_id">>, "game_data_versions"),
   May(<<"guild_id", "world_id">>, "guilds"), Needs(<<"player_id", "world_id">>, "players"),
   Needs(<<"requester_user_id">>, "users"),
   Needs(<<"scoring_profile_version">>, "scoring_profiles"),
   Needs(<<"inventory_snapshot_id", "world_id">>, "inventory_snapshots"),
   May(<<"source_plan_id">>, "execution_plans"), Needs(<<"world_id">>, "worlds")}

breeding_plans ==
  {Needs(<<"job_id">>, "breeding_jobs"), May(<<"recommended_route_id">>, "breeding_routes")}

breeding_recipes == {Needs(<<"version_id">>, "breeding_data_versions")}

breeding_routes == {Needs(<<"plan_id">>, "breeding_plans")}

breeding_steps ==
  {May(<<"baseline_snapshot_id">>, "inventory_snapshots"),
   May(<<"execution_plan_id">>, "execution_plans"), Needs(<<"route_id">>, "breeding_routes")}

catalog_active_skills == {Needs(<<"version_id">>, "game_data_versions")}

catalog_breeding_recipes ==
  {Needs(<<"version_id", "child_pal_id">>, "catalog_pals"),
   Needs(<<"version_id", "parent_a_pal_id">>, "catalog_pals"),
   Needs(<<"version_id", "parent_b_pal_id">>, "catalog_pals")}

catalog_item_recipe_ingredients ==
  {Needs(<<"version_id", "item_id">>, "catalog_items"),
   Needs(<<"version_id", "recipe_id">>, "catalog_item_recipes")}

catalog_item_recipes ==
  {Needs(<<"version_id", "product_item_id">>, "catalog_items"),
   May(<<"version_id", "unlock_item_id">>, "catalog_items")}

catalog_items == {Needs(<<"version_id">>, "game_data_versions")}

catalog_localizations == {Needs(<<"version_id">>, "game_data_versions")}

catalog_pal_active_skills ==
  {Needs(<<"version_id", "pal_id">>, "catalog_pals"),
   Needs(<<"version_id", "active_skill_id">>, "catalog_active_skills")}

catalog_pals == {Needs(<<"version_id">>, "game_data_versions")}

catalog_partner_skills == {Needs(<<"version_id", "pal_id">>, "catalog_pals")}

catalog_passive_skills == {Needs(<<"version_id">>, "game_data_versions")}

deployment_records == {}

execution_candidate_detection_runs ==
  {Needs(<<"detected_snapshot_id">>, "inventory_snapshots"), Needs(<<"step_id">>, "breeding_steps")}

execution_plan_dependencies ==
  {May(<<"guild_id_at_adoption">>, "guilds"), May(<<"owner_player_id_at_adoption">>, "players"),
   Needs(<<"plan_id">>, "execution_plans")}

execution_plan_events ==
  {May(<<"actor_user_id">>, "users"), Needs(<<"plan_id">>, "execution_plans"),
   May(<<"step_id">>, "breeding_steps")}

execution_plans ==
  {Needs(<<"adopted_route_id">>, "breeding_routes"),
   Needs(<<"game_data_version_id">>, "game_data_versions"),
   May(<<"guild_id", "world_id">>, "guilds"), Needs(<<"player_id", "world_id">>, "players"),
   Needs(<<"requester_user_id">>, "users"),
   Needs(<<"scoring_profile_version">>, "scoring_profiles"),
   Needs(<<"inventory_snapshot_id", "world_id">>, "inventory_snapshots"),
   Needs(<<"source_job_id">>, "breeding_jobs")}

game_data_import_batches == {Needs(<<"import_run_id">>, "game_data_import_runs")}

game_data_import_runs == {Needs(<<"version_id">>, "game_data_versions")}

game_data_sources == {}

game_data_versions ==
  {May(<<"published_by">>, "profiles"), May(<<"source_id">>, "game_data_sources")}

guilds == {Needs(<<"world_id">>, "worlds")}

inventory_snapshots == {Needs(<<"world_id">>, "worlds")}

item_inventory_base_totals ==
  {Needs(<<"snapshot_id", "base_id">>, "item_inventory_bases"),
   Needs(<<"guild_id", "world_id">>, "guilds"),
   Needs(<<"snapshot_id", "world_id">>, "item_inventory_snapshots")}

item_inventory_bases ==
  {Needs(<<"guild_id", "world_id">>, "guilds"),
   Needs(<<"snapshot_id", "world_id">>, "item_inventory_snapshots")}

item_inventory_daily_rollups ==
  {Needs(<<"guild_id", "world_id">>, "guilds"), Needs(<<"world_id">>, "worlds")}

item_inventory_five_minute_samples ==
  {Needs(<<"guild_id", "world_id">>, "guilds"),
   Needs(<<"snapshot_id", "world_id">>, "item_inventory_snapshots"),
   Needs(<<"world_id">>, "worlds")}

item_inventory_five_minute_totals ==
  {Needs(<<"world_id", "guild_id", "bucket_at">>, "item_inventory_five_minute_samples")}

item_inventory_hourly_rollups ==
  {Needs(<<"guild_id", "world_id">>, "guilds"), Needs(<<"world_id">>, "worlds")}

item_inventory_recipe_capacities ==
  {Needs(<<"guild_id", "world_id">>, "guilds"),
   Needs(<<"game_data_version_id", "item_id">>, "catalog_items"),
   May(<<"game_data_version_id", "selected_recipe_id">>, "catalog_item_recipes"),
   Needs(<<"snapshot_id", "world_id">>, "item_inventory_snapshots")}

item_inventory_snapshots ==
  {Needs(<<"game_data_version_id">>, "game_data_versions"),
   Needs(<<"source_inventory_snapshot_id", "world_id">>, "inventory_snapshots"),
   Needs(<<"world_id">>, "worlds")}

item_inventory_stack_items ==
  {May(<<"snapshot_id", "base_id">>, "item_inventory_bases"),
   May(<<"guild_id", "world_id">>, "guilds"),
   Needs(<<"snapshot_id", "world_id">>, "item_inventory_snapshots")}

item_inventory_totals ==
  {Needs(<<"guild_id", "world_id">>, "guilds"),
   Needs(<<"snapshot_id", "world_id">>, "item_inventory_snapshots")}

pal_instance_lifecycle == {Needs(<<"world_id">>, "worlds")}

pal_share_preferences ==
  {May(<<"owner_player_id_at_set", "world_id">>, "players"), May(<<"updated_by">>, "users"),
   Needs(<<"world_id">>, "worlds")}

pal_snapshot_items ==
  {May(<<"guild_id", "world_id">>, "guilds"), May(<<"owner_player_id", "world_id">>, "players"),
   Needs(<<"snapshot_id", "world_id">>, "inventory_snapshots")}

player_binding_events ==
  {Needs(<<"actor_user_id">>, "users"), May(<<"player_id">>, "players"),
   Needs(<<"user_id">>, "users")}

player_binding_invitations ==
  {May(<<"accepted_by_user_id">>, "users"), Needs(<<"inviter_user_id">>, "users"),
   May(<<"player_id">>, "players"), Needs(<<"sync_device_id">>, "sync_devices")}

player_bindings ==
  {Needs(<<"bound_by">>, "profiles"), Needs(<<"player_id">>, "players"),
   Needs(<<"user_id">>, "users")}

players == {May(<<"guild_id", "world_id">>, "guilds"), Needs(<<"world_id">>, "worlds")}

profiles == {Needs(<<"id">>, "users")}

runtime_settings_versions == {May(<<"created_by">>, "users")}

saved_breeding_plans ==
  {Needs(<<"requester_user_id">>, "users"), Needs(<<"route_id">>, "breeding_routes")}

scoring_profiles == {}

steam_identities == {Needs(<<"user_id">>, "users")}

step_offspring_candidates ==
  {Needs(<<"detected_snapshot_id">>, "inventory_snapshots"), May(<<"confirmed_by">>, "users"),
   May(<<"rejected_by">>, "users"), Needs(<<"step_id">>, "breeding_steps")}

sync_devices == {Needs(<<"owner_user_id">>, "users"), May(<<"world_id">>, "worlds")}

sync_pairing_codes == {Needs(<<"owner_user_id">>, "users")}

\* Mutation: the latest snapshot of a world may not be null.
worldsWithSnapshot ==
  {Needs(<<"active_breeding_version_id">>, "breeding_data_versions"),
   Needs(<<"latest_snapshot_id", "id">>, "inventory_snapshots")}

worlds ==
  {May(<<"active_breeding_version_id">>, "breeding_data_versions"),
   May(<<"active_game_data_version_id">>, "game_data_versions"),
   May(<<"latest_item_inventory_snapshot_id", "id">>, "item_inventory_snapshots"),
   May(<<"latest_snapshot_id", "id">>, "inventory_snapshots")}

Tables ==
  [admin_audit_events |-> admin_audit_events,
   admin_catalog_operations |-> admin_catalog_operations,
   admin_catalog_uploads |-> admin_catalog_uploads,
   agent_command_results |-> agent_command_results, agent_commands |-> agent_commands,
   agent_worker_heartbeats |-> agent_worker_heartbeats,
   breeding_data_sources |-> breeding_data_sources,
   breeding_data_versions |-> breeding_data_versions, breeding_jobs |-> breeding_jobs,
   breeding_plans |-> breeding_plans, breeding_recipes |-> breeding_recipes,
   breeding_routes |-> breeding_routes, breeding_steps |-> breeding_steps,
   catalog_active_skills |-> catalog_active_skills,
   catalog_breeding_recipes |-> catalog_breeding_recipes,
   catalog_item_recipe_ingredients |-> catalog_item_recipe_ingredients,
   catalog_item_recipes |-> catalog_item_recipes, catalog_items |-> catalog_items,
   catalog_localizations |-> catalog_localizations,
   catalog_pal_active_skills |-> catalog_pal_active_skills, catalog_pals |-> catalog_pals,
   catalog_partner_skills |-> catalog_partner_skills,
   catalog_passive_skills |-> catalog_passive_skills, deployment_records |-> deployment_records,
   execution_candidate_detection_runs |-> execution_candidate_detection_runs,
   execution_plan_dependencies |-> execution_plan_dependencies,
   execution_plan_events |-> execution_plan_events, execution_plans |-> execution_plans,
   game_data_import_batches |-> game_data_import_batches,
   game_data_import_runs |-> game_data_import_runs, game_data_sources |-> game_data_sources,
   game_data_versions |-> game_data_versions, guilds |-> guilds,
   inventory_snapshots |-> inventory_snapshots,
   item_inventory_base_totals |-> item_inventory_base_totals,
   item_inventory_bases |-> item_inventory_bases,
   item_inventory_daily_rollups |-> item_inventory_daily_rollups,
   item_inventory_five_minute_samples |-> item_inventory_five_minute_samples,
   item_inventory_five_minute_totals |-> item_inventory_five_minute_totals,
   item_inventory_hourly_rollups |-> item_inventory_hourly_rollups,
   item_inventory_recipe_capacities |-> item_inventory_recipe_capacities,
   item_inventory_snapshots |-> item_inventory_snapshots,
   item_inventory_stack_items |-> item_inventory_stack_items,
   item_inventory_totals |-> item_inventory_totals,
   pal_instance_lifecycle |-> pal_instance_lifecycle,
   pal_share_preferences |-> pal_share_preferences, pal_snapshot_items |-> pal_snapshot_items,
   player_binding_events |-> player_binding_events,
   player_binding_invitations |-> player_binding_invitations, player_bindings |-> player_bindings,
   players |-> players, profiles |-> profiles,
   runtime_settings_versions |-> runtime_settings_versions,
   saved_breeding_plans |-> saved_breeding_plans, scoring_profiles |-> scoring_profiles,
   steam_identities |-> steam_identities, step_offspring_candidates |-> step_offspring_candidates,
   sync_devices |-> sync_devices, sync_pairing_codes |-> sync_pairing_codes, worlds |-> worlds]

\* The users of the authentication service are outside the schema.
Names == DOMAIN Tables
Keys(t) == IF t = "users" THEN {} ELSE Tables[t]
Required(t) == {key.to : key \in {k \in Keys(t) : ~k.null}}

\* The tables a row of this one cannot do without.
Behind(tables) ==
  LET upto[n \in 0..Cardinality(Names)] ==
        IF n = 0 THEN tables
        ELSE LET nearer == upto[n - 1] IN nearer \cup UNION {Required(t) : t \in nearer}
  IN upto[Cardinality(Names)]

\* The keys whose rows go with the row they refer to, and the one that is set
\* to null; every other key refuses the deletion.
Cascading ==
  {<<"profiles", <<"id">>>>, <<"player_bindings", <<"user_id">>>>,
   <<"breeding_plans", <<"job_id">>>>, <<"breeding_routes", <<"plan_id">>>>,
   <<"breeding_steps", <<"route_id">>>>, <<"step_offspring_candidates", <<"step_id">>>>,
   <<"saved_breeding_plans", <<"requester_user_id">>>>,
   <<"saved_breeding_plans", <<"route_id">>>>, <<"steam_identities", <<"user_id">>>>,
   <<"sync_pairing_codes", <<"owner_user_id">>>>, <<"sync_devices", <<"owner_user_id">>>>,
   <<"item_inventory_five_minute_totals", <<"world_id", "guild_id", "bucket_at">>>>}

SetNull == {<<"pal_share_preferences", <<"updated_by">>>>}

KeyOf(link) == <<link.from[1], link.by>>

-----------------------------------------------------------------------------
\* A database; refused has the row at which a transaction failed.
Database(rows, links, refused) == [rows |-> rows, links |-> links, refused |-> refused]

\* Inserts the row number[t] of a table, unless it is there already, with its keys
\* referring to the rows of these numbers.
Insert(db, t, number) ==
  LET row == <<t, number[t]>>
      target(key) == <<key.to, number[key.to]>>
      found == {key \in Keys(t) : target(key) \in db.rows}
      links == {[from |-> row, by |-> key.by, to |-> target(key)] : key \in found}
  IN IF db.refused # {} \/ row \in db.rows THEN db
     ELSE IF \E key \in Keys(t) \ found : ~key.null
     THEN Database(db.rows, db.links, {row})
     ELSE Database(db.rows \cup {row}, db.links \cup links, {})

\* These rows and those that refer to them by a key that cascades.
Nearer(db, rows) ==
  rows \cup {link.from : link \in {l \in db.links : l.to \in rows /\ KeyOf(l) \in Cascading}}

\* The rows that go with rows: cascades are five keys deep at the most.
Taken(db, rows) == Nearer(db, Nearer(db, Nearer(db, Nearer(db, Nearer(db, rows)))))

\* Deletes the rows of a table that have these numbers, in one statement.
Delete(db, t, numbers) ==
  LET doomed == {<<t, n>> : n \in numbers} \cap db.rows
      taken == Taken(db, doomed)
      restricting == {l \in db.links :
        l.to \in taken /\ l.from \notin taken /\ KeyOf(l) \notin SetNull}
  IN IF db.refused # {} THEN db
     ELSE IF restricting # {} THEN Database(db.rows, db.links, doomed)
     ELSE Database(db.rows \ taken,
                   {l \in db.links : l.from \notin taken /\ l.to \notin taken}, {})

\* Updates one key of a row that is there; to is empty for null.
Update(db, row, by, to) ==
  Database(db.rows,
           {l \in db.links : l.from # row \/ l.by # by}
             \cup {[from |-> row, by |-> by, to |-> target] : target \in to},
           db.refused)

\* One table after the other.
InsertAll(db, tables, number) ==
  LET after[n \in 0..Len(tables)] ==
        IF n = 0 THEN db ELSE Insert(after[n - 1], tables[n], number)
  IN after[Len(tables)]

DeleteAll(db, tables, numbers) ==
  LET after[n \in 0..Len(tables)] ==
        IF n = 0 THEN db ELSE Delete(after[n - 1], tables[n], numbers)
  IN after[Len(tables)]
=============================================================================
