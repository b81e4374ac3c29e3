--------------------------- MODULE MCAdministration ---------------------------
(***************************************************************************)
(* The administration for TLC: the commands with the queue they act on     *)
(* (AgentCommands), the settings (RuntimeSettings), the catalog            *)
(* (CatalogUploads), and the tables under all of it (Transactions).        *)
(*                                                                         *)
(* A behaviour is of one of the Parts, and the others stay at their        *)
(* initial states.  As in production, all the processes of AgentCommands   *)
(* have one name.                                                          *)
(***************************************************************************)
EXTENDS AgentCommands, TLC

CONSTANTS Parts, MaxLeases, MaxEffects,
          Fields, Flag, Values, FormTabs, JobTabs, MaxVersions,
          Uploads, CatalogVersions, CatalogWorkers, Content, MaxCrash, v1,
          Snapshots, StagedVersions

OneName == [p \in Processes |-> "command"]
SameContent == [u \in Uploads |-> v1]
Bits == {0, 1}

VARIABLES part,
          versions, tab, request,
          upload, op, catalog, imported, active, form, importer, page, crashes,
          db, snapshot, items, version, job, saved

Config == INSTANCE RuntimeSettings
Catalog == INSTANCE CatalogUploads WITH
  Workers <- CatalogWorkers, Versions <- CatalogVersions, version <- catalog,
  worker <- importer
Tables == INSTANCE Transactions WITH Versions <- StagedVersions

ASSUME CommandsAssumption == NameAssumption /\ NoneAssumption
ASSUME SettingsAssumption == Config!FlagAssumption /\ Config!ValuesAssumption
ASSUME CatalogAssumption == Catalog!ContentAssumption

settingsVars == <<versions, tab, request>>
catalogVars == <<upload, op, catalog, imported, active, form, importer, page, crashes>>
tableVars == <<db, snapshot, items, version, job, saved>>
mcVars == <<part, vars, settingsVars, catalogVars, tableVars>>

MCInit == part \in Parts /\ Init /\ Config!Init /\ Catalog!Init /\ Tables!Init

\* Bounds: an administrator changes one field of the form at a time, ...
OneField == \A t \in Config!Tabs : Cardinality({f \in Fields : tab'[t].touched[f] # None}) <= 1

\* ... claims and effects are few, and a call is lost while there is one command.
FewCommands ==
  /\ lastLease' <= MaxLeases /\ \A c \in Commands : effects'[c] <= MaxEffects
  /\ budget'.lost < MaxLost
       => Cardinality({c \in Commands : command'[c] # NoCommand}) <= 1

MCNext ==
  \/ part = "settings" /\ Config!Next /\ OneField
       /\ UNCHANGED <<part, vars, catalogVars, tableVars>>
  \/ part = "commands" /\ Next /\ FewCommands
       /\ UNCHANGED <<part, settingsVars, catalogVars, tableVars>>
  \/ part = "catalog" /\ Catalog!Next /\ UNCHANGED <<part, vars, settingsVars, tableVars>>
  \/ part = "tables" /\ Tables!Next /\ UNCHANGED <<part, vars, settingsVars, catalogVars>>

MCSpec == MCInit /\ [][MCNext]_mcVars

Symmetry == Permutations(Commands) \cup Permutations(Processes)

-----------------------------------------------------------------------------
\* The settings, written from pages that are old: see RuntimeSettings.
SettingsAreSerial == Config!SettingsAreSerial

\* The catalog, with decisions while operations run: see CatalogUploads.
CatalogIsSound == Catalog!CatalogIsSound

\* The tables under all functions: see Transactions.
TablesHold == Tables!TablesHold
=============================================================================
