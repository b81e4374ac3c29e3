------------------------ MODULE Administration_proofs -------------------------
(***************************************************************************)
(* For any settings and any number of pages: versions are written one on   *)
(* the other, the switch of the jobs page changes nothing but its flag,    *)
(* and a rollback restores the version before the one its page showed.     *)
(* And for any numbers of catalog packages, versions and workers: what an  *)
(* administrator sees of a package is what became of it (CatalogUploads).  *)
(* And for any snapshots and versions: no foreign key refuses a statement  *)
(* of the transactions, whatever their order (Transactions).               *)
(***************************************************************************)
EXTENDS MCAdministration, Sequences, TLAPS, FiniteSetTheorems, WellFoundedInduction

WriteKinds == {"initial", "save", "toggle", "rollback"}
Versions ==
  [number : Nat, settings : Config!Settings, kind : WriteKinds, expected : Nat,
   edited : SUBSET Fields]
Touched == [Fields -> Values \cup {None}]
Pages == [shown : Nat, settings : Config!Settings, touched : Touched, edited : SUBSET Fields,
          state : {"idle", "pending", "done", "error"}]
Replies == {None, "ok", "RUNTIME_SETTINGS_VERSION_CONFLICT", "ADMIN_DATA_UNAVAILABLE"}
WriteRequests == [kind : WriteKinds, expected : Nat, settings : Config!Settings,
                  edited : SUBSET Fields, read : Nat, reply : Replies]

Typing ==
  /\ versions \in Seq(Versions) /\ Len(versions) > 0
  /\ tab \in [Config!Tabs -> Pages]
  /\ request \in [Config!Tabs -> WriteRequests \cup {None}]

\* Only the flag differs.
Switched(settings, before) == \A f \in Fields : (settings[f] = before[f]) <=> (f # Flag)

\* A version stands on the one before it.
Standing(i) ==
  /\ versions[i].number = i /\ versions[i].expected = i - 1
  /\ versions[i].kind = "toggle" =>
       i > 1 /\ Switched(versions[i].settings, versions[i - 1].settings)
  /\ versions[i].kind = "rollback" => i > 2 /\ versions[i].settings = versions[i - 2].settings

\* A page shows a version, and what it sends was made from that version.
Faithful(p) == p.shown \in 1..Len(versions) /\ p.settings = versions[p.shown].settings
Sound(r) ==
  /\ r.expected \in 1..Len(versions) /\ r.read \in 0..Len(versions)
  /\ r.kind = "toggle" => Switched(r.settings, versions[r.expected].settings)
  /\ r.kind = "rollback" => r.expected > 1

Inv ==
  /\ Typing
  /\ \A i \in 1..Len(versions) : Standing(i)
  /\ \A t \in Config!Tabs : Faithful(tab[t])
  /\ \A t \in Config!Tabs : request[t] # None => Sound(request[t])

-----------------------------------------------------------------------------
LEMMA LastIsLast ==
  ASSUME Inv
  PROVE  /\ Len(versions) \in Nat
         /\ Config!Last \in Versions /\ Config!Last = versions[Len(versions)]
         /\ Config!Last.number = Len(versions)
BY DEF Inv, Typing, Config!Last, Standing

LEMMA InvHoldsAtFirst ==
  ASSUME Config!Init
  PROVE  Inv
  <1>1. Config!First.settings \in Config!Settings
    BY SettingsAssumption DEF Config!ValuesAssumption, Config!First, Config!Settings
  <1>2. /\ Config!First \in Versions /\ Config!First.number = 1
        /\ Config!First.expected = 0 /\ Config!First.kind = "initial"
    BY <1>1 DEF Config!First, Versions, WriteKinds
  <1>3. versions \in Seq(Versions) /\ Len(versions) = 1 /\ versions[1] = Config!First
    BY <1>2 DEF Config!Init
  <1>4. Config!Fresh(Config!First.settings, 1) \in Pages
    BY <1>1 DEF Config!Fresh, Pages, Touched, Config!Untouched
  <1>5. tab \in [Config!Tabs -> Pages] /\ \A t \in Config!Tabs : Faithful(tab[t])
    BY <1>3, <1>4 DEF Config!Init, Faithful, Config!Fresh
  <1>6. Standing(1)
    BY <1>2, <1>3 DEF Standing
  <1> QED
    BY <1>3, <1>5, <1>6 DEF Config!Init, Inv, Typing

-----------------------------------------------------------------------------
\* Steps that write no version: the page and the request that they change stay
\* in order.
LEMMA OfOnePage ==
  ASSUME Inv, UNCHANGED versions, NEW t \in Config!Tabs,
         NEW p \in Pages, Faithful(p), tab' = tab \/ tab' = [tab EXCEPT ![t] = p],
         NEW r \in WriteRequests \cup {None}, r # None => Sound(r),
         request' = request \/ request' = [request EXCEPT ![t] = r]
  PROVE  Inv'
  <1>1. Typing'
    BY DEF Inv, Typing
  <1>2. \A u \in Config!Tabs : /\ tab'[u] = tab[u] \/ tab'[u] = p
                               /\ request'[u] = request[u] \/ request'[u] = r
    BY DEF Inv, Typing
  <1> QED
    BY <1>1, <1>2 DEF Inv, Standing, Faithful, Sound

LEMMA FormValueIsTyped ==
  ASSUME Inv, NEW t \in Config!Tabs
  PROVE  Config!FormValue(t) \in Config!Settings
  <1>1. tab[t].touched \in Touched /\ tab[t].settings \in Config!Settings
    BY DEF Inv, Typing, Pages
  <1> QED
    BY <1>1 DEF Config!FormValue, Touched, Config!Settings

LEMMA SendKeepsInv ==
  ASSUME Inv, NEW t \in Config!Tabs, NEW kind \in {"save", "toggle", "rollback"},
         NEW settings \in Config!Settings, NEW edited \in SUBSET Fields,
         kind = "toggle" => Switched(settings, tab[t].settings),
         kind = "rollback" => tab[t].shown > 1,
         Config!Send(t, kind, settings, edited)
  PROVE  Inv'
  <1> DEFINE r == [kind |-> kind, expected |-> tab[t].shown, settings |-> settings,
                   edited |-> edited, read |-> 0, reply |-> None]
             p == [tab[t] EXCEPT !.state = "pending", !.edited = {}]
  <1>1. tab[t] \in Pages /\ Faithful(tab[t])
    BY DEF Inv, Typing
  <1>2. r \in WriteRequests
    BY <1>1 DEF WriteRequests, Pages, WriteKinds, Replies
  <1>3. Sound(r)
    BY <1>1, LastIsLast DEF Sound, Faithful
  <1>4. p \in Pages /\ Faithful(p)
    BY <1>1 DEF Pages, Faithful
  <1>5. request' = [request EXCEPT ![t] = r] /\ tab' = [tab EXCEPT ![t] = p]
    BY DEF Config!Send, Inv, Typing
  <1> HIDE DEF r, p
  <1> QED
    BY <1>2, <1>3, <1>4, <1>5, OfOnePage DEF Config!Send

LEMMA PageKeepsInv ==
  ASSUME Inv, NEW t \in Config!Tabs, Config!OpenPage(t) \/ Config!Edit(t)
  PROVE  Inv'
  <1>1. CASE Config!OpenPage(t)
    <2> DEFINE p == Config!Fresh(Config!Last.settings, Config!Last.number)
    <2>1. p \in Pages /\ Faithful(p)
      BY LastIsLast DEF Config!Fresh, Config!Untouched, Pages, Versions, Touched, Faithful,
                            Inv, Typing
    <2> HIDE DEF p
    <2>2. tab' = [tab EXCEPT ![t] = p]
      BY <1>1 DEF Config!OpenPage, p
    <2> QED
      BY <1>1, <2>1, <2>2, OfOnePage DEF Config!OpenPage
  <1>2. CASE Config!Edit(t)
    <2>1. PICK f \in Fields, v \in Values :
            tab' = [tab EXCEPT ![t].touched[f] = v, ![t].edited = @ \cup {f}]
      BY <1>2 DEF Config!Edit
    <2> DEFINE p == [tab[t] EXCEPT !.touched = [tab[t].touched EXCEPT ![f] = v],
                                   !.edited = tab[t].edited \cup {f}]
    <2>2. tab[t] \in Pages /\ Faithful(tab[t])
      BY DEF Inv, Typing
    <2>3. [tab[t].touched EXCEPT ![f] = v] \in Touched /\ tab[t].edited \cup {f} \in SUBSET Fields
      BY <2>2 DEF Pages, Touched
    <2>4. p \in Pages /\ Faithful(p)
      BY <2>2, <2>3 DEF Pages, Faithful
    <2>5. tab' = [tab EXCEPT ![t] = p]
      BY <2>1 DEF Inv, Typing
    <2> HIDE DEF p
    <2> QED
      BY <1>2, <2>4, <2>5, OfOnePage DEF Config!Edit
  <1> QED
    BY <1>1, <1>2

LEMMA SendsKeepInv ==
  ASSUME Inv, NEW t \in Config!Tabs,
         Config!Save(t) \/ Config!ToggleJobCreation(t) \/ Config!Rollback(t)
  PROVE  Inv'
  <1>1. tab[t].settings \in Config!Settings /\ tab[t].edited \in SUBSET Fields
    BY DEF Inv, Typing, Pages
  <1>2. CASE Config!Save(t)
    BY <1>1, <1>2, FormValueIsTyped, SendKeepsInv DEF Config!Save
  <1>3. CASE Config!ToggleJobCreation(t)
    <2>1. PICK v \in Values \ {tab[t].settings[Flag]} :
            Config!Send(t, "toggle", [tab[t].settings EXCEPT ![Flag] = v], {Flag})
      BY <1>3 DEF Config!ToggleJobCreation
    <2> DEFINE s == [tab[t].settings EXCEPT ![Flag] = v]
    <2>2. s \in Config!Settings /\ Switched(s, tab[t].settings)
      BY <1>1, <2>1, SettingsAssumption DEF Config!FlagAssumption, Config!Settings, Switched
    <2>3. {Flag} \in SUBSET Fields
      BY SettingsAssumption DEF Config!FlagAssumption
    <2> HIDE DEF s
    <2>4. Config!Send(t, "toggle", s, {Flag})
      BY <2>1 DEF s
    <2> QED
      BY <2>2, <2>3, <2>4, SendKeepsInv
  <1>4. CASE Config!Rollback(t)
    BY <1>1, <1>4, SendKeepsInv DEF Config!Rollback
  <1> QED
    BY <1>2, <1>3, <1>4

LEMMA ReadKeepsInv ==
  ASSUME Inv, NEW t \in Config!Tabs, Config!ReadCurrent(t)
  PROVE  Inv'
  <1> DEFINE r == [request[t] EXCEPT !.read = Config!Last.number]
  <1>1. request[t] \in WriteRequests /\ Sound(request[t])
    BY DEF Inv, Typing, Config!ReadCurrent
  <1>2. r \in WriteRequests /\ Sound(r)
    BY <1>1, LastIsLast DEF WriteRequests, Sound
  <1>3. request' = [request EXCEPT ![t] = r]
    BY DEF Config!ReadCurrent, Inv, Typing
  <1> HIDE DEF r
  <1>4. tab[t] \in Pages /\ Faithful(tab[t])
    BY DEF Inv, Typing
  <1> QED
    BY <1>2, <1>3, <1>4, OfOnePage DEF Config!ReadCurrent

\* The unique column lets only the reader of the last version write the next.
LEMMA WriteKeepsInv ==
  ASSUME Inv, NEW t \in Config!Tabs, Config!Write(t)
  PROVE  Inv'
  <1> DEFINE r == request[t]
             q == [r EXCEPT !.reply = Config!Answer(r)]
             v == [number |-> r.read + 1, settings |-> Config!Written(r), kind |-> r.kind,
                   expected |-> r.expected, edited |-> r.edited]
  <1>n. PICK n \in Nat : n = Len(versions)
    BY DEF Inv, Typing
  <1>1. r \in WriteRequests /\ Sound(r) /\ r # None /\ r.read > 0
    BY DEF Inv, Typing, Config!Write
  <1>2. Config!Answer(r) \in Replies
    BY DEF Config!Answer, Replies
  <1>3. q \in WriteRequests /\ Sound(q)
    BY <1>1, <1>2 DEF WriteRequests, Sound
  <1>4. request' = [request EXCEPT ![t] = q]
    BY DEF Config!Write, Inv, Typing
  <1>5. tab[t] \in Pages /\ Faithful(tab[t])
    BY DEF Inv, Typing
  <1>6. CASE Config!Answer(r) # "ok"
    <2>1. UNCHANGED versions
      BY <1>6 DEF Config!Write
    <2> HIDE DEF q, r
    <2> QED
      BY <1>3, <1>4, <1>5, <2>1, OfOnePage DEF Config!Write
  <1>7. CASE Config!Answer(r) = "ok"
    <2>1. versions' = Append(versions, v)
      BY <1>7 DEF Config!Write
    <2>2. r.read = r.expected /\ r.read = n /\ n > 0
      <3>1. r.read = r.expected /\ \A i \in DOMAIN versions : versions[i].number # r.read + 1
        BY <1>7 DEF Config!Answer
      <3>2. \A i \in 1..n : versions[i].number = i
        BY <1>n DEF Inv, Standing
      <3>3. DOMAIN versions = 1..n /\ r.read \in 0..n
        BY <1>n, <1>1 DEF Inv, Typing, Sound
      <3> QED
        BY <1>1, <3>1, <3>2, <3>3
    <2>3. /\ Config!Written(r) \in Config!Settings
          /\ r.kind = "rollback" => n > 1 /\ Config!Written(r) = versions[n - 1].settings
          /\ (r.kind # "rollback" => Config!Written(r) = r.settings)
      <3>1. r.kind = "rollback" => n > 1 /\ n - 1 \in 1..n
        BY <1>1, <2>2 DEF Sound
      <3>2. \A i \in 1..n : versions[i].settings \in Config!Settings
        <4>1. \A i \in 1..n : versions[i] \in Versions
          BY <1>n DEF Inv, Typing
        <4> QED
          BY <4>1 DEF Versions
      <3>3. r.settings \in Config!Settings
        BY <1>1 DEF WriteRequests
      <3> QED
        BY <2>2, <3>1, <3>2, <3>3 DEF Config!Written
    <2>4. v \in Versions
      BY <1>1, <2>2, <2>3 DEF WriteRequests, Versions
    <2>5. /\ versions' \in Seq(Versions) /\ Len(versions') = n + 1
          /\ versions'[n + 1] = v /\ \A i \in 1..n : versions'[i] = versions[i]
      BY <1>n, <2>1, <2>2, <2>4 DEF Inv, Typing
    <2>6. \A i \in 1..n : Standing(i)'
      BY <1>n, <2>2, <2>5 DEF Inv, Standing
    <2>7. Standing(n + 1)'
      <3>1. v.number = n + 1 /\ v.expected = n /\ v.kind = r.kind /\ v.settings = Config!Written(r)
        BY <2>2
      <3>2. r.kind = "toggle" => Switched(r.settings, versions[n].settings)
        BY <1>1, <2>2 DEF Sound
      <3>3. r.kind = "rollback" => n - 1 \in 1..n
        BY <2>2, <2>3
      <3> HIDE DEF v
      <3>4. /\ versions'[n + 1].number = n + 1 /\ versions'[n + 1].expected = (n + 1) - 1
            /\ n + 1 > 1
        BY <2>2, <2>5, <3>1
      <3>5. versions'[n + 1].kind = "toggle" =>
              Switched(versions'[n + 1].settings, versions'[(n + 1) - 1].settings)
        BY <2>2, <2>3, <2>5, <3>1, <3>2
      <3>6. versions'[n + 1].kind = "rollback" =>
              n + 1 > 2 /\ versions'[n + 1].settings = versions'[(n + 1) - 2].settings
        BY <2>2, <2>3, <2>5, <3>1, <3>3
      <3> QED
        BY <3>4, <3>5, <3>6 DEF Standing
    <2>8. \A u \in Config!Tabs : Faithful(tab[u])'
      BY <1>n, <2>2, <2>5 DEF Config!Write, Inv, Faithful
    <2>9. /\ request' \in [Config!Tabs -> WriteRequests \cup {None}]
          /\ \A u \in Config!Tabs : request'[u] # None => Sound(request[u])'
      <3>1. \A u \in Config!Tabs : request'[u] = request[u] \/ request'[u] = q
        BY <1>4 DEF Inv, Typing
      <3> HIDE DEF q, r, v
      <3>2. \A u \in Config!Tabs : request'[u] # None => Sound(request'[u])
        BY <1>3, <3>1 DEF Inv
      <3>3. \A u \in Config!Tabs : request'[u] # None =>
              /\ request'[u].expected \in 1..n /\ request'[u].read \in 0..n
              /\ request'[u].kind = "toggle" =>
                   Switched(request'[u].settings, versions'[request'[u].expected].settings)
              /\ request'[u].kind = "rollback" => request'[u].expected > 1
        BY <1>n, <2>5, <3>2 DEF Sound
      <3>4. 1..n \subseteq 1..Len(versions') /\ 0..n \subseteq 0..Len(versions')
        BY <2>2, <2>5
      <3> QED
        BY <1>3, <1>4, <3>3, <3>4 DEF Inv, Typing, Sound
    <2>10. \A i \in 1..Len(versions') : Standing(i)'
      BY <2>2, <2>5, <2>6, <2>7
    <2> QED
      BY <2>2, <2>5, <2>8, <2>9, <2>10 DEF Inv, Typing, Config!Write
  <1> QED
    BY <1>6, <1>7

LEMMA AnswersKeepInv ==
  ASSUME Inv, NEW t \in Config!Tabs, Config!Receive(t) \/ Config!LoseReply(t)
  PROVE  Inv'
  <1>1. tab[t] \in Pages /\ Faithful(tab[t]) /\ request[t] \in WriteRequests
    BY DEF Inv, Typing, Config!Receive, Config!LoseReply
  <1> DEFINE done ==
        [tab[t] EXCEPT !.state = "done", !.shown = Config!Last.number,
                       !.settings = Config!Last.settings]
  <1>2. done \in Pages /\ Faithful(done)
    <2>1. Config!Last.number \in Nat /\ Config!Last.settings \in Config!Settings
          /\ Config!Last.number \in 1..Len(versions)
          /\ Config!Last.settings = versions[Config!Last.number].settings
      BY LastIsLast DEF Versions, Inv, Typing
    <2>2. /\ done \in Pages
          /\ done.shown = Config!Last.number /\ done.settings = Config!Last.settings
      BY <1>1, <2>1 DEF Pages
    <2> QED
      BY <2>1, <2>2 DEF Faithful
  <1>3. Config!Failed(t) \in Pages /\ Faithful(Config!Failed(t))
    BY <1>1 DEF Config!Failed, Pages, WriteRequests, Faithful
  <1>4. tab' = [tab EXCEPT ![t] = done] \/ tab' = [tab EXCEPT ![t] = Config!Failed(t)]
    BY DEF Config!Receive, Config!LoseReply
  <1> HIDE DEF done
  <1> QED
    BY <1>2, <1>3, <1>4, OfOnePage DEF Config!Receive, Config!LoseReply

LEMMA StepsKeepInv ==
  ASSUME Inv, [Config!Next]_(Config!vars)
  PROVE  Inv'
  <1>1. CASE Config!Next
    BY <1>1, PageKeepsInv, SendsKeepInv, ReadKeepsInv, WriteKeepsInv, AnswersKeepInv DEF Config!Next
  <1>2. CASE UNCHANGED Config!vars
    BY <1>2 DEF Config!vars, Inv, Typing, Standing, Faithful, Sound
  <1> QED
    BY <1>1, <1>2

-----------------------------------------------------------------------------
\* Two requests that read the same current row never both write over it.
THEOREM VersionsAreSerial == Config!Spec => []Config!EachOnTheLast
  <1>1. Inv => Config!EachOnTheLast
    BY DEF Inv, Typing, Standing, Config!EachOnTheLast
  <1> QED
    BY InvHoldsAtFirst, StepsKeepInv, <1>1, PTL DEF Config!Spec

\* The switch of the jobs page changes nothing but its flag.
THEOREM SwitchIsOfTheFlag == Config!Spec => []Config!SwitchChangesTheFlag
  <1>1. Inv => Config!SwitchChangesTheFlag
    BY DEF Inv, Typing, Standing, Switched, Config!SwitchChangesTheFlag
  <1> QED
    BY InvHoldsAtFirst, StepsKeepInv, <1>1, PTL DEF Config!Spec

\* A rollback takes back the version its page showed.
THEOREM RollbackIsOfOne == Config!Spec => []Config!RollbackTakesBackOne
  <1>1. Inv => Config!RollbackTakesBackOne
    BY DEF Inv, Typing, Standing, Config!RollbackTakesBackOne
  <1> QED
    BY InvHoldsAtFirst, StepsKeepInv, <1>1, PTL DEF Config!Spec

\* The versions are a series of single changes, each of the version before it.
THEOREM SettingsStaySerial == Config!Spec => []SettingsAreSerial
  <1>1. Config!EachOnTheLast /\ Config!SwitchChangesTheFlag /\ Config!RollbackTakesBackOne
        => SettingsAreSerial
    BY DEF SettingsAreSerial, Config!SettingsAreSerial
  <1> QED
    BY VersionsAreSerial, SwitchIsOfTheFlag, RollbackIsOfOne, <1>1, PTL

-----------------------------------------------------------------------------
(* The catalog: its uploads, their operations and the workers that run     *)
(* them.                                                                   *)

UploadStatuses ==
  {"none", "pending_upload", "uploaded", "validating", "validated", "staging", "staged", "failed",
   "rejected"}
UploadRows == [status : UploadStatuses, stored : BOOLEAN, version : CatalogVersions \cup {None}]
Operations == [type : {"validate", "stage", None}, by : CatalogWorkers \cup {None},
               status : {"none", "pending", "processing", "succeeded", "failed"}]
Tasks == [step : {"idle", "check", "stage", "finalize", "complete", "fail"},
          u : Uploads \cup {None}]

UploadsTypeOK ==
  /\ upload \in [Uploads -> UploadRows]
  /\ op \in [Uploads -> Operations]
  /\ catalog \in [CatalogVersions -> {"none", "staging", "validated", "published", "rejected"}]
  /\ active \in CatalogVersions \cup {None}
  /\ importer \in [CatalogWorkers -> Tasks]
  /\ imported \subseteq CatalogVersions
  /\ form \in [Uploads -> {"initial", "ticket", "stored", "complete", "failed"}]

\* An upload that is not known to the server has no operation; one with a live
\* operation waits for it, or was rejected while it was validated.
Awaits(type, status) ==
  \/ type = "validate" /\ status \in {"validating", "rejected"}
  \/ type = "stage" /\ status = "staging"

OperationTrue(u) ==
  /\ form[u] = "initial" => upload[u].status = "none" /\ page.upload[u] = "none"
  /\ op[u].status \in Catalog!Live => Awaits(op[u].type, upload[u].status)

\* What a worker does is what its operation is, as long as it is its own.
TaskTrue(w) ==
  /\ importer[w].step # "idle" => importer[w].u \in Uploads
  /\ importer[w].step \in {"stage", "finalize"} => Content[importer[w].u] # None
  /\ importer[w].step = "complete" /\ Catalog!Mine(w) /\ op[importer[w].u].type = "stage" =>
       Content[importer[w].u] \in imported

CatalogInv ==
  /\ UploadsTypeOK
  /\ \A u \in Uploads : OperationTrue(u)
  /\ \A w \in CatalogWorkers : TaskTrue(w)
  /\ Catalog!ActiveIsPublished /\ Catalog!StagedWasImported /\ Catalog!WaitsForAnOperation

-----------------------------------------------------------------------------
LEMMA CatalogInvHoldsAtFirst ==
  ASSUME Catalog!ContentAssumption, Catalog!Init
  PROVE  CatalogInv
  <1>1. UploadsTypeOK
    BY DEF Catalog!Init, UploadsTypeOK, UploadRows, UploadStatuses, Operations, Tasks,
         Catalog!NoOp, Catalog!Idle
  <1>2. \A u \in Uploads : OperationTrue(u)
    BY DEF Catalog!Init, OperationTrue, Catalog!NoOp, Catalog!Live
  <1>3. \A w \in CatalogWorkers : TaskTrue(w)
    BY DEF Catalog!Init, TaskTrue, Catalog!Idle
  <1>4. Catalog!ActiveIsPublished /\ Catalog!StagedWasImported /\ Catalog!WaitsForAnOperation
    BY DEF Catalog!Init, Catalog!ActiveIsPublished, Catalog!StagedWasImported,
         Catalog!WaitsForAnOperation
  <1> QED
    BY <1>1, <1>2, <1>3, <1>4 DEF CatalogInv

\* A worker's task is still what its operation is when others act.
LEMMA TaskStays ==
  ASSUME CatalogInv, NEW x \in CatalogWorkers, importer'[x] = importer[x],
         imported \subseteq imported',
         Catalog!Mine(x)' => Catalog!Mine(x) /\ op'[importer[x].u].type = op[importer[x].u].type
  PROVE  TaskTrue(x)'
BY DEF CatalogInv, TaskTrue

\* Steps of the form and of the page that leave the operations alone: an
\* upload gets another status, but not one that waits.
LEMMA UploadKeepsCatalog ==
  ASSUME Catalog!ContentAssumption, CatalogInv, NEW u \in Uploads, NEW row \in UploadRows,
         upload' = [upload EXCEPT ![u] = row],
         \/ row.status = upload[u].status
         \/ row.status \in {"pending_upload", "uploaded", "rejected"},
         op[u].status \in Catalog!Live =>
           row.status = upload[u].status \/ (op[u].type = "validate" /\ row.status = "rejected"),
         row.version = upload[u].version,
         form' \in [Uploads -> {"initial", "ticket", "stored", "complete", "failed"}],
         \A x \in Uploads : form'[x] = "initial" => form[x] = "initial",
         form'[u] = "initial" => row.status = "none",
         UNCHANGED <<op, catalog, imported, active, importer, page>>
  PROVE  CatalogInv'
  <1>1. /\ upload' \in [Uploads -> UploadRows] /\ upload'[u] = row
        /\ \A x \in Uploads : x # u => upload'[x] = upload[x]
    BY DEF CatalogInv, UploadsTypeOK
  <1>2. UploadsTypeOK'
    BY <1>1 DEF CatalogInv, UploadsTypeOK
  <1>3. \A x \in Uploads : OperationTrue(x)'
    BY <1>1 DEF CatalogInv, OperationTrue, Awaits
  <1>4. \A w \in CatalogWorkers : TaskTrue(w)'
    BY DEF CatalogInv, TaskTrue, Catalog!Mine
  <1>5. (Catalog!ActiveIsPublished /\ Catalog!StagedWasImported /\ Catalog!WaitsForAnOperation)'
    BY <1>1 DEF CatalogInv, Catalog!ActiveIsPublished, Catalog!StagedWasImported,
         Catalog!WaitsForAnOperation
  <1> QED
    BY <1>2, <1>3, <1>4, <1>5 DEF CatalogInv

LEMMA FormKeepsCatalog ==
  ASSUME Catalog!ContentAssumption, CatalogInv, NEW u \in Uploads,
         \/ Catalog!CreateUpload(u) \/ Catalog!StoreObject(u)
          \/ Catalog!MarkReady(u) \/ Catalog!RejectUpload(u)
  PROVE  CatalogInv'
  <1>1. /\ upload \in [Uploads -> UploadRows] /\ upload[u] \in UploadRows /\ OperationTrue(u)
        /\ form \in [Uploads -> {"initial", "ticket", "stored", "complete", "failed"}]
    BY DEF CatalogInv, UploadsTypeOK
  <1>2. ASSUME NEW status \in UploadStatuses
        PROVE  LET row == [upload[u] EXCEPT !.status = status]
               IN  row \in UploadRows /\ row.status = status /\ row.version = upload[u].version
    BY <1>1 DEF UploadRows
  <1>3. ASSUME NEW from, NEW to \in {"ticket", "stored", "complete"}, Catalog!Form(u, from, to)
        PROVE  /\ form' \in [Uploads -> {"initial", "ticket", "stored", "complete", "failed"}]
               /\ \A x \in Uploads : form'[x] = "initial" => form[x] = "initial"
               /\ form'[u] # "initial" /\ form[u] = from
    BY <1>1, <1>3 DEF Catalog!Form
  <1>4. CASE Catalog!CreateUpload(u)
    <2> DEFINE row == [upload[u] EXCEPT !.status = "pending_upload"]
    <2>1. /\ upload' = [upload EXCEPT ![u] = row] /\ Catalog!Form(u, "initial", "ticket")
          /\ UNCHANGED <<op, catalog, imported, active, importer, page>>
      BY <1>4 DEF Catalog!CreateUpload
    <2>2. row \in UploadRows /\ row.status = "pending_upload" /\ row.version = upload[u].version
      BY <1>2 DEF UploadStatuses
    <2> HIDE DEF row
    <2>3. op[u].status \notin Catalog!Live
      BY <1>1, <1>3, <2>1 DEF OperationTrue, Awaits
    <2> QED
      BY <1>3, <2>1, <2>2, <2>3, UploadKeepsCatalog
  <1>5. CASE Catalog!StoreObject(u)
    <2> DEFINE row == [upload[u] EXCEPT !.stored = TRUE]
    <2>1. /\ upload' = [upload EXCEPT ![u] = row] /\ Catalog!Form(u, "ticket", "stored")
          /\ UNCHANGED <<op, catalog, imported, active, importer, page>>
      BY <1>5 DEF Catalog!StoreObject
    <2>2. /\ row \in UploadRows /\ row.status = upload[u].status
          /\ row.version = upload[u].version
      BY <1>1 DEF UploadRows
    <2> HIDE DEF row
    <2> QED
      BY <1>3, <2>1, <2>2, UploadKeepsCatalog
  <1>6. CASE Catalog!MarkReady(u)
    <2> DEFINE ready == IF upload[u].status = "pending_upload" /\ upload[u].stored
                          THEN "uploaded" ELSE upload[u].status
               row == [upload[u] EXCEPT !.status = ready]
    <2>1. /\ upload' = [upload EXCEPT ![u] = row] /\ Catalog!Form(u, "stored", "complete")
          /\ UNCHANGED <<op, catalog, imported, active, importer, page>>
      BY <1>1, <1>6 DEF Catalog!MarkReady, UploadRows
    <2>2. /\ ready \in UploadStatuses
          /\ ready = upload[u].status \/ (ready = "uploaded" /\ upload[u].status = "pending_upload")
      BY <1>1 DEF UploadRows, UploadStatuses
    <2> HIDE DEF ready
    <2>3. row \in UploadRows /\ row.status = ready /\ row.version = upload[u].version
      BY <1>2, <2>2
    <2> HIDE DEF row
    <2>4. op[u].status \in Catalog!Live => ready = upload[u].status
      BY <1>1, <2>2 DEF OperationTrue, Awaits
    <2> QED
      BY <1>3, <2>1, <2>2, <2>3, <2>4, UploadKeepsCatalog
  <1>7. CASE Catalog!RejectUpload(u)
    <2> DEFINE row == [upload[u] EXCEPT !.status = "rejected"]
    <2>1. /\ upload' = [upload EXCEPT ![u] = row]
          /\ upload[u].status \notin {"staging", "staged"} /\ form[u] # "initial"
          /\ UNCHANGED <<op, catalog, imported, active, importer, form, page>>
      BY <1>1, <1>7 DEF Catalog!RejectUpload, Catalog!RejectShown, OperationTrue
    <2>2. row \in UploadRows /\ row.status = "rejected" /\ row.version = upload[u].version
      BY <1>2 DEF UploadStatuses
    <2> HIDE DEF row
    <2> QED
      BY <1>1, <2>1, <2>2, UploadKeepsCatalog DEF OperationTrue, Awaits
  <1> QED
    BY <1>4, <1>5, <1>6, <1>7

LEMMA PageKeepsCatalog ==
  ASSUME Catalog!ContentAssumption, CatalogInv,
         Catalog!LoadPage \/ \E u \in Uploads : Catalog!GiveUp(u)
  PROVE  CatalogInv'
  <1>1. UNCHANGED <<upload, op, catalog, imported, active, importer>>
    BY DEF Catalog!LoadPage, Catalog!GiveUp, Catalog!data
  <1>2. /\ form' \in [Uploads -> {"initial", "ticket", "stored", "complete", "failed"}]
        /\ \A x \in Uploads : form'[x] = "initial" => form[x] = "initial"
    BY DEF Catalog!LoadPage, Catalog!GiveUp, CatalogInv, UploadsTypeOK
  <1>3. UploadsTypeOK'
    BY <1>1, <1>2 DEF CatalogInv, UploadsTypeOK
  <1>4. ASSUME NEW x \in Uploads
        PROVE  OperationTrue(x)'
    <2>1. page'.upload[x] \in {page.upload[x], upload[x].status}
      BY DEF Catalog!LoadPage, Catalog!GiveUp, Catalog!Rows
    <2> QED
      BY <1>1, <1>2, <2>1 DEF CatalogInv, OperationTrue
  <1>5. \A w \in CatalogWorkers : TaskTrue(w)'
    BY <1>1 DEF CatalogInv, TaskTrue, Catalog!Mine
  <1>6. (Catalog!ActiveIsPublished /\ Catalog!StagedWasImported /\ Catalog!WaitsForAnOperation)'
    BY <1>1 DEF CatalogInv, Catalog!ActiveIsPublished, Catalog!StagedWasImported,
         Catalog!WaitsForAnOperation
  <1> QED
    BY <1>3, <1>4, <1>5, <1>6 DEF CatalogInv

\* Steps that leave uploads and operations alone: a version gets another
\* status, or a worker goes on.
LEMMA VersionKeepsCatalog ==
  ASSUME Catalog!ContentAssumption, CatalogInv,
         catalog' \in
           [CatalogVersions -> {"none", "staging", "validated", "published", "rejected"}],
         active' \in CatalogVersions \cup {None}, Catalog!ActiveIsPublished',
         imported \subseteq imported', imported' \subseteq CatalogVersions,
         importer' \in [CatalogWorkers -> Tasks],
         \A x \in CatalogWorkers : importer'[x] = importer[x] \/ TaskTrue(x)',
         UNCHANGED <<upload, op, form, page>>
  PROVE  CatalogInv'
  <1>1. UploadsTypeOK'
    BY DEF CatalogInv, UploadsTypeOK
  <1>2. \A u \in Uploads : OperationTrue(u)'
    BY DEF CatalogInv, OperationTrue
  <1>3. ASSUME NEW x \in CatalogWorkers
        PROVE  TaskTrue(x)'
    <2>1. CASE importer'[x] = importer[x]
      BY <2>1, TaskStays DEF Catalog!Mine
    <2> QED
      BY <2>1
  <1>4. (Catalog!StagedWasImported /\ Catalog!WaitsForAnOperation)'
    BY DEF CatalogInv, Catalog!StagedWasImported, Catalog!WaitsForAnOperation
  <1> QED
    BY <1>1, <1>2, <1>3, <1>4 DEF CatalogInv

LEMMA DecisionKeepsCatalog ==
  ASSUME Catalog!ContentAssumption, CatalogInv, NEW v \in CatalogVersions,
         Catalog!Publish(v) \/ Catalog!Rollback(v) \/ Catalog!RejectVersion(v)
  PROVE  CatalogInv'
  <1>1. /\ UploadsTypeOK /\ Catalog!ActiveIsPublished
        /\ UNCHANGED <<upload, op, form, page, imported, importer>>
    BY DEF CatalogInv, Catalog!Publish, Catalog!Rollback, Catalog!RejectVersion
  <1>2. /\ catalog' \in
             [CatalogVersions -> {"none", "staging", "validated", "published", "rejected"}]
        /\ active' \in CatalogVersions \cup {None}
    BY <1>1 DEF Catalog!Publish, Catalog!Rollback, Catalog!RejectVersion, UploadsTypeOK
  <1>3. Catalog!ActiveIsPublished'
    BY <1>1 DEF Catalog!Publish, Catalog!Rollback, Catalog!RejectVersion, UploadsTypeOK,
         Catalog!ActiveIsPublished
  <1> QED
    BY <1>1, <1>2, <1>3, VersionKeepsCatalog DEF UploadsTypeOK

\* A worker goes on with its task.
LEMMA WorkerGoesOn ==
  ASSUME CatalogInv, NEW w \in CatalogWorkers,
         NEW step \in {"check", "stage", "finalize", "complete", "fail"}, Catalog!Step(w, step)
  PROVE  /\ importer' \in [CatalogWorkers -> Tasks]
         /\ \A x \in CatalogWorkers : x # w => importer'[x] = importer[x]
         /\ importer'[w].step = step /\ importer'[w].u = importer[w].u
BY DEF CatalogInv, UploadsTypeOK, Tasks, Catalog!Step

LEMMA CheckKeepsCatalog ==
  ASSUME Catalog!ContentAssumption, CatalogInv, NEW w \in CatalogWorkers, Catalog!CheckPackage(w)
  PROVE  CatalogInv'
  <1> DEFINE u == importer[w].u
  <1>1. /\ UploadsTypeOK /\ Catalog!ActiveIsPublished /\ u \in Uploads
        /\ UNCHANGED <<upload, op, catalog, imported, active, form, page>>
    BY DEF CatalogInv, Catalog!CheckPackage, TaskTrue, Catalog!data
  <1>2. PICK step \in {"fail", "stage", "complete"} :
          /\ Catalog!Step(w, step)
          /\ step = "stage" => Content[u] # None
          /\ step = "complete" => op[u].type # "stage"
    BY DEF Catalog!CheckPackage
  <1>3. TaskTrue(w)'
    BY <1>1, <1>2, WorkerGoesOn DEF TaskTrue
  <1>4. Catalog!ActiveIsPublished'
    BY <1>1 DEF Catalog!ActiveIsPublished
  <1> QED
    BY <1>1, <1>2, <1>3, <1>4, WorkerGoesOn, VersionKeepsCatalog DEF UploadsTypeOK

LEMMA ImportKeepsCatalog ==
  ASSUME Catalog!ContentAssumption, CatalogInv, NEW w \in CatalogWorkers,
         Catalog!BeginImport(w) \/ Catalog!FinalizeImport(w)
  PROVE  CatalogInv'
  <1> DEFINE u == importer[w].u
             v == Content[u]
  <1>1. /\ UploadsTypeOK /\ Catalog!ActiveIsPublished /\ u \in Uploads /\ v \in CatalogVersions
        /\ v # None /\ UNCHANGED <<upload, op, active, form, page>>
    BY DEF CatalogInv, Catalog!BeginImport, Catalog!FinalizeImport, TaskTrue,
         Catalog!ContentAssumption
  <1>2. CASE Catalog!BeginImport(w)
    <2>1. PICK step \in {"fail", "finalize"} : Catalog!Step(w, step)
      BY <1>2 DEF Catalog!BeginImport
    <2>2. /\ catalog' \in
             [CatalogVersions -> {"none", "staging", "validated", "published", "rejected"}]
          /\ \A x \in CatalogVersions : catalog[x] # "none" => catalog'[x] = catalog[x]
          /\ UNCHANGED imported
      BY <1>1, <1>2 DEF Catalog!BeginImport, UploadsTypeOK
    <2>3. TaskTrue(w)'
      BY <1>1, <2>1, WorkerGoesOn DEF TaskTrue
    <2>4. Catalog!ActiveIsPublished'
      BY <1>1, <2>2 DEF Catalog!ActiveIsPublished, UploadsTypeOK
    <2> QED
      BY <1>1, <2>1, <2>2, <2>3, <2>4, WorkerGoesOn, VersionKeepsCatalog DEF UploadsTypeOK
  <1>3. CASE Catalog!FinalizeImport(w)
    <2>1. PICK step \in {"fail", "complete"} :
            /\ Catalog!Step(w, step) /\ imported' \in {imported, imported \cup {v}}
            /\ step = "complete" => v \in imported'
      BY <1>3 DEF Catalog!FinalizeImport
    <2>2. /\ catalog' \in
             [CatalogVersions -> {"none", "staging", "validated", "published", "rejected"}]
          /\ \A x \in CatalogVersions : catalog[x] # "staging" => catalog'[x] = catalog[x]
      BY <1>1, <1>3 DEF Catalog!FinalizeImport, UploadsTypeOK
    <2>3. TaskTrue(w)'
      BY <1>1, <2>1, WorkerGoesOn DEF TaskTrue
    <2>4. Catalog!ActiveIsPublished'
      BY <1>1, <2>2 DEF Catalog!ActiveIsPublished, UploadsTypeOK
    <2> QED
      BY <1>1, <2>1, <2>2, <2>3, <2>4, WorkerGoesOn, VersionKeepsCatalog DEF UploadsTypeOK
  <1> QED
    BY <1>2, <1>3

LEMMA CrashKeepsCatalog ==
  ASSUME Catalog!ContentAssumption, CatalogInv, NEW w \in CatalogWorkers, Catalog!Crash(w)
  PROVE  CatalogInv'
  <1>1. /\ UploadsTypeOK /\ Catalog!ActiveIsPublished
        /\ UNCHANGED <<upload, op, catalog, imported, active, form, page>>
        /\ importer' = [importer EXCEPT ![w] = Catalog!Idle]
    BY DEF CatalogInv, Catalog!Crash, Catalog!data
  <1>2. Catalog!Idle \in Tasks /\ Catalog!Idle.step = "idle"
    BY DEF Catalog!Idle, Tasks
  <1>3. TaskTrue(w)'
    BY <1>1, <1>2 DEF TaskTrue, UploadsTypeOK
  <1>4. Catalog!ActiveIsPublished'
    BY <1>1 DEF Catalog!ActiveIsPublished
  <1> QED
    BY <1>1, <1>2, <1>3, <1>4, VersionKeepsCatalog DEF UploadsTypeOK

\* Steps of an operation, with what they write about its upload.
LEMMA OperationKeepsCatalog ==
  ASSUME Catalog!ContentAssumption, CatalogInv, NEW u \in Uploads, NEW o \in Operations,
         NEW row \in UploadRows, form[u] # "initial",
         op' = [op EXCEPT ![u] = o], upload' = [upload EXCEPT ![u] = row],
         o.status \in Catalog!Live => Awaits(o.type, row.status),
         row.status \in {"validating", "staging"} => o.status \in Catalog!Live,
         row.status = "staged" => row.version \in imported,
         importer' \in [CatalogWorkers -> Tasks], \A x \in CatalogWorkers : TaskTrue(x)',
         UNCHANGED <<catalog, imported, active, form, page>>
  PROVE  CatalogInv'
  <1>1. /\ upload' \in [Uploads -> UploadRows] /\ upload'[u] = row
        /\ \A x \in Uploads : x # u => upload'[x] = upload[x]
        /\ op' \in [Uploads -> Operations] /\ op'[u] = o
        /\ \A x \in Uploads : x # u => op'[x] = op[x]
    BY DEF CatalogInv, UploadsTypeOK
  <1>2. UploadsTypeOK'
    BY <1>1 DEF CatalogInv, UploadsTypeOK
  <1>3. \A x \in Uploads : OperationTrue(x)'
    BY <1>1 DEF CatalogInv, OperationTrue
  <1>4. Catalog!ActiveIsPublished'
    BY DEF CatalogInv, Catalog!ActiveIsPublished
  <1>5. Catalog!StagedWasImported'
    BY <1>1 DEF CatalogInv, Catalog!StagedWasImported
  <1>6. Catalog!WaitsForAnOperation'
    BY <1>1 DEF CatalogInv, Catalog!WaitsForAnOperation, Awaits
  <1> QED
    BY <1>2, <1>3, <1>4, <1>5, <1>6 DEF CatalogInv

LEMMA QueueKeepsCatalog ==
  ASSUME Catalog!ContentAssumption, CatalogInv, NEW u \in Uploads,
         NEW type \in {"validate", "stage"},
         Catalog!QueueOperation(u, type)
  PROVE  CatalogInv'
  <1> DEFINE o == [type |-> type, status |-> "pending", by |-> None]
             status == IF type = "validate" THEN "validating" ELSE "staging"
             row == [upload[u] EXCEPT !.status = status]
  <1>1. /\ upload' = [upload EXCEPT ![u] = row] /\ op' = [op EXCEPT ![u] = o]
        /\ UNCHANGED <<catalog, imported, active, importer, form, page>>
    BY DEF Catalog!QueueOperation
  <1>2. UploadsTypeOK /\ upload[u] \in UploadRows /\ upload[u].status # "none" /\ OperationTrue(u)
    BY DEF CatalogInv, UploadsTypeOK, Catalog!QueueOperation
  <1>3. /\ row \in UploadRows /\ row.status = status
        /\ o \in Operations /\ o.type = type /\ o.status = "pending" /\ o.by = None
    BY <1>2 DEF UploadRows, UploadStatuses, Operations
  <1> HIDE DEF o, row
  <1>4. op'[u] = o /\ \A x \in Uploads : x # u => op'[x] = op[x]
    BY <1>1, <1>2 DEF UploadsTypeOK
  <1>5. ASSUME NEW w \in CatalogWorkers
        PROVE  TaskTrue(w)'
    <2>1. TaskTrue(w)
      BY DEF CatalogInv
    <2>2. CASE importer[w].step = "idle"
      BY <1>1, <2>2 DEF TaskTrue
    <2>3. CASE importer[w].step # "idle"
      <3>1. importer[w].u \in Uploads
        BY <2>1, <2>3 DEF TaskTrue
      <3>2. Catalog!Mine(w)' => importer[w].u # u
        BY <1>1, <1>3, <1>4 DEF Catalog!Mine
      <3> QED
        BY <1>1, <1>4, <3>1, <3>2, TaskStays DEF Catalog!Mine
    <2> QED
      BY <2>2, <2>3
  <1>6. /\ o.status \in Catalog!Live => Awaits(o.type, row.status)
        /\ row.status \in {"validating", "staging"} => o.status \in Catalog!Live
        /\ row.status = "staged" => row.version \in imported
    BY <1>3 DEF Catalog!Live, Awaits
  <1>7. form[u] # "initial" /\ importer' \in [CatalogWorkers -> Tasks]
    BY <1>1, <1>2 DEF OperationTrue, Awaits, UploadsTypeOK
  <1> QED
    BY <1>1, <1>3, <1>5, <1>6, <1>7, OperationKeepsCatalog

LEMMA ClaimKeepsCatalog ==
  ASSUME Catalog!ContentAssumption, CatalogInv, NEW w \in CatalogWorkers, NEW u \in Uploads,
         Catalog!Claim(w, u)
  PROVE  CatalogInv'
  <1> DEFINE o == [op[u] EXCEPT !.status = "processing", !.by = w]
             task == [step |-> "check", u |-> u]
  <1>1. /\ op' = [op EXCEPT ![u] = o] /\ importer' = [importer EXCEPT ![w] = task]
        /\ op[u].status \in Catalog!Live /\ op[u] \in Operations
        /\ UNCHANGED <<upload, catalog, imported, active, form, page>>
    BY DEF Catalog!Claim, CatalogInv, UploadsTypeOK
  <1>2. /\ UploadsTypeOK /\ upload[u] \in UploadRows
        /\ OperationTrue(u) /\ Catalog!WaitsForAnOperation
        /\ Catalog!StagedWasImported
    BY DEF CatalogInv, UploadsTypeOK
  <1>3. /\ o \in Operations /\ o.type = op[u].type /\ o.status = "processing" /\ o.by = w
        /\ task \in Tasks /\ task.step = "check" /\ task.u = u
    BY <1>1 DEF Operations, Tasks
  <1> HIDE DEF o, task
  <1>4. /\ op'[u] = o /\ \A x \in Uploads : x # u => op'[x] = op[x]
        /\ importer' \in [CatalogWorkers -> Tasks] /\ importer'[w] = task
        /\ \A x \in CatalogWorkers : x # w => importer'[x] = importer[x]
    BY <1>1, <1>2, <1>3 DEF UploadsTypeOK
  <1>5. ASSUME NEW x \in CatalogWorkers
        PROVE  TaskTrue(x)'
    <2>1. CASE x = w
      BY <1>3, <1>4, <2>1 DEF TaskTrue
    <2>2. CASE x # w /\ importer[x].step = "idle"
      BY <1>4, <2>2 DEF TaskTrue
    <2>3. CASE x # w /\ importer[x].step # "idle"
      <3>1. importer[x].u \in Uploads
        BY <2>3 DEF CatalogInv, TaskTrue
      <3>2. Catalog!Mine(x)' => importer[x].u # u
        BY <1>3, <1>4, <2>3 DEF Catalog!Mine
      <3> QED
        BY <1>1, <1>4, <2>3, <3>1, <3>2, TaskStays DEF Catalog!Mine
    <2> QED
      BY <2>1, <2>2, <2>3
  <1>6. /\ upload' = [upload EXCEPT ![u] = upload[u]]
        /\ o.status \in Catalog!Live => Awaits(o.type, upload[u].status)
        /\ upload[u].status \in {"validating", "staging"} => o.status \in Catalog!Live
        /\ upload[u].status = "staged" => upload[u].version \in imported
        /\ form[u] # "initial"
    <2>1. o.status \in Catalog!Live
      BY <1>3 DEF Catalog!Live
    <2>2. upload' = [upload EXCEPT ![u] = upload[u]]
      BY <1>1, <1>2 DEF UploadsTypeOK
    <2>3. upload[u].status = "staged" => upload[u].version \in imported
      BY <1>2 DEF Catalog!StagedWasImported
    <2> QED
      BY <1>1, <1>2, <1>3, <2>1, <2>2, <2>3 DEF OperationTrue, Awaits
  <1> QED
    BY <1>1, <1>2, <1>3, <1>4, <1>5, <1>6, OperationKeepsCatalog

\* The worker is done with its task, and forgets it.
LEMMA TasksEnd ==
  ASSUME CatalogInv, NEW w \in CatalogWorkers, importer' = [importer EXCEPT ![w] = Catalog!Idle],
         imported' = imported,
         \A x \in CatalogWorkers \ {w} : importer[x].step # "idle" =>
           (Catalog!Mine(x)' => Catalog!Mine(x) /\ op'[importer[x].u].type = op[importer[x].u].type)
  PROVE  /\ importer' \in [CatalogWorkers -> Tasks] /\ importer'[w] = Catalog!Idle
         /\ \A x \in CatalogWorkers : TaskTrue(x)'
  <1>1. /\ Catalog!Idle \in Tasks /\ Catalog!Idle.step = "idle"
        /\ importer \in [CatalogWorkers -> Tasks]
    BY DEF Catalog!Idle, Tasks, CatalogInv, UploadsTypeOK
  <1>2. /\ importer' \in [CatalogWorkers -> Tasks] /\ importer'[w] = Catalog!Idle
        /\ \A x \in CatalogWorkers : x # w => importer'[x] = importer[x]
    BY <1>1
  <1>3. ASSUME NEW x \in CatalogWorkers
        PROVE  TaskTrue(x)'
    <2>1. CASE x = w
      BY <1>1, <1>2, <2>1 DEF TaskTrue
    <2>2. CASE x # w /\ importer[x].step = "idle"
      BY <1>2, <2>2 DEF TaskTrue
    <2>3. CASE x # w /\ importer[x].step # "idle"
      BY <1>2, <2>3, TaskStays
    <2> QED
      BY <2>1, <2>2, <2>3
  <1> QED
    BY <1>2, <1>3

\* The outcome of an operation, if it still is the worker's own.
OutcomeOf(w, outcome, status, staged) ==
  LET u == importer[w].u IN
  /\ importer[w].step # "idle" /\ Catalog!Mine(w)
  /\ op' = [op EXCEPT ![u].status = outcome]
  /\ upload' = [upload EXCEPT ![u] = [upload[u] EXCEPT !.status = status, !.version = staged]]

LEMMA OutcomeKeepsCatalog ==
  ASSUME Catalog!ContentAssumption, CatalogInv, NEW w \in CatalogWorkers,
         NEW outcome \in {"succeeded", "failed"},
         NEW status \in {"validated", "staged", "failed"},
         NEW staged \in CatalogVersions \cup {None},
         OutcomeOf(w, outcome, status, staged), status = "staged" => staged \in imported,
         importer' = [importer EXCEPT ![w] = Catalog!Idle],
         UNCHANGED <<catalog, imported, active, form, page>>
  PROVE  CatalogInv'
  <1> DEFINE u == importer[w].u
             o == [op[u] EXCEPT !.status = outcome]
             row == [upload[u] EXCEPT !.status = status, !.version = staged]
  <1>1. /\ u \in Uploads /\ op' = [op EXCEPT ![u] = o] /\ upload' = [upload EXCEPT ![u] = row]
        /\ op[u] \in Operations /\ upload[u] \in UploadRows /\ op[u].status = "processing"
        /\ op[u].by = w /\ OperationTrue(u) /\ op \in [Uploads -> Operations]
    BY DEF OutcomeOf, Catalog!Mine, CatalogInv, UploadsTypeOK, TaskTrue
  <1>2. /\ o \in Operations /\ o.status = outcome /\ o.type = op[u].type
        /\ row \in UploadRows /\ row.status = status /\ row.version = staged
    BY <1>1 DEF Operations, UploadRows, UploadStatuses
  <1> HIDE DEF o, row
  <1>3. op'[u] = o /\ \A x \in Uploads : x # u => op'[x] = op[x]
    BY <1>1
  <1>4. ASSUME NEW x \in CatalogWorkers \ {w}, importer[x].step # "idle"
        PROVE  Catalog!Mine(x)' =>
                 Catalog!Mine(x) /\ op'[importer[x].u].type = op[importer[x].u].type
    <2>1. importer[x].u \in Uploads /\ importer'[x] = importer[x]
      BY <1>4 DEF CatalogInv, UploadsTypeOK, TaskTrue
    <2>2. Catalog!Mine(x)' => importer[x].u # u
      BY <1>2, <1>3, <2>1 DEF Catalog!Mine
    <2> QED
      BY <1>3, <2>1, <2>2 DEF Catalog!Mine
  <1>5. importer' \in [CatalogWorkers -> Tasks] /\ \A x \in CatalogWorkers : TaskTrue(x)'
    BY <1>4, TasksEnd
  <1>6. form[u] # "initial"
    BY <1>1 DEF OperationTrue, Awaits, Catalog!Live
  <1> HIDE DEF u
  <1> QED
    BY <1>1, <1>2, <1>5, <1>6, OperationKeepsCatalog DEF Catalog!Live

\* It is another's by now, or over.
LEMMA ConflictKeepsCatalog ==
  ASSUME Catalog!ContentAssumption, CatalogInv, NEW w \in CatalogWorkers,
         importer' = [importer EXCEPT ![w] = Catalog!Idle],
         UNCHANGED <<upload, op, catalog, imported, active, form, page>>
  PROVE  CatalogInv'
  <1>1. \A x \in CatalogWorkers \ {w} : Catalog!Mine(x)' => Catalog!Mine(x)
    BY DEF Catalog!Mine, CatalogInv, UploadsTypeOK
  <1>2. importer' \in [CatalogWorkers -> Tasks] /\ \A x \in CatalogWorkers : TaskTrue(x)'
    BY <1>1, TasksEnd
  <1>3. Catalog!ActiveIsPublished'
    BY DEF CatalogInv, Catalog!ActiveIsPublished
  <1> QED
    BY <1>2, <1>3, VersionKeepsCatalog DEF CatalogInv, UploadsTypeOK

LEMMA EndKeepsCatalog ==
  ASSUME Catalog!ContentAssumption, CatalogInv, NEW w \in CatalogWorkers,
         Catalog!Complete(w) \/ Catalog!Fail(w)
  PROVE  CatalogInv'
  <1> DEFINE u == importer[w].u
  <1>1. /\ importer' = [importer EXCEPT ![w] = Catalog!Idle]
        /\ importer[w].step # "idle" /\ u \in Uploads
        /\ UNCHANGED <<catalog, imported, active, form, page>>
        /\ upload[u] \in UploadRows /\ upload \in [Uploads -> UploadRows]
        /\ upload[u].version \in CatalogVersions \cup {None} /\ TaskTrue(w)
    BY DEF Catalog!Complete, Catalog!Fail, CatalogInv, TaskTrue, UploadsTypeOK, UploadRows
  <1>2. CASE ~Catalog!Mine(w)
    <2>1. UNCHANGED <<upload, op>>
      BY <1>2 DEF Catalog!Complete, Catalog!Fail
    <2> QED
      BY <1>1, <2>1, ConflictKeepsCatalog
  <1>3. CASE Catalog!Mine(w) /\ Catalog!Complete(w)
    <2> DEFINE staging == op[u].type = "stage"
               status == IF staging THEN "staged" ELSE "validated"
               staged == IF staging THEN Content[u] ELSE upload[u].version
    <2>1. /\ op' = [op EXCEPT ![u].status = "succeeded"]
          /\ upload' =
               [upload EXCEPT ![u] = [upload[u] EXCEPT !.status = status, !.version = staged]]
      BY <1>1, <1>3 DEF Catalog!Complete, UploadRows
    <2>2. OutcomeOf(w, "succeeded", status, staged)
      BY <1>1, <1>3, <2>1 DEF OutcomeOf
    <2>3. status = "staged" => staged \in imported
      BY <1>1, <1>3 DEF TaskTrue, Catalog!Complete
    <2>4. status \in {"validated", "staged", "failed"} /\ staged \in CatalogVersions \cup {None}
      BY <1>1 DEF Catalog!ContentAssumption
    <2> HIDE DEF status, staged
    <2> QED
      BY <1>1, <2>2, <2>3, <2>4, OutcomeKeepsCatalog
  <1>4. CASE Catalog!Mine(w) /\ Catalog!Fail(w)
    <2> DEFINE status == IF op[u].type = "stage" THEN "validated" ELSE "failed"
    <2>1. /\ op' = [op EXCEPT ![u].status = "failed"]
          /\ upload' = [upload EXCEPT ![u].status = status]
      BY <1>4 DEF Catalog!Fail
    <2>2. [upload[u] EXCEPT !.status = status]
            = [upload[u] EXCEPT !.status = status, !.version = upload[u].version]
      BY <1>1 DEF UploadRows
    <2>3. OutcomeOf(w, "failed", status, upload[u].version)
      BY <1>1, <1>4, <2>1, <2>2 DEF OutcomeOf
    <2>4. status \in {"validated", "staged", "failed"} /\ status # "staged"
      OBVIOUS
    <2> HIDE DEF status
    <2> QED
      BY <1>1, <2>3, <2>4, OutcomeKeepsCatalog
  <1> QED
    BY <1>2, <1>3, <1>4

LEMMA StepsKeepCatalog ==
  ASSUME Catalog!ContentAssumption, CatalogInv, [Catalog!Next]_(Catalog!vars)
  PROVE  CatalogInv'
  <1>1. CASE UNCHANGED Catalog!vars
    BY <1>1 DEF Catalog!vars, CatalogInv, UploadsTypeOK, OperationTrue, Awaits, TaskTrue,
         Catalog!Mine, Catalog!ActiveIsPublished, Catalog!StagedWasImported,
         Catalog!WaitsForAnOperation
  <1>2. CASE Catalog!AdminStep
    BY <1>2, PageKeepsCatalog, FormKeepsCatalog, QueueKeepsCatalog, DecisionKeepsCatalog DEF
         Catalog!AdminStep
  <1>3. ASSUME NEW w \in CatalogWorkers,
               Catalog!WorkerStep(w) \/ Catalog!Crash(w) \/ \E u \in Uploads : Catalog!Claim(w, u)
        PROVE  CatalogInv'
    BY <1>3, CheckKeepsCatalog, ImportKeepsCatalog, EndKeepsCatalog, CrashKeepsCatalog,
         ClaimKeepsCatalog DEF Catalog!WorkerStep
  <1> QED
    BY <1>1, <1>2, <1>3 DEF Catalog!Next

\* Only the worker that an operation is of changes the outcome, and only the
\* outcome brings back a rejected upload.
LEMMA OutcomesAreTheClaimants ==
  ASSUME Catalog!ContentAssumption, CatalogInv, Catalog!Next, NEW u \in Uploads,
         \/ op[u].status = "processing" /\ op'[u].status \in {"succeeded", "failed"}
         \/ upload[u].status = "rejected" /\ upload'[u].status # "rejected"
  PROVE  /\ op[u].status = "processing" /\ op'[u].status \in {"succeeded", "failed"}
         /\ importer[op[u].by].u = u /\ importer'[op[u].by] = Catalog!Idle
  <1>1. /\ upload \in [Uploads -> UploadRows] /\ op \in [Uploads -> Operations]
        /\ importer \in [CatalogWorkers -> Tasks] /\ OperationTrue(u)
        /\ form \in [Uploads -> {"initial", "ticket", "stored", "complete", "failed"}]
    BY DEF CatalogInv, UploadsTypeOK
  <1>2. ASSUME NEW w \in CatalogWorkers, Catalog!Complete(w) \/ Catalog!Fail(w)
        PROVE  /\ op[u].status = "processing" /\ op'[u].status \in {"succeeded", "failed"}
               /\ importer[op[u].by].u = u /\ importer'[op[u].by] = Catalog!Idle
    <2>1. importer[w].u \in Uploads /\ importer'[w] = Catalog!Idle
      BY <1>1, <1>2 DEF Catalog!Complete, Catalog!Fail, CatalogInv, TaskTrue
    <2>2. Catalog!Mine(w) /\ importer[w].u = u
      BY <1>1, <1>2, <2>1 DEF Catalog!Complete, Catalog!Fail
    <2>3. op'[u].status \in {"succeeded", "failed"}
      BY <1>1, <1>2, <2>2 DEF Catalog!Complete, Catalog!Fail, Operations
    <2> QED
      BY <2>1, <2>2, <2>3 DEF Catalog!Mine
  <1>3. CASE Catalog!AdminStep
    <2>1. ASSUME NEW x \in Uploads, NEW type \in {"validate", "stage"},
                 Catalog!QueueOperation(x, type)
          PROVE  FALSE
      BY <1>1, <2>1 DEF Catalog!QueueOperation, Catalog!Live, Operations
    <2>2. ASSUME UNCHANGED op
          PROVE  ~(op[u].status = "processing" /\ op'[u].status \in {"succeeded", "failed"})
      BY <2>2
    <2>3. ASSUME UNCHANGED upload
          PROVE  ~(upload[u].status = "rejected" /\ upload'[u].status # "rejected")
      BY <2>3
    <2>4. ASSUME NEW x \in Uploads,
                 \/ Catalog!CreateUpload(x) \/ Catalog!StoreObject(x)
                 \/ Catalog!MarkReady(x) \/ Catalog!RejectUpload(x)
          PROVE  UNCHANGED op /\ ~(upload[u].status = "rejected" /\ upload'[u].status # "rejected")
      BY <1>1, <2>4 DEF Catalog!CreateUpload, Catalog!StoreObject, Catalog!MarkReady,
           Catalog!RejectUpload, OperationTrue, Catalog!Form, UploadRows
    <2> QED
      BY <1>3, <2>1, <2>2, <2>3, <2>4 DEF Catalog!AdminStep, Catalog!LoadPage, Catalog!GiveUp,
           Catalog!data, Catalog!Publish, Catalog!Rollback, Catalog!RejectVersion
  <1>4. ASSUME NEW w \in CatalogWorkers,
               \/ Catalog!CheckPackage(w) \/ Catalog!BeginImport(w)
               \/ Catalog!FinalizeImport(w) \/ Catalog!Crash(w)
        PROVE  FALSE
    BY <1>4 DEF Catalog!CheckPackage, Catalog!BeginImport, Catalog!FinalizeImport, Catalog!Crash,
         Catalog!data
  <1>5. ASSUME NEW w \in CatalogWorkers, NEW x \in Uploads, Catalog!Claim(w, x)
        PROVE  FALSE
    BY <1>1, <1>5 DEF Catalog!Claim, Operations
  <1> QED
    BY <1>2, <1>3, <1>4, <1>5 DEF Catalog!Next, Catalog!WorkerStep

LEMMA RejectedVersionsStay ==
  ASSUME CatalogInv, Catalog!Next, NEW v \in CatalogVersions, catalog[v] = "rejected"
  PROVE  catalog'[v] = "rejected"
  <1>1. catalog \in [CatalogVersions -> {"none", "staging", "validated", "published", "rejected"}]
    BY DEF CatalogInv, UploadsTypeOK
  <1>2. CASE Catalog!AdminStep
    BY <1>1, <1>2 DEF Catalog!AdminStep, Catalog!LoadPage, Catalog!GiveUp, Catalog!data,
         Catalog!CreateUpload, Catalog!StoreObject, Catalog!MarkReady, Catalog!RejectUpload,
         Catalog!QueueOperation, Catalog!Publish, Catalog!Rollback, Catalog!RejectVersion
  <1>3. ASSUME NEW w \in CatalogWorkers,
               Catalog!WorkerStep(w) \/ Catalog!Crash(w) \/ \E u \in Uploads : Catalog!Claim(w, u)
        PROVE  catalog'[v] = "rejected"
    BY <1>1, <1>3 DEF Catalog!WorkerStep, Catalog!CheckPackage, Catalog!BeginImport,
         Catalog!FinalizeImport, Catalog!Complete, Catalog!Fail, Catalog!Crash, Catalog!Claim,
         Catalog!data
  <1> QED
    BY <1>2, <1>3 DEF Catalog!Next

\* Whatever administrators decide while an operation runs or after its worker
\* has died, from pages of any age: what worlds use stays published, what reads
\* "staged" was imported, what waits is waited for, a rejected version stays
\* rejected, and only its claimant ends an operation.
THEOREM CatalogStaysSound ==
  ASSUME Catalog!ContentAssumption
  PROVE  Catalog!Spec => CatalogIsSound
  <1> DEFINE Always == Catalog!ActiveIsPublished /\ Catalog!StagedWasImported /\
                         Catalog!WaitsForAnOperation
             Stays == \A v \in CatalogVersions : catalog[v] = "rejected" => catalog'[v] = "rejected"
             Claimants ==
               \A u \in Uploads :
                 op[u].status = "processing" /\ op'[u].status \in {"succeeded", "failed"} =>
                   importer[op[u].by].u = u /\ importer'[op[u].by] = Catalog!Idle
             Undone ==
               \A u \in Uploads : upload[u].status = "rejected" /\ upload'[u].status # "rejected"
                 => op[u] = [type |-> "validate", status |-> "processing", by |-> op[u].by]
                    /\ op'[u].status \in {"succeeded", "failed"}
  <1>1. Catalog!Init => CatalogInv
    BY CatalogInvHoldsAtFirst
  <1>2. CatalogInv /\ [Catalog!Next]_(Catalog!vars) => CatalogInv'
    BY StepsKeepCatalog
  <1>3. CatalogInv => Always
    BY DEF CatalogInv
  <1>4. CatalogInv /\ [Catalog!Next]_(Catalog!vars) => [Stays]_(Catalog!vars)
    BY RejectedVersionsStay
  <1>5. CatalogInv /\ [Catalog!Next]_(Catalog!vars) => [Claimants]_(Catalog!vars)
    BY OutcomesAreTheClaimants
  <1>6. CatalogInv /\ [Catalog!Next]_(Catalog!vars) => [Undone]_(Catalog!vars)
    <2> SUFFICES ASSUME CatalogInv, Catalog!Next, NEW u \in Uploads,
                        upload[u].status = "rejected", upload'[u].status # "rejected"
                 PROVE  /\ op[u] = [type |-> "validate", status |-> "processing", by |-> op[u].by]
                        /\ op'[u].status \in {"succeeded", "failed"}
      OBVIOUS
    <2>1. op[u].status = "processing" /\ op'[u].status \in {"succeeded", "failed"}
      BY OutcomesAreTheClaimants
    <2>2. op[u] \in Operations /\ op[u].type = "validate"
      BY <2>1 DEF CatalogInv, UploadsTypeOK, OperationTrue, Awaits, Catalog!Live
    <2> QED
      BY <2>1, <2>2 DEF Operations
  <1> HIDE DEF Always, Stays, Claimants, Undone
  <1>7. Catalog!Spec => /\ []Always
                        /\ [][Stays]_(Catalog!vars)
                        /\ [][Claimants]_(Catalog!vars)
                        /\ [][Undone]_(Catalog!vars)
    BY <1>1, <1>2, <1>3, <1>4, <1>5, <1>6, PTL DEF Catalog!Spec
  <1> QED
    BY <1>7 DEF CatalogIsSound, Catalog!CatalogIsSound, Catalog!RejectedVersionStays,
         Catalog!OutcomeOfTheClaimant, Catalog!RejectionUndoneByItsOperation, Always, Stays,
         Claimants, Undone

-----------------------------------------------------------------------------
(* The tables: the keys of the schema.  No row needs one of its own table,  *)
(* nor in a circle: a key that is not null falls in rank.                   *)

\* The tables by the length of the longest chain of rows that a row of theirs needs.
Level6 ==
  {"execution_candidate_detection_runs", "execution_plan_dependencies", "execution_plan_events",
   "step_offspring_candidates"}
Level5 ==
  {"breeding_steps", "execution_plans", "saved_breeding_plans"}
Level4 ==
  {"breeding_routes", "item_inventory_base_totals", "item_inventory_five_minute_totals"}
Level3 ==
  {"breeding_plans", "catalog_item_recipe_ingredients", "item_inventory_bases",
   "item_inventory_five_minute_samples", "item_inventory_recipe_capacities",
   "item_inventory_stack_items", "item_inventory_totals"}
Level2 ==
  {"admin_catalog_operations", "agent_command_results", "breeding_jobs",
   "catalog_breeding_recipes", "catalog_item_recipes", "catalog_pal_active_skills",
   "catalog_partner_skills", "game_data_import_batches", "item_inventory_daily_rollups",
   "item_inventory_hourly_rollups", "item_inventory_snapshots", "pal_snapshot_items",
   "player_binding_invitations", "player_bindings"}
Level1 ==
  {"admin_catalog_uploads", "agent_commands", "breeding_recipes", "catalog_active_skills",
   "catalog_items", "catalog_localizations", "catalog_pals", "catalog_passive_skills",
   "game_data_import_runs", "guilds", "inventory_snapshots", "pal_instance_lifecycle",
   "pal_share_preferences", "player_binding_events", "players", "profiles", "steam_identities",
   "sync_devices", "sync_pairing_codes"}
Level0 ==
  {"admin_audit_events", "agent_worker_heartbeats", "breeding_data_sources",
   "breeding_data_versions", "deployment_records", "game_data_sources", "game_data_versions",
   "runtime_settings_versions", "scoring_profiles", "worlds"}

AllTables ==
  {"users"} \cup Level0 \cup Level1 \cup Level2 \cup Level3 \cup Level4 \cup Level5
    \cup Level6

\* Deleted tables that no key refers to, and tables that the model gives no rows.
Leaves ==
  {"pal_snapshot_items", "item_inventory_recipe_capacities", "item_inventory_base_totals",
   "item_inventory_totals", "item_inventory_stack_items", "item_inventory_five_minute_totals",
   "item_inventory_hourly_rollups", "item_inventory_daily_rollups", "saved_breeding_plans"}

\* Tables of the execution of plans, which the transactions leave empty.
Execution ==
  {"breeding_steps", "execution_plans", "execution_candidate_detection_runs",
   "step_offspring_candidates"}

\* Which keys refer to the tables that are deleted from.
Referring(t, key) ==
  /\ key.to \notin Leaves
  /\ key.to = "item_inventory_bases" =>
       t \in {"item_inventory_base_totals", "item_inventory_stack_items"}
  /\ key.to = "inventory_snapshots" =>
       t \in {"pal_snapshot_items", "item_inventory_snapshots", "breeding_jobs", "worlds"}
              \cup Execution
  /\ key.to = "inventory_snapshots" /\ t = "worlds" => key.by = Tables!LatestSnapshot
  /\ key.to = "item_inventory_five_minute_samples" =>
       t = "item_inventory_five_minute_totals" /\ key.by = <<"world_id", "guild_id", "bucket_at">>

\* A key refers to a table of the schema, and few to those that are deleted from.
InOrder(t, key) ==
  /\ Referring(t, key)
  /\ key.to \in AllTables

\* The constructors of a key.
LEMMA KeysAre ==
  /\ \A by, to : LET key == Tables!Needs(by, to)
                 IN key.by = by /\ key.to = to /\ key.null = FALSE /\ ~key.null
  /\ \A by, to : LET key == Tables!May(by, to)
                 IN key.by = by /\ key.to = to /\ key.null = TRUE /\ key.null
BY DEF Tables!Needs, Tables!May

\* The tables of the schema and their keys, by their names.
LEMMA KeysOf ==
  /\ Tables!Keys("admin_audit_events") = Tables!admin_audit_events
  /\ Tables!Keys("admin_catalog_operations") = Tables!admin_catalog_operations
  /\ Tables!Keys("admin_catalog_uploads") = Tables!admin_catalog_uploads
  /\ Tables!Keys("agent_command_results") = Tables!agent_command_results
  /\ Tables!Keys("agent_commands") = Tables!agent_commands
  /\ Tables!Keys("agent_worker_heartbeats") = Tables!agent_worker_heartbeats
  /\ Tables!Keys("breeding_data_sources") = Tables!breeding_data_sources
  /\ Tables!Keys("breeding_data_versions") = Tables!breeding_data_versions
  /\ Tables!Keys("breeding_jobs") = Tables!breeding_jobs
  /\ Tables!Keys("breeding_plans") = Tables!breeding_plans
  /\ Tables!Keys("breeding_recipes") = Tables!breeding_recipes
  /\ Tables!Keys("breeding_routes") = Tables!breeding_routes
  /\ Tables!Keys("breeding_steps") = Tables!breeding_steps
  /\ Tables!Keys("catalog_active_skills") = Tables!catalog_active_skills
  /\ Tables!Keys("catalog_breeding_recipes") = Tables!catalog_breeding_recipes
  /\ Tables!Keys("catalog_item_recipe_ingredients") = Tables!catalog_item_recipe_ingredients
  /\ Tables!Keys("catalog_item_recipes") = Tables!catalog_item_recipes
  /\ Tables!Keys("catalog_items") = Tables!catalog_items
  /\ Tables!Keys("catalog_localizations") = Tables!catalog_localizations
  /\ Tables!Keys("catalog_pal_active_skills") = Tables!catalog_pal_active_skills
  /\ Tables!Keys("catalog_pals") = Tables!catalog_pals
  /\ Tables!Keys("catalog_partner_skills") = Tables!catalog_partner_skills
  /\ Tables!Keys("catalog_passive_skills") = Tables!catalog_passive_skills
  /\ Tables!Keys("deployment_records") = Tables!deployment_records
  /\ Tables!Keys("execution_candidate_detection_runs") = Tables!execution_candidate_detection_runs
  /\ Tables!Keys("execution_plan_dependencies") = Tables!execution_plan_dependencies
  /\ Tables!Keys("execution_plan_events") = Tables!execution_plan_events
  /\ Tables!Keys("execution_plans") = Tables!execution_plans
  /\ Tables!Keys("game_data_import_batches") = Tables!game_data_import_batches
  /\ Tables!Keys("game_data_import_runs") = Tables!game_data_import_runs
  /\ Tables!Keys("game_data_sources") = Tables!game_data_sources
  /\ Tables!Keys("game_data_versions") = Tables!game_data_versions
  /\ Tables!Keys("guilds") = Tables!guilds
  /\ Tables!Keys("inventory_snapshots") = Tables!inventory_snapshots
  /\ Tables!Keys("item_inventory_base_totals") = Tables!item_inventory_base_totals
  /\ Tables!Keys("item_inventory_bases") = Tables!item_inventory_bases
  /\ Tables!Keys("item_inventory_daily_rollups") = Tables!item_inventory_daily_rollups
  /\ Tables!Keys("item_inventory_five_minute_samples") = Tables!item_inventory_five_minute_samples
  /\ Tables!Keys("item_inventory_five_minute_totals") = Tables!item_inventory_five_minute_totals
  /\ Tables!Keys("item_inventory_hourly_rollups") = Tables!item_inventory_hourly_rollups
  /\ Tables!Keys("item_inventory_recipe_capacities") = Tables!item_inventory_recipe_capacities
  /\ Tables!Keys("item_inventory_snapshots") = Tables!item_inventory_snapshots
  /\ Tables!Keys("item_inventory_stack_items") = Tables!item_inventory_stack_items
  /\ Tables!Keys("item_inventory_totals") = Tables!item_inventory_totals
  /\ Tables!Keys("pal_instance_lifecycle") = Tables!pal_instance_lifecycle
  /\ Tables!Keys("pal_share_preferences") = Tables!pal_share_preferences
  /\ Tables!Keys("pal_snapshot_items") = Tables!pal_snapshot_items
  /\ Tables!Keys("player_binding_events") = Tables!player_binding_events
  /\ Tables!Keys("player_binding_invitations") = Tables!player_binding_invitations
  /\ Tables!Keys("player_bindings") = Tables!player_bindings
  /\ Tables!Keys("players") = Tables!players
  /\ Tables!Keys("profiles") = Tables!profiles
  /\ Tables!Keys("runtime_settings_versions") = Tables!runtime_settings_versions
  /\ Tables!Keys("saved_breeding_plans") = Tables!saved_breeding_plans
  /\ Tables!Keys("scoring_profiles") = Tables!scoring_profiles
  /\ Tables!Keys("steam_identities") = Tables!steam_identities
  /\ Tables!Keys("step_offspring_candidates") = Tables!step_offspring_candidates
  /\ Tables!Keys("sync_devices") = Tables!sync_devices
  /\ Tables!Keys("sync_pairing_codes") = Tables!sync_pairing_codes
  /\ Tables!Keys("worlds") = Tables!worlds
BY SMTT(60) DEF Tables!Keys, Tables!Tables

\* Every table has a rank; users belong to the auth schema, which has no keys here.
LEMMA TablesAre == AllTables = Tables!Names \cup {"users"} /\ "users" \notin Tables!Names
BY DEF AllTables, Tables!Names, Tables!Tables, Level0, Level1, Level2, Level3, Level4, Level5,
     Level6

\* The schema, table by table: a key of it falls in rank, and refers to a table
\* that rows are deleted from only where the deletions expect it.
LEMMA KeysInOrder ==
  ASSUME NEW t \in Tables!Names, NEW key \in Tables!Keys(t)
  PROVE  InOrder(t, key)
  <1>1. ASSUME t \in Level0
        PROVE  InOrder(t, key)
    BY <1>1, KeysAre, KeysOf
    DEF Tables!LatestSnapshot, AllTables, InOrder, Referring, Leaves, Execution, Level0,
           Level1, Level2, Level3, Level4, Level5, Level6, Tables!admin_audit_events,
           Tables!agent_worker_heartbeats, Tables!breeding_data_sources,
           Tables!breeding_data_versions, Tables!deployment_records, Tables!game_data_sources,
           Tables!game_data_versions, Tables!runtime_settings_versions, Tables!scoring_profiles,
           Tables!worlds
  <1>2. ASSUME t \in Level1
        PROVE  InOrder(t, key)
    BY <1>2, KeysAre, KeysOf
    DEF Tables!LatestSnapshot, AllTables, InOrder, Referring, Leaves, Execution, Level0,
           Level1, Level2, Level3, Level4, Level5, Level6, Tables!admin_catalog_uploads,
           Tables!agent_commands, Tables!breeding_recipes, Tables!catalog_active_skills,
           Tables!catalog_items, Tables!catalog_localizations, Tables!catalog_pals,
           Tables!catalog_passive_skills, Tables!game_data_import_runs, Tables!guilds,
           Tables!inventory_snapshots, Tables!pal_instance_lifecycle,
           Tables!pal_share_preferences, Tables!player_binding_events, Tables!players,
           Tables!profiles, Tables!steam_identities, Tables!sync_devices,
           Tables!sync_pairing_codes
  <1>3. ASSUME t \in Level2
        PROVE  InOrder(t, key)
    BY <1>3, KeysAre, KeysOf
    DEF Tables!LatestSnapshot, AllTables, InOrder, Referring, Leaves, Execution, Level0,
           Level1, Level2, Level3, Level4, Level5, Level6, Tables!admin_catalog_operations,
           Tables!agent_command_results, Tables!breeding_jobs, Tables!catalog_breeding_recipes,
           Tables!catalog_item_recipes, Tables!catalog_pal_active_skills,
           Tables!catalog_partner_skills, Tables!game_data_import_batches,
           Tables!item_inventory_daily_rollups, Tables!item_inventory_hourly_rollups,
           Tables!item_inventory_snapshots, Tables!pal_snapshot_items,
           Tables!player_binding_invitations, Tables!player_bindings
  <1>4. ASSUME t \in Level3 \cup Level4 \cup Level5 \cup Level6
        PROVE  InOrder(t, key)
    BY <1>4, KeysAre, KeysOf
    DEF Tables!LatestSnapshot, AllTables, InOrder, Referring, Leaves, Execution, Level0,
           Level1, Level2, Level3, Level4, Level5, Level6, Tables!breeding_plans,
           Tables!catalog_item_recipe_ingredients, Tables!item_inventory_bases,
           Tables!item_inventory_five_minute_samples, Tables!item_inventory_recipe_capacities,
           Tables!item_inventory_stack_items, Tables!item_inventory_totals,
           Tables!breeding_routes, Tables!item_inventory_base_totals,
           Tables!item_inventory_five_minute_totals, Tables!breeding_steps,
           Tables!execution_plans, Tables!saved_breeding_plans,
           Tables!execution_candidate_detection_runs, Tables!execution_plan_dependencies,
           Tables!execution_plan_events, Tables!step_offspring_candidates
  <1>5. t \in Level0 \cup Level1 \cup Level2 \cup Level3 \cup Level4 \cup Level5 \cup Level6
    BY TablesAre DEF AllTables
  <1> QED
    BY <1>1, <1>2, <1>3, <1>4, <1>5

\* The tables of the schema are finitely many: Behind goes on for so many steps.
LEMMA NamesAreFinite ==
  /\ Tables!IsFiniteSet(Tables!Names)
  /\ Tables!Cardinality(Tables!Names) \in Nat
  <1> DEFINE of ==
      <<"admin_audit_events", "admin_catalog_operations", "admin_catalog_uploads",
        "agent_command_results", "agent_commands", "agent_worker_heartbeats",
        "breeding_data_sources", "breeding_data_versions", "breeding_jobs", "breeding_plans",
        "breeding_recipes", "breeding_routes", "breeding_steps", "catalog_active_skills",
        "catalog_breeding_recipes", "catalog_item_recipe_ingredients", "catalog_item_recipes",
        "catalog_items", "catalog_localizations", "catalog_pal_active_skills", "catalog_pals",
        "catalog_partner_skills", "catalog_passive_skills", "deployment_records",
        "execution_candidate_detection_runs", "execution_plan_dependencies",
        "execution_plan_events", "execution_plans", "game_data_import_batches",
        "game_data_import_runs", "game_data_sources", "game_data_versions", "guilds",
        "inventory_snapshots", "item_inventory_base_totals", "item_inventory_bases",
        "item_inventory_daily_rollups", "item_inventory_five_minute_samples",
        "item_inventory_five_minute_totals", "item_inventory_hourly_rollups",
        "item_inventory_recipe_capacities", "item_inventory_snapshots",
        "item_inventory_stack_items", "item_inventory_totals", "pal_instance_lifecycle",
        "pal_share_preferences", "pal_snapshot_items", "player_binding_events",
        "player_binding_invitations", "player_bindings", "players", "profiles",
        "runtime_settings_versions", "saved_breeding_plans", "scoring_profiles",
        "steam_identities", "step_offspring_candidates", "sync_devices", "sync_pairing_codes",
        "worlds">>
  <1>1. of \in [1..60 -> Tables!Names]
    BY DEF Tables!Names, Tables!Tables
  <1>2. \A t \in Tables!Names : \E i \in 1..60 : of[i] = t
    BY DEF Tables!Names, Tables!Tables
  <1> HIDE DEF of
  <1>3. of \in Surjection(1..60, Tables!Names)
    BY <1>1, <1>2 DEF Surjection
  <1>4. \A n \in Nat : IsFiniteSet(1..n)
    BY FS_Interval
  <1>5. IsFiniteSet(1..60)
    BY <1>4
  <1>6. IsFiniteSet(Tables!Names) /\ Cardinality(Tables!Names) \in Nat
    BY <1>3, <1>5, FS_Surjection, FS_CardinalityType
  <1> QED
    BY <1>6 DEF IsFiniteSet, Tables!IsFiniteSet, Cardinality, Tables!Cardinality

\* What holds at first and goes on from one number to the next holds up to the last.
\* (The induction theorems of the library take an operator; this is their use for a set.)
LEMMA CountUp ==
  ASSUME NEW N \in Nat, NEW M, 0 \in M,
         \A n \in 0..N : n \in M /\ n < N => n + 1 \in M
  PROVE  \A n \in 0..N : n \in M
  <1> DEFINE R == OpToRel(<, Nat)
             Missing == {n \in 0..N : n \notin M}
  <1> SUFFICES ASSUME Missing # {}
               PROVE  FALSE
    OBVIOUS
  <1>1. IsWellFoundedOn(R, Nat)
    BY NatLessThanWellFounded
  <1>2. \A x, y \in Nat : x < y => <<x, y>> \in R
    BY DEF OpToRel
  <1>3. Missing \subseteq Nat
    OBVIOUS
  <1> HIDE DEF R
  <1>4. PICK n \in Missing : \A y \in Missing : ~(<<y, n>> \in R)
    <2> HIDE DEF Missing
    <2> QED
      BY <1>1, <1>3, WFMin
  <1>5. n # 0 /\ n - 1 \in 0..N /\ n - 1 < n /\ n - 1 < N /\ n \in 0..N /\ n \notin M
    OBVIOUS
  <1>6. n - 1 \notin Missing
    <2>1. n - 1 \in Nat /\ n \in Nat
      BY <1>5
    <2>2. <<n - 1, n>> \in R
      BY <1>2, <1>5, <2>1
    <2> HIDE DEF Missing
    <2> QED
      BY <1>4, <2>2
  <1> QED
    BY <1>5, <1>6

\* The recursive function in Behind: what it starts from and how it goes on.
LEMMA BehindGrows ==
  ASSUME NEW tables
  PROVE  LET C == Tables!Cardinality(Tables!Names)
         IN \E f : /\ Tables!Behind(tables) = f[C] /\ f[0] = tables
                   /\ \A n \in 1..C : f[n] = f[n - 1]
                        \cup UNION {Tables!Required(t) : t \in f[n - 1]}
  <1> DEFINE C == Tables!Cardinality(Tables!Names)
             More(S) == S \cup UNION {Tables!Required(t) : t \in S}
             Upto(f, n) == f = [m \in 0..n |-> IF m = 0 THEN tables ELSE More(f[m - 1])]
             M == {n \in Nat : \E f : Upto(f, n)}
  <1>1. C \in Nat
    BY NamesAreFinite
  <1>2. 0 \in M
    <2> DEFINE f == [m \in 0..0 |-> tables]
    <2>1. f = [m \in 0..0 |-> IF m = 0 THEN tables ELSE More(f[m - 1])]
      OBVIOUS
    <2> QED
      BY <2>1
  <1>3. ASSUME NEW n \in 0..C, n \in M
        PROVE  n + 1 \in M
    <2>1. PICK f : Upto(f, n)
      BY <1>3
    <2> DEFINE g == [m \in 0..(n + 1) |-> IF m = n + 1 THEN More(f[n]) ELSE f[m]]
    <2> HIDE DEF More
    <2>2. \A m \in 0..n : f[m] = IF m = 0 THEN tables ELSE More(f[m - 1])
      BY <2>1
    <2>3. g = [m \in 0..(n + 1) |-> IF m = 0 THEN tables ELSE More(g[m - 1])]
      <3>1. ASSUME NEW m \in 0..(n + 1)
            PROVE  g[m] = IF m = 0 THEN tables ELSE More(g[m - 1])
        BY <2>2
      <3> QED
        BY <3>1
    <2> HIDE DEF g
    <2>4. n + 1 \in Nat /\ Upto(g, n + 1)
      BY <2>3
    <2> QED
      BY <2>4
  <1>4. C \in M
    <2> HIDE DEF C, M
    <2>1. \A n \in 0..C : n \in M
      BY <1>1, <1>2, <1>3, CountUp
    <2> QED
      BY <1>1, <2>1
  <1> DEFINE upto == CHOOSE f : Upto(f, C)
  <1>5. Upto(upto, C)
    BY <1>4
  <1>6. Tables!Behind(tables) = upto[C]
    BY DEF Tables!Behind
  <1>7. upto[0] = tables /\ \A n \in 1..C : upto[n] = More(upto[n - 1])
    <2> HIDE DEF upto, C, More
    <2> QED
      BY <1>1, <1>5
  <1> QED
    BY <1>6, <1>7

\* A set of tables with all that they need holds all that is behind them.
LEMMA BehindIsLeast ==
  ASSUME NEW tables, NEW K, tables \subseteq K, \A t \in K : Tables!Required(t) \subseteq K
  PROVE  Tables!Behind(tables) \subseteq K
  <1> DEFINE C == Tables!Cardinality(Tables!Names)
  <1>1. C \in Nat
    BY NamesAreFinite
  <1>2. PICK f : /\ Tables!Behind(tables) = f[C] /\ f[0] = tables
                 /\ \A n \in 1..C : f[n] = f[n - 1]
                      \cup UNION {Tables!Required(t) : t \in f[n - 1]}
    BY BehindGrows
  <1> DEFINE M == {n \in Nat : f[n] \subseteq K}
  <1> HIDE DEF C
  <1>3. 0 \in M
    BY <1>2
  <1>4. ASSUME NEW n \in 0..C, n \in M, n < C
        PROVE  n + 1 \in M
    <2>1. n + 1 \in 1..C /\ (n + 1) - 1 = n
      BY <1>1, <1>4
    <2>2. f[n + 1] = f[n] \cup UNION {Tables!Required(t) : t \in f[n]}
      BY <1>2, <2>1
    <2> QED
      BY <1>4, <2>2
  <1> HIDE DEF M
  <1>5. \A n \in 0..C : n \in M
    BY <1>1, <1>3, <1>4, CountUp
  <1> QED
    BY <1>1, <1>2, <1>5 DEF M

-----------------------------------------------------------------------------
(* What one statement does to a database of which no link hangs: it inserts *)
(* rows or takes them, and refuses nothing.                                 *)

\* A link is one of the keys of its table, and of one snapshot when both of its
\* rows are of a snapshot.
Keyed(l) ==
  /\ \E key \in Tables!Keys(l.from[1]) : key.by = l.by /\ key.to = l.to[1]
  /\ l.from[1] \in Tables!OfSnapshot /\ l.to[1] \in Tables!OfSnapshot => l.from[2] = l.to[2]

\* Nothing was refused, and no link hangs.
Whole(d) ==
  /\ d.refused = {}
  /\ \A r \in d.rows :
       r[1] \in AllTables \ Execution /\ r = <<r[1], r[2]>> /\ (r[1] = "worlds" => r[2] = 1)
  /\ \A l \in d.links : l.from \in d.rows /\ l.to \in d.rows /\ Keyed(l)

\* The number of a row is that of its snapshot, of its version, or one.
LEMMA NumberIs ==
  ASSUME NEW k, NEW v, NEW t \in AllTables
  PROVE  Tables!Number(k, v)[t] =
           IF t \in Tables!OfSnapshot THEN k ELSE IF t \in Tables!OfVersion THEN v ELSE 1
BY TablesAre DEF Tables!Number

\* The parts of a database.
LEMMA DatabaseIs ==
  ASSUME NEW rows, NEW links, NEW refused
  PROVE  /\ Tables!Database(rows, links, refused).rows = rows
         /\ Tables!Database(rows, links, refused).links = links
         /\ Tables!Database(rows, links, refused).refused = refused
BY DEF Tables!Database

\* Adds to a database; what it adds starts at rows that were not there.
Adds(d, e, rows) ==
  /\ Whole(e) /\ e.rows = d.rows \cup rows
  /\ \A l \in e.links : l \in d.links \/ l.from \notin d.rows

\* An INSERT whose required rows are there adds its row and its links.
LEMMA InsertAdds ==
  ASSUME NEW d, Whole(d), NEW k, NEW v, NEW t \in Tables!Names \ Execution,
         \A s \in Tables!Required(t) : <<s, Tables!Number(k, v)[s]>> \in d.rows
  PROVE  Adds(d, Tables!Insert(d, t, Tables!Number(k, v)), {<<t, Tables!Number(k, v)[t]>>})
  <1> DEFINE number == Tables!Number(k, v)
             row == <<t, number[t]>>
             target(key) == <<key.to, number[key.to]>>
             found == {key \in Tables!Keys(t) : target(key) \in d.rows}
             links == {[from |-> row, by |-> key.by, to |-> target(key)] : key \in found}
             e == Tables!Insert(d, t, number)
  <1>1. CASE row \in d.rows
    <2>1. e = d
      BY <1>1 DEF Tables!Insert
    <2> QED
      BY <1>1, <2>1 DEF Adds
  <1>2. CASE row \notin d.rows
    <2>1. ~\E key \in Tables!Keys(t) \ found : ~key.null
      BY DEF Tables!Required
    <2>2. e = Tables!Database(d.rows \cup {row}, d.links \cup links, {})
      BY <1>2, <2>1 DEF Tables!Insert, Whole
    <2>3. e.rows = d.rows \cup {row} /\ e.links = d.links \cup links /\ e.refused = {}
      <3> HIDE DEF row, links, e
      <3> QED
        BY <2>2, DatabaseIs
    <2>4. ASSUME NEW key \in found, NEW l, l = [from |-> row, by |-> key.by, to |-> target(key)]
          PROVE  l.from = row /\ l.to \in d.rows /\ Keyed(l)
      <3>1. /\ l.from[1] = t /\ l.from[2] = number[t] /\ l.by = key.by /\ l.from = row
            /\ l.to = target(key) /\ l.to[1] = key.to /\ l.to[2] = number[key.to]
        BY <2>4
      <3>2. t \in AllTables /\ key.to \in AllTables
        BY KeysInOrder, TablesAre DEF InOrder
      <3>3. t \in Tables!OfSnapshot /\ key.to \in Tables!OfSnapshot => number[t] = number[key.to]
        BY <3>2, NumberIs
      <3> HIDE DEF row, target, number
      <3>4. key \in Tables!Keys(t) /\ target(key) \in d.rows
        OBVIOUS
      <3> QED
        BY <3>1, <3>3, <3>4 DEF Keyed
    <2>5. \A l \in links : l.from = row /\ l.to \in d.rows /\ Keyed(l)
      BY <2>4
    <2>6. row[1] = t /\ row = <<row[1], row[2]>> /\ t \in AllTables \ Execution
      BY TablesAre
    <2>9. row[1] = "worlds" => row[2] = 1
      BY <2>6, NumberIs DEF Tables!OfSnapshot, Tables!OfVersion
    <2> HIDE DEF row, links, e
    <2>7. Whole(e)
      BY <2>3, <2>5, <2>6, <2>9 DEF Whole
    <2>8. \A l \in e.links : l \in d.links \/ l.from \notin d.rows
      BY <1>2, <2>3, <2>5
    <2> QED
      BY <2>3, <2>7, <2>8 DEF Adds, row, e
  <1> QED
    BY <1>1, <1>2

\* The tables of a list, which may be inserted in that order when those of another
\* set have their rows.
Members(tables) == {tables[i] : i \in 1..Len(tables)}

ParentsFirst(tables, there) ==
  /\ tables \in Seq(Tables!Names \ Execution)
  /\ \A i \in 1..Len(tables) :
       Tables!Required(tables[i]) \subseteq there \cup {tables[j] : j \in 1..(i - 1)}

\* The recursive function in InsertAll: what it starts from and how it goes on.
LEMMA InsertAllIs ==
  ASSUME NEW d, NEW tables, Len(tables) \in Nat, NEW number
  PROVE  \E f : /\ Tables!InsertAll(d, tables, number) = f[Len(tables)]
                /\ f[0] = d
                /\ \A n \in 1..Len(tables) : f[n] = Tables!Insert(f[n - 1], tables[n], number)
  <1> DEFINE C == Len(tables)
             Upto(f, n) ==
               f = [m \in 0..n |-> IF m = 0 THEN d ELSE Tables!Insert(f[m - 1], tables[m],
                 number)]
             M == {n \in Nat : \E f : Upto(f, n)}
  <1>1. C \in Nat
    OBVIOUS
  <1>2. 0 \in M
    <2> DEFINE f == [m \in 0..0 |-> d]
    <2>1. f = [m \in 0..0 |-> IF m = 0 THEN d ELSE Tables!Insert(f[m - 1], tables[m], number)]
      OBVIOUS
    <2> QED
      BY <2>1
  <1>3. ASSUME NEW n \in 0..C, n \in M
        PROVE  n + 1 \in M
    <2>1. PICK f : Upto(f, n)
      BY <1>3
    <2> DEFINE g == [m \in 0..(n + 1) |->
                       IF m = n + 1 THEN Tables!Insert(f[n], tables[m], number) ELSE f[m]]
    <2>2. \A m \in 0..n :
            f[m] = IF m = 0 THEN d ELSE Tables!Insert(f[m - 1], tables[m], number)
      BY <2>1
    <2>3. g = [m \in 0..(n + 1) |->
                 IF m = 0 THEN d ELSE Tables!Insert(g[m - 1], tables[m], number)]
      <3>1. ASSUME NEW m \in 0..(n + 1)
            PROVE  g[m] = IF m = 0 THEN d ELSE Tables!Insert(g[m - 1], tables[m], number)
        BY <2>2
      <3> QED
        BY <3>1
    <2> HIDE DEF g
    <2>4. n + 1 \in Nat /\ Upto(g, n + 1)
      BY <2>3
    <2> QED
      BY <2>4
  <1>4. C \in M
    <2> HIDE DEF C, M
    <2>1. \A n \in 0..C : n \in M
      BY <1>1, <1>2, <1>3, CountUp
    <2> QED
      BY <1>1, <2>1
  <1> DEFINE after == CHOOSE f : Upto(f, C)
  <1>5. Upto(after, C)
    BY <1>4
  <1>6. Tables!InsertAll(d, tables, number) = after[C]
    BY DEF Tables!InsertAll
  <1>7. after[0] = d /\ \A n \in 1..C : after[n] = Tables!Insert(after[n - 1], tables[n], number)
    <2> HIDE DEF after, C
    <2> QED
      BY <1>1, <1>5
  <1> QED
    BY <1>6, <1>7

\* Rows inserted parents first are all added: no statement of the list is refused.
LEMMA InsertAllAdds ==
  ASSUME NEW d, Whole(d), NEW k, NEW v, NEW tables, NEW there, ParentsFirst(tables, there),
         \A s \in there : <<s, Tables!Number(k, v)[s]>> \in d.rows
  PROVE  Adds(d, Tables!InsertAll(d, tables, Tables!Number(k, v)),
              {<<t, Tables!Number(k, v)[t]>> : t \in Members(tables)})
  <1> DEFINE number == Tables!Number(k, v)
             C == Len(tables)
             New(n) == {<<tables[i], number[tables[i]]>> : i \in 1..n}
  <1>1. C \in Nat /\ \A i \in 1..C : tables[i] \in Tables!Names \ Execution
    BY DEF ParentsFirst
  <1> HIDE DEF number
  <1>2. PICK f : /\ Tables!InsertAll(d, tables, number) = f[C]
                 /\ f[0] = d
                 /\ \A n \in 1..C : f[n] = Tables!Insert(f[n - 1], tables[n], number)
    <2>1. Len(tables) \in Nat
      BY <1>1
    <2>2. \E f : /\ Tables!InsertAll(d, tables, number) = f[Len(tables)]
                 /\ f[0] = d
                 /\ \A n \in 1..Len(tables) : f[n] = Tables!Insert(f[n - 1], tables[n], number)
      BY <2>1, InsertAllIs
    <2> QED
      BY <2>2
  <1> DEFINE M == {n \in Nat : Adds(d, f[n], New(n))}
  <1> HIDE DEF C
  <1>3. 0 \in M
    <2>1. New(0) = {} /\ f[0] = d
      BY <1>2
    <2> HIDE DEF New
    <2>2. Adds(d, f[0], New(0))
      BY <2>1 DEF Adds
    <2> QED
      BY <2>2
  <1>4. ASSUME NEW n \in 0..C, n \in M, n < C
        PROVE  n + 1 \in M
    <2>1. n + 1 \in 1..C /\ (n + 1) - 1 = n /\ n \in Nat /\ n + 1 \in Nat
      BY <1>1, <1>4
    <2> DEFINE t == tables[n + 1]
               row == <<t, number[t]>>
    <2>2. f[n + 1] = Tables!Insert(f[n], t, number)
      BY <1>2, <2>1
    <2>3. Adds(d, f[n], New(n))
      BY <1>4
    <2>4. ASSUME NEW s \in Tables!Required(t)
          PROVE  <<s, number[s]>> \in f[n].rows
      <3>1. s \in there \/ \E j \in 1..n : s = tables[j]
        BY <2>1 DEF ParentsFirst, C
      <3> QED
        BY <2>3, <3>1 DEF Adds, number
    <2>5. Adds(f[n], f[n + 1], {row})
      <3>1. t \in Tables!Names \ Execution
        BY <1>1, <2>1
      <3> HIDE DEF t
      <3> QED
        BY <2>2, <2>3, <2>4, <3>1, InsertAdds DEF Adds, number
    <2>6. New(n + 1) = New(n) \cup {row}
      BY <2>1
    <2> HIDE DEF New, row
    <2>7. Adds(d, f[n + 1], New(n + 1))
      BY <2>3, <2>5, <2>6 DEF Adds
    <2> QED
      BY <2>1, <2>7
  <1>5. C \in M
    <2> HIDE DEF M
    <2>1. \A n \in 0..C : n \in M
      BY <1>1, <1>3, <1>4, CountUp
    <2> QED
      BY <1>1, <2>1
  <1>6. New(C) = {<<t, number[t]>> : t \in Members(tables)}
    BY DEF Members, C
  <1> QED
    BY <1>2, <1>5, <1>6 DEF number

\* Takes rows from a database, and with them only rows that refer to them.
Drops(d, e, rows) ==
  /\ Whole(e) /\ e.rows \subseteq d.rows \ rows /\ e.links \subseteq d.links
  /\ \A r \in d.rows \ e.rows : r \in rows \/ \E l \in d.links : l.from = r /\ l.to \in rows

\* A link that does not stop the deletion of the row it refers to.
Lets(d, l) == Tables!KeyOf(l) \in Tables!Cascading /\ \A m \in d.links : m.to # l.from

\* A DELETE that no other row restricts takes the rows and those that refer to them.
LEMMA DeleteDrops ==
  ASSUME NEW d, Whole(d), NEW t, NEW numbers,
         \A l \in d.links : l.to \in {<<t, n>> : n \in numbers} => Lets(d, l)
  PROVE  Drops(d, Tables!Delete(d, t, numbers), {<<t, n>> : n \in numbers})
  <1> DEFINE rows == {<<t, n>> : n \in numbers}
             doomed == rows \cap d.rows
             gone == doomed \cup {l.from : l \in {m \in d.links : m.to \in doomed}}
             e == Tables!Delete(d, t, numbers)
  <1>1. \A l \in d.links : l.to \in doomed => Lets(d, l)
    OBVIOUS
  <1> HIDE DEF doomed
  <1>2. Tables!Nearer(d, doomed) = gone
    BY <1>1 DEF Tables!Nearer, Lets
  <1>3. \A l \in d.links : l.to \in gone => l.from \in gone
    BY <1>1 DEF Lets
  <1>4. Tables!Nearer(d, gone) = gone
    BY <1>3 DEF Tables!Nearer
  <1> HIDE DEF gone
  <1>5. Tables!Taken(d, doomed) = gone
    BY <1>2, <1>4 DEF Tables!Taken
  <1> DEFINE links == {l \in d.links : l.from \notin gone /\ l.to \notin gone}
  <1>6. {l \in d.links : /\ l.to \in gone /\ l.from \notin gone
                       /\ Tables!KeyOf(l) \notin Tables!SetNull} = {}
    BY <1>3
  <1>7. e = Tables!Database(d.rows \ gone, links, {})
    BY <1>5, <1>6 DEF Tables!Delete, Whole, doomed
  <1> HIDE DEF e, links
  <1>8. e.rows = d.rows \ gone /\ e.links = links /\ e.refused = {}
    BY <1>7, DatabaseIs
  <1>9. Whole(e)
    BY <1>8 DEF Whole, links
  <1>10. rows \cap d.rows \subseteq gone
    BY DEF gone, doomed
  <1>11. \A r \in gone : r \in rows \/ \E l \in d.links : l.from = r /\ l.to \in rows
    BY DEF gone, doomed
  <1> HIDE DEF rows
  <1>12. Drops(d, e, rows)
    BY <1>8, <1>9, <1>10, <1>11 DEF Drops, links
  <1> QED
    BY <1>12 DEF e, rows

\* The recursive function in DeleteAll: what it starts from and how it goes on.
LEMMA DeleteAllIs ==
  ASSUME NEW d, NEW tables, Len(tables) \in Nat, NEW numbers
  PROVE  \E f : /\ Tables!DeleteAll(d, tables, numbers) = f[Len(tables)]
                /\ f[0] = d
                /\ \A n \in 1..Len(tables) : f[n] = Tables!Delete(f[n - 1], tables[n], numbers)
  <1> DEFINE C == Len(tables)
             Upto(f, n) ==
               f = [m \in 0..n |-> IF m = 0 THEN d ELSE Tables!Delete(f[m - 1], tables[m],
                 numbers)]
             M == {n \in Nat : \E f : Upto(f, n)}
  <1>1. C \in Nat
    OBVIOUS
  <1>2. 0 \in M
    <2> DEFINE f == [m \in 0..0 |-> d]
    <2>1. f = [m \in 0..0 |-> IF m = 0 THEN d ELSE Tables!Delete(f[m - 1], tables[m], numbers)]
      OBVIOUS
    <2> QED
      BY <2>1
  <1>3. ASSUME NEW n \in 0..C, n \in M
        PROVE  n + 1 \in M
    <2>1. PICK f : Upto(f, n)
      BY <1>3
    <2> DEFINE g == [m \in 0..(n + 1) |->
                       IF m = n + 1 THEN Tables!Delete(f[n], tables[m], numbers) ELSE f[m]]
    <2>2. \A m \in 0..n :
            f[m] = IF m = 0 THEN d ELSE Tables!Delete(f[m - 1], tables[m], numbers)
      BY <2>1
    <2>3. g = [m \in 0..(n + 1) |->
                 IF m = 0 THEN d ELSE Tables!Delete(g[m - 1], tables[m], numbers)]
      <3>1. ASSUME NEW m \in 0..(n + 1)
            PROVE  g[m] = IF m = 0 THEN d ELSE Tables!Delete(g[m - 1], tables[m], numbers)
        BY <2>2
      <3> QED
        BY <3>1
    <2> HIDE DEF g
    <2>4. n + 1 \in Nat /\ Upto(g, n + 1)
      BY <2>3
    <2> QED
      BY <2>4
  <1>4. C \in M
    <2> HIDE DEF C, M
    <2>1. \A n \in 0..C : n \in M
      BY <1>1, <1>2, <1>3, CountUp
    <2> QED
      BY <1>1, <2>1
  <1> DEFINE after == CHOOSE f : Upto(f, C)
  <1>5. Upto(after, C)
    BY <1>4
  <1>6. Tables!DeleteAll(d, tables, numbers) = after[C]
    BY DEF Tables!DeleteAll
  <1>7. after[0] = d /\ \A n \in 1..C : after[n] = Tables!Delete(after[n - 1], tables[n], numbers)
    <2> HIDE DEF after, C
    <2> QED
      BY <1>1, <1>5
  <1> QED
    BY <1>6, <1>7

\* Children are deleted before their parents, or go with them.
ChildrenFirst(d, tables, numbers) ==
  \A i \in 1..Len(tables) : \A l \in d.links : l.to \in {<<tables[i], n>> : n \in numbers} =>
    \/ \E j \in 1..(i - 1) : l.from \in {<<tables[j], n>> : n \in numbers}
    \/ Lets(d, l)

\* Rows deleted children first are all taken: no statement of the list is refused.
LEMMA DeleteAllDrops ==
  ASSUME NEW d, Whole(d), NEW numbers, NEW tables, Len(tables) \in Nat,
         ChildrenFirst(d, tables, numbers)
  PROVE  Drops(d, Tables!DeleteAll(d, tables, numbers), Members(tables) \X numbers)
  <1> DEFINE C == Len(tables)
             Gone(n) == {tables[i] : i \in 1..n} \X numbers
  <1>1. PICK f : /\ Tables!DeleteAll(d, tables, numbers) = f[C]
                 /\ f[0] = d
                 /\ \A n \in 1..C : f[n] = Tables!Delete(f[n - 1], tables[n], numbers)
    BY DeleteAllIs
  <1> DEFINE M == {n \in Nat : Drops(d, f[n], Gone(n))}
  <1>2. C \in Nat
    OBVIOUS
  <1> HIDE DEF C
  <1>3. 0 \in M
    BY <1>1 DEF Drops
  <1>4. ASSUME NEW n \in 0..C, n \in M, n < C
        PROVE  n + 1 \in M
    <2>1. n + 1 \in 1..C /\ (n + 1) - 1 = n /\ n \in Nat /\ n + 1 \in Nat
      BY <1>2, <1>4
    <2> DEFINE t == tables[n + 1]
               rows == {<<t, m>> : m \in numbers}
    <2>2. f[n + 1] = Tables!Delete(f[n], t, numbers)
      BY <1>1, <2>1
    <2>3. Drops(d, f[n], Gone(n))
      BY <1>4
    <2>4. ASSUME NEW l \in f[n].links, l.to \in rows
          PROVE  Lets(f[n], l)
      <3>1. l \in d.links /\ l.from \in f[n].rows /\ l.from \notin Gone(n)
        BY <2>3 DEF Drops, Whole
      <3>2. (\E j \in 1..n : l.from \in {<<tables[j], m>> : m \in numbers}) \/ Lets(d, l)
        BY <2>1, <2>4, <3>1 DEF ChildrenFirst, C
      <3>3. Lets(d, l)
        BY <3>1, <3>2
      <3> QED
        BY <2>3, <3>3 DEF Lets, Drops
    <2>5. Drops(f[n], f[n + 1], rows)
      <3>1. Whole(f[n])
        BY <2>3 DEF Drops
      <3> HIDE DEF t
      <3> QED
        BY <2>2, <2>4, <3>1, DeleteDrops
    <2>6. Gone(n + 1) = Gone(n) \cup rows
      BY <2>1
    <2> HIDE DEF Gone, rows
    <2>7. Drops(d, f[n + 1], Gone(n + 1))
      BY <2>3, <2>5, <2>6 DEF Drops
    <2> QED
      BY <2>1, <2>7
  <1>5. C \in M
    <2> HIDE DEF M
    <2>1. \A n \in 0..C : n \in M
      BY <1>2, <1>3, <1>4, CountUp
    <2> QED
      BY <1>2, <2>1
  <1> QED
    BY <1>1, <1>5 DEF Members, C

-----------------------------------------------------------------------------
(* The lists of tables that the transactions insert, in their order:        *)
(* parents first, and what the rows of each list are.                       *)

\* What the rows of the transactions need, table by table.
LEMMA RequiredAre ==
  /\ Tables!Required("profiles") = {"users"}
  /\ Tables!Required("scoring_profiles") = {}
  /\ Tables!Required("worlds") = {}
  /\ Tables!Required("game_data_versions") = {}
  /\ Tables!Required("game_data_import_runs") = {"game_data_versions"}
  /\ Tables!Required("game_data_import_batches") = {"game_data_import_runs"}
  /\ Tables!Required("catalog_pals") = {"game_data_versions"}
  /\ Tables!Required("catalog_passive_skills") = {"game_data_versions"}
  /\ Tables!Required("catalog_active_skills") = {"game_data_versions"}
  /\ Tables!Required("catalog_pal_active_skills") = {"catalog_active_skills", "catalog_pals"}
  /\ Tables!Required("catalog_partner_skills") = {"catalog_pals"}
  /\ Tables!Required("catalog_localizations") = {"game_data_versions"}
  /\ Tables!Required("catalog_breeding_recipes") = {"catalog_pals"}
  /\ Tables!Required("catalog_items") = {"game_data_versions"}
  /\ Tables!Required("catalog_item_recipes") = {"catalog_items"}
  /\ Tables!Required("catalog_item_recipe_ingredients") = {"catalog_item_recipes",
       "catalog_items"}
  /\ Tables!Required("breeding_data_versions") = {}
  /\ Tables!Required("breeding_recipes") = {"breeding_data_versions"}
  /\ Tables!Required("guilds") = {"worlds"}
  /\ Tables!Required("players") = {"worlds"}
  /\ Tables!Required("inventory_snapshots") = {"worlds"}
  /\ Tables!Required("pal_snapshot_items") = {"inventory_snapshots"}
  /\ Tables!Required("pal_instance_lifecycle") = {"worlds"}
  /\ Tables!Required("pal_share_preferences") = {"worlds"}
  /\ Tables!Required("item_inventory_snapshots") = {"game_data_versions", "inventory_snapshots",
       "worlds"}
  /\ Tables!Required("item_inventory_bases") = {"guilds", "item_inventory_snapshots"}
  /\ Tables!Required("item_inventory_stack_items") = {"item_inventory_snapshots"}
  /\ Tables!Required("item_inventory_totals") = {"guilds", "item_inventory_snapshots"}
  /\ Tables!Required("item_inventory_base_totals") = {"guilds", "item_inventory_bases",
       "item_inventory_snapshots"}
  /\ Tables!Required("item_inventory_recipe_capacities") = {"catalog_items", "guilds",
       "item_inventory_snapshots"}
  /\ Tables!Required("item_inventory_hourly_rollups") = {"guilds", "worlds"}
  /\ Tables!Required("item_inventory_daily_rollups") = {"guilds", "worlds"}
  /\ Tables!Required("item_inventory_five_minute_totals")
       = {"item_inventory_five_minute_samples"}
  /\ Tables!Required("item_inventory_five_minute_samples") = {"guilds",
       "item_inventory_snapshots", "worlds"}
  /\ Tables!Required("breeding_jobs") = {"breeding_data_versions", "game_data_versions",
       "inventory_snapshots", "players", "scoring_profiles", "users", "worlds"}
  /\ Tables!Required("breeding_plans") = {"breeding_jobs"}
  /\ Tables!Required("breeding_routes") = {"breeding_plans"}
  /\ Tables!Required("saved_breeding_plans") = {"breeding_routes", "users"}
  <1>1. /\ Tables!Required("profiles") = {"users"}
        /\ Tables!Required("scoring_profiles") = {}
        /\ Tables!Required("worlds") = {}
        /\ Tables!Required("game_data_versions") = {}
        /\ Tables!Required("game_data_import_runs") = {"game_data_versions"}
        /\ Tables!Required("game_data_import_batches") = {"game_data_import_runs"}
    <2>1. /\ Tables!Keys("profiles") = Tables!profiles
          /\ Tables!Keys("scoring_profiles") = Tables!scoring_profiles
          /\ Tables!Keys("worlds") = Tables!worlds
          /\ Tables!Keys("game_data_versions") = Tables!game_data_versions
          /\ Tables!Keys("game_data_import_runs") = Tables!game_data_import_runs
          /\ Tables!Keys("game_data_import_batches") = Tables!game_data_import_batches
      BY KeysOf
    <2> QED
      BY <2>1, KeysAre
      DEF Tables!Required, Tables!profiles, Tables!scoring_profiles, Tables!worlds,
          Tables!game_data_versions, Tables!game_data_import_runs,
          Tables!game_data_import_batches
  <1>2. /\ Tables!Required("catalog_pals") = {"game_data_versions"}
        /\ Tables!Required("catalog_passive_skills") = {"game_data_versions"}
        /\ Tables!Required("catalog_active_skills") = {"game_data_versions"}
        /\ Tables!Required("catalog_pal_active_skills")
             = {"catalog_active_skills", "catalog_pals"}
        /\ Tables!Required("catalog_partner_skills") = {"catalog_pals"}
        /\ Tables!Required("catalog_localizations") = {"game_data_versions"}
    <2>1. /\ Tables!Keys("catalog_pals") = Tables!catalog_pals
          /\ Tables!Keys("catalog_passive_skills") = Tables!catalog_passive_skills
          /\ Tables!Keys("catalog_active_skills") = Tables!catalog_active_skills
          /\ Tables!Keys("catalog_pal_active_skills") = Tables!catalog_pal_active_skills
          /\ Tables!Keys("catalog_partner_skills") = Tables!catalog_partner_skills
          /\ Tables!Keys("catalog_localizations") = Tables!catalog_localizations
      BY KeysOf
    <2> QED
      BY <2>1, KeysAre
      DEF Tables!Required, Tables!catalog_pals, Tables!catalog_passive_skills,
          Tables!catalog_active_skills, Tables!catalog_pal_active_skills,
          Tables!catalog_partner_skills, Tables!catalog_localizations
  <1>3. /\ Tables!Required("catalog_breeding_recipes") = {"catalog_pals"}
        /\ Tables!Required("catalog_items") = {"game_data_versions"}
        /\ Tables!Required("catalog_item_recipes") = {"catalog_items"}
        /\ Tables!Required("catalog_item_recipe_ingredients") = {"catalog_item_recipes",
               "catalog_items"}
        /\ Tables!Required("breeding_data_versions") = {}
        /\ Tables!Required("breeding_recipes") = {"breeding_data_versions"}
    <2>1. /\ Tables!Keys("catalog_breeding_recipes") = Tables!catalog_breeding_recipes
          /\ Tables!Keys("catalog_items") = Tables!catalog_items
          /\ Tables!Keys("catalog_item_recipes") = Tables!catalog_item_recipes
          /\ Tables!Keys("catalog_item_recipe_ingredients") = Tables!catalog_item_recipe_ingredients
          /\ Tables!Keys("breeding_data_versions") = Tables!breeding_data_versions
          /\ Tables!Keys("breeding_recipes") = Tables!breeding_recipes
      BY KeysOf
    <2> QED
      BY <2>1, KeysAre
      DEF Tables!Required, Tables!catalog_breeding_recipes, Tables!catalog_items,
          Tables!catalog_item_recipes, Tables!catalog_item_recipe_ingredients,
          Tables!breeding_data_versions, Tables!breeding_recipes
  <1>4. /\ Tables!Required("guilds") = {"worlds"}
        /\ Tables!Required("players") = {"worlds"}
        /\ Tables!Required("inventory_snapshots") = {"worlds"}
        /\ Tables!Required("pal_snapshot_items") = {"inventory_snapshots"}
        /\ Tables!Required("pal_instance_lifecycle") = {"worlds"}
        /\ Tables!Required("pal_share_preferences") = {"worlds"}
    <2>1. /\ Tables!Keys("guilds") = Tables!guilds
          /\ Tables!Keys("players") = Tables!players
          /\ Tables!Keys("inventory_snapshots") = Tables!inventory_snapshots
          /\ Tables!Keys("pal_snapshot_items") = Tables!pal_snapshot_items
          /\ Tables!Keys("pal_instance_lifecycle") = Tables!pal_instance_lifecycle
          /\ Tables!Keys("pal_share_preferences") = Tables!pal_share_preferences
      BY KeysOf
    <2> QED
      BY <2>1, KeysAre
      DEF Tables!Required, Tables!guilds, Tables!players, Tables!inventory_snapshots,
          Tables!pal_snapshot_items, Tables!pal_instance_lifecycle, Tables!pal_share_preferences
  <1>5. /\ Tables!Required("item_inventory_snapshots")
             = {"game_data_versions", "inventory_snapshots",
               "worlds"}
        /\ Tables!Required("item_inventory_bases") = {"guilds", "item_inventory_snapshots"}
        /\ Tables!Required("item_inventory_stack_items") = {"item_inventory_snapshots"}
        /\ Tables!Required("item_inventory_totals") = {"guilds", "item_inventory_snapshots"}
        /\ Tables!Required("item_inventory_base_totals") = {"guilds", "item_inventory_bases",
               "item_inventory_snapshots"}
        /\ Tables!Required("item_inventory_recipe_capacities") = {"catalog_items", "guilds",
               "item_inventory_snapshots"}
    <2>1. /\ Tables!Keys("item_inventory_snapshots") = Tables!item_inventory_snapshots
          /\ Tables!Keys("item_inventory_bases") = Tables!item_inventory_bases
          /\ Tables!Keys("item_inventory_stack_items") = Tables!item_inventory_stack_items
          /\ Tables!Keys("item_inventory_totals") = Tables!item_inventory_totals
          /\ Tables!Keys("item_inventory_base_totals") = Tables!item_inventory_base_totals
          /\ Tables!Keys("item_inventory_recipe_capacities")
               = Tables!item_inventory_recipe_capacities
      BY KeysOf
    <2> QED
      BY <2>1, KeysAre
      DEF Tables!Required, Tables!item_inventory_snapshots, Tables!item_inventory_bases,
          Tables!item_inventory_stack_items, Tables!item_inventory_totals,
          Tables!item_inventory_base_totals, Tables!item_inventory_recipe_capacities
  <1>6. /\ Tables!Required("item_inventory_hourly_rollups") = {"guilds", "worlds"}
        /\ Tables!Required("item_inventory_daily_rollups") = {"guilds", "worlds"}
        /\ Tables!Required("item_inventory_five_minute_totals")
               = {"item_inventory_five_minute_samples"}
        /\ Tables!Required("item_inventory_five_minute_samples") = {"guilds",
               "item_inventory_snapshots", "worlds"}
        /\ Tables!Required("breeding_jobs") = {"breeding_data_versions", "game_data_versions",
               "inventory_snapshots", "players", "scoring_profiles", "users", "worlds"}
        /\ Tables!Required("breeding_plans") = {"breeding_jobs"}
    <2>1. /\ Tables!Keys("item_inventory_hourly_rollups") = Tables!item_inventory_hourly_rollups
          /\ Tables!Keys("item_inventory_daily_rollups") = Tables!item_inventory_daily_rollups
          /\ Tables!Keys("item_inventory_five_minute_totals")
               = Tables!item_inventory_five_minute_totals
          /\ Tables!Keys("item_inventory_five_minute_samples")
               = Tables!item_inventory_five_minute_samples
          /\ Tables!Keys("breeding_jobs") = Tables!breeding_jobs
          /\ Tables!Keys("breeding_plans") = Tables!breeding_plans
      BY KeysOf
    <2> QED
      BY <2>1, KeysAre
      DEF Tables!Required, Tables!item_inventory_hourly_rollups,
          Tables!item_inventory_daily_rollups, Tables!item_inventory_five_minute_totals,
          Tables!item_inventory_five_minute_samples, Tables!breeding_jobs, Tables!breeding_plans
  <1>7. /\ Tables!Required("breeding_routes") = {"breeding_plans"}
        /\ Tables!Required("saved_breeding_plans") = {"breeding_routes", "users"}
    <2>1. /\ Tables!Keys("breeding_routes") = Tables!breeding_routes
          /\ Tables!Keys("saved_breeding_plans") = Tables!saved_breeding_plans
      BY KeysOf
    <2> QED
      BY <2>1, KeysAre
      DEF Tables!Required, Tables!breeding_routes, Tables!saved_breeding_plans
  <1> QED
    BY <1>1, <1>2, <1>3, <1>4, <1>5, <1>6, <1>7, Zenon

\* The lists, as the transactions have them.
RowsFirst ==
  <<"profiles", "scoring_profiles", "worlds">>
RowsStaged ==
  <<"game_data_versions", "game_data_import_runs", "game_data_import_batches">>
RowsImported ==
  <<"catalog_pals", "catalog_passive_skills", "catalog_active_skills",
    "catalog_pal_active_skills", "catalog_partner_skills", "catalog_localizations",
    "catalog_breeding_recipes", "catalog_items", "catalog_item_recipes",
    "catalog_item_recipe_ingredients">>
RowsCopied ==
  <<"breeding_data_versions", "breeding_recipes">>
RowsPals ==
  <<"guilds", "players", "inventory_snapshots", "pal_snapshot_items", "pal_instance_lifecycle",
    "pal_share_preferences">>
RowsItems ==
  <<"item_inventory_snapshots", "item_inventory_bases", "item_inventory_stack_items",
    "item_inventory_totals", "item_inventory_base_totals", "item_inventory_recipe_capacities",
    "item_inventory_hourly_rollups", "item_inventory_daily_rollups">>
RowsAgain ==
  <<"item_inventory_totals", "item_inventory_base_totals">>
RowsSampleTotals ==
  <<"item_inventory_five_minute_totals">>

\* Each list has the parents of its rows before them, or in the tables named.
LEMMA FirstInOrder == ParentsFirst(RowsFirst, {"users"})
BY RequiredAre, TablesAre
DEF RowsFirst, ParentsFirst, AllTables, Execution, Level0, Level1, Level2, Level3, Level4,
    Level5, Level6
LEMMA FirstMembers == Members(RowsFirst) = {"profiles", "scoring_profiles", "worlds"}
BY DEF RowsFirst, Members

LEMMA StagedInOrder == ParentsFirst(RowsStaged, {})
BY RequiredAre, TablesAre
DEF RowsStaged, ParentsFirst, AllTables, Execution, Level0, Level1, Level2, Level3, Level4,
    Level5, Level6
LEMMA StagedMembers ==
  Members(RowsStaged) = {"game_data_versions", "game_data_import_runs",
  "game_data_import_batches"}
BY DEF RowsStaged, Members

LEMMA ImportedInOrder == ParentsFirst(RowsImported, {"game_data_versions"})
BY RequiredAre, TablesAre
DEF RowsImported, ParentsFirst, AllTables, Execution, Level0, Level1, Level2, Level3, Level4,
    Level5, Level6
LEMMA ImportedMembers ==
  Members(RowsImported) = {"catalog_pals", "catalog_passive_skills", "catalog_active_skills",
  "catalog_pal_active_skills", "catalog_partner_skills", "catalog_localizations",
  "catalog_breeding_recipes", "catalog_items", "catalog_item_recipes",
  "catalog_item_recipe_ingredients"}
BY DEF RowsImported, Members

LEMMA CopiedInOrder == ParentsFirst(RowsCopied, {})
BY RequiredAre, TablesAre
DEF RowsCopied, ParentsFirst, AllTables, Execution, Level0, Level1, Level2, Level3, Level4,
    Level5, Level6
LEMMA CopiedMembers == Members(RowsCopied) = {"breeding_data_versions", "breeding_recipes"}
BY DEF RowsCopied, Members

LEMMA PalsInOrder == ParentsFirst(RowsPals, {"worlds"})
BY RequiredAre, TablesAre
DEF RowsPals, ParentsFirst, AllTables, Execution, Level0, Level1, Level2, Level3, Level4, Level5,
    Level6
LEMMA PalsMembers ==
  Members(RowsPals) = {"guilds", "players", "inventory_snapshots", "pal_snapshot_items",
  "pal_instance_lifecycle", "pal_share_preferences"}
BY DEF RowsPals, Members

LEMMA ItemsInOrder ==
  ParentsFirst(RowsItems, {"worlds", "guilds", "inventory_snapshots", "game_data_versions",
  "catalog_items"})
BY RequiredAre, TablesAre
DEF RowsItems, ParentsFirst, AllTables, Execution, Level0, Level1, Level2, Level3, Level4,
    Level5, Level6
LEMMA ItemsMembers ==
  Members(RowsItems) = {"item_inventory_snapshots", "item_inventory_bases",
  "item_inventory_stack_items", "item_inventory_totals", "item_inventory_base_totals",
  "item_inventory_recipe_capacities", "item_inventory_hourly_rollups",
  "item_inventory_daily_rollups"}
BY DEF RowsItems, Members

LEMMA AgainInOrder ==
  ParentsFirst(RowsAgain, {"guilds", "item_inventory_snapshots", "item_inventory_bases"})
BY RequiredAre, TablesAre
DEF RowsAgain, ParentsFirst, AllTables, Execution, Level0, Level1, Level2, Level3, Level4,
    Level5, Level6
LEMMA AgainMembers == Members(RowsAgain) = {"item_inventory_totals", "item_inventory_base_totals"}
BY DEF RowsAgain, Members

LEMMA SampleTotalsInOrder ==
  ParentsFirst(RowsSampleTotals, {"item_inventory_five_minute_samples"})
BY RequiredAre, TablesAre
DEF RowsSampleTotals, ParentsFirst, AllTables, Execution, Level0, Level1, Level2, Level3, Level4,
    Level5, Level6
LEMMA SampleTotalsMembers == Members(RowsSampleTotals) = {"item_inventory_five_minute_totals"}
BY DEF RowsSampleTotals, Members

\* The tables with the items of one snapshot.
ItemTables ==
  {"item_inventory_snapshots", "item_inventory_bases", "item_inventory_stack_items",
   "item_inventory_totals", "item_inventory_base_totals", "item_inventory_recipe_capacities"}

\* What each list adds to a database that has the rows named.
LEMMA FirstAreAdded ==
  ASSUME NEW d, Whole(d), NEW k, NEW v,
         <<"users", 1>> \in d.rows
  PROVE  Adds(d, Tables!InsertAll(d, RowsFirst, Tables!Number(k, v)),
              {"profiles", "scoring_profiles", "worlds"} \X {1})
  <1> DEFINE there == {"users"}
             new == {<<t, Tables!Number(k, v)[t]>> : t \in Members(RowsFirst)}
  <1>1. \A s \in there : <<s, Tables!Number(k, v)[s]>> \in d.rows
    BY NumberIs DEF Tables!OfSnapshot, Tables!OfVersion, AllTables, Level0, Level1, Level2, Level3
  <1>2. Adds(d, Tables!InsertAll(d, RowsFirst, Tables!Number(k, v)), new)
    <2> HIDE DEF there
    <2> QED
      BY <1>1, FirstInOrder, InsertAllAdds DEF there
  <1>3. new = {"profiles", "scoring_profiles", "worlds"} \X {1}
    BY NumberIs, FirstMembers
    DEF Tables!OfSnapshot, Tables!OfVersion, AllTables, Level0, Level1, Level2, Level3, Level4,
        ItemTables
  <1> QED
    BY <1>2, <1>3

LEMMA StagedAreAdded ==
  ASSUME NEW d, Whole(d), NEW k, NEW v
  PROVE  Adds(d, Tables!InsertAll(d, RowsStaged, Tables!Number(k, v)),
              {"game_data_versions", "game_data_import_runs", "game_data_import_batches"} \X {v})
  <1> DEFINE there == {}
             new == {<<t, Tables!Number(k, v)[t]>> : t \in Members(RowsStaged)}
  <1>1. \A s \in there : <<s, Tables!Number(k, v)[s]>> \in d.rows
    BY NumberIs DEF Tables!OfSnapshot, Tables!OfVersion, AllTables, Level0, Level1, Level2, Level3
  <1>2. Adds(d, Tables!InsertAll(d, RowsStaged, Tables!Number(k, v)), new)
    <2> HIDE DEF there
    <2> QED
      BY <1>1, StagedInOrder, InsertAllAdds DEF there
  <1>3. new = {"game_data_versions", "game_data_import_runs", "game_data_import_batches"} \X {v}
    BY NumberIs, StagedMembers
    DEF Tables!OfSnapshot, Tables!OfVersion, AllTables, Level0, Level1, Level2, Level3, Level4,
        ItemTables
  <1> QED
    BY <1>2, <1>3

LEMMA ImportedAreAdded ==
  ASSUME NEW d, Whole(d), NEW k, NEW v,
         <<"game_data_versions", v>> \in d.rows
  PROVE  Adds(d, Tables!InsertAll(d, RowsImported, Tables!Number(k, v)),
              Members(RowsImported) \X {v})
  <1> DEFINE there == {"game_data_versions"}
             new == {<<t, Tables!Number(k, v)[t]>> : t \in Members(RowsImported)}
  <1>1. \A s \in there : <<s, Tables!Number(k, v)[s]>> \in d.rows
    BY NumberIs DEF Tables!OfSnapshot, Tables!OfVersion, AllTables, Level0, Level1, Level2, Level3
  <1>2. Adds(d, Tables!InsertAll(d, RowsImported, Tables!Number(k, v)), new)
    <2> HIDE DEF there
    <2> QED
      BY <1>1, ImportedInOrder, InsertAllAdds DEF there
  <1>3. new = Members(RowsImported) \X {v}
    BY NumberIs, ImportedMembers
    DEF Tables!OfSnapshot, Tables!OfVersion, AllTables, Level0, Level1, Level2, Level3, Level4,
        ItemTables
  <1> QED
    BY <1>2, <1>3

LEMMA CopiedAreAdded ==
  ASSUME NEW d, Whole(d), NEW k, NEW v
  PROVE  Adds(d, Tables!InsertAll(d, RowsCopied, Tables!Number(k, v)),
              Members(RowsCopied) \X {v})
  <1> DEFINE there == {}
             new == {<<t, Tables!Number(k, v)[t]>> : t \in Members(RowsCopied)}
  <1>1. \A s \in there : <<s, Tables!Number(k, v)[s]>> \in d.rows
    BY NumberIs DEF Tables!OfSnapshot, Tables!OfVersion, AllTables, Level0, Level1, Level2, Level3
  <1>2. Adds(d, Tables!InsertAll(d, RowsCopied, Tables!Number(k, v)), new)
    <2> HIDE DEF there
    <2> QED
      BY <1>1, CopiedInOrder, InsertAllAdds DEF there
  <1>3. new = Members(RowsCopied) \X {v}
    BY NumberIs, CopiedMembers
    DEF Tables!OfSnapshot, Tables!OfVersion, AllTables, Level0, Level1, Level2, Level3, Level4,
        ItemTables
  <1> QED
    BY <1>2, <1>3

LEMMA PalsAreAdded ==
  ASSUME NEW d, Whole(d), NEW k, NEW v,
         <<"worlds", 1>> \in d.rows
  PROVE  Adds(d, Tables!InsertAll(d, RowsPals, Tables!Number(k, v)),
              ({"inventory_snapshots", "pal_snapshot_items"} \X {k})
                \cup ({"guilds", "players", "pal_instance_lifecycle",
                  "pal_share_preferences"} \X {1}))
  <1> DEFINE there == {"worlds"}
             new == {<<t, Tables!Number(k, v)[t]>> : t \in Members(RowsPals)}
  <1>1. \A s \in there : <<s, Tables!Number(k, v)[s]>> \in d.rows
    BY NumberIs DEF Tables!OfSnapshot, Tables!OfVersion, AllTables, Level0, Level1, Level2, Level3
  <1>2. Adds(d, Tables!InsertAll(d, RowsPals, Tables!Number(k, v)), new)
    <2> HIDE DEF there
    <2> QED
      BY <1>1, PalsInOrder, InsertAllAdds DEF there
  <1>3. new = ({"inventory_snapshots", "pal_snapshot_items"} \X {k})
                \cup ({"guilds", "players", "pal_instance_lifecycle",
                  "pal_share_preferences"} \X {1})
    BY NumberIs, PalsMembers
    DEF Tables!OfSnapshot, Tables!OfVersion, AllTables, Level0, Level1, Level2, Level3, Level4,
        ItemTables
  <1> QED
    BY <1>2, <1>3

LEMMA ItemsAreAdded ==
  ASSUME NEW d, Whole(d), NEW k, NEW v,
         <<"worlds", 1>> \in d.rows, <<"guilds", 1>> \in d.rows,
         <<"inventory_snapshots", k>> \in d.rows, <<"game_data_versions", v>> \in d.rows,
         <<"catalog_items", v>> \in d.rows
  PROVE  Adds(d, Tables!InsertAll(d, RowsItems, Tables!Number(k, v)),
              (ItemTables \X {k})
                \cup ({"item_inventory_hourly_rollups", "item_inventory_daily_rollups"} \X {1}))
  <1> DEFINE there == {"worlds", "guilds", "inventory_snapshots", "game_data_versions",
    "catalog_items"}
             new == {<<t, Tables!Number(k, v)[t]>> : t \in Members(RowsItems)}
  <1>1. \A s \in there : <<s, Tables!Number(k, v)[s]>> \in d.rows
    BY NumberIs DEF Tables!OfSnapshot, Tables!OfVersion, AllTables, Level0, Level1, Level2, Level3
  <1>2. Adds(d, Tables!InsertAll(d, RowsItems, Tables!Number(k, v)), new)
    <2> HIDE DEF there
    <2> QED
      BY <1>1, ItemsInOrder, InsertAllAdds DEF there
  <1>3. new = (ItemTables \X {k})
                \cup ({"item_inventory_hourly_rollups", "item_inventory_daily_rollups"} \X {1})
    BY NumberIs, ItemsMembers
    DEF Tables!OfSnapshot, Tables!OfVersion, AllTables, Level0, Level1, Level2, Level3, Level4,
        ItemTables
  <1> QED
    BY <1>2, <1>3

LEMMA AgainAreAdded ==
  ASSUME NEW d, Whole(d), NEW k, NEW v,
         <<"guilds", 1>> \in d.rows, <<"item_inventory_snapshots", k>> \in d.rows,
         <<"item_inventory_bases", k>> \in d.rows
  PROVE  Adds(d, Tables!InsertAll(d, RowsAgain, Tables!Number(k, v)),
              {"item_inventory_totals", "item_inventory_base_totals"} \X {k})
  <1> DEFINE there == {"guilds", "item_inventory_snapshots", "item_inventory_bases"}
             new == {<<t, Tables!Number(k, v)[t]>> : t \in Members(RowsAgain)}
  <1>1. \A s \in there : <<s, Tables!Number(k, v)[s]>> \in d.rows
    BY NumberIs DEF Tables!OfSnapshot, Tables!OfVersion, AllTables, Level0, Level1, Level2, Level3
  <1>2. Adds(d, Tables!InsertAll(d, RowsAgain, Tables!Number(k, v)), new)
    <2> HIDE DEF there
    <2> QED
      BY <1>1, AgainInOrder, InsertAllAdds DEF there
  <1>3. new = {"item_inventory_totals", "item_inventory_base_totals"} \X {k}
    BY NumberIs, AgainMembers
    DEF Tables!OfSnapshot, Tables!OfVersion, AllTables, Level0, Level1, Level2, Level3, Level4,
        ItemTables
  <1> QED
    BY <1>2, <1>3

LEMMA SampleTotalsAreAdded ==
  ASSUME NEW d, Whole(d), NEW k, NEW v,
         <<"item_inventory_five_minute_samples", 1>> \in d.rows
  PROVE  Adds(d, Tables!InsertAll(d, RowsSampleTotals, Tables!Number(k, v)),
              {"item_inventory_five_minute_totals"} \X {1})
  <1> DEFINE there == {"item_inventory_five_minute_samples"}
             new == {<<t, Tables!Number(k, v)[t]>> : t \in Members(RowsSampleTotals)}
  <1>1. \A s \in there : <<s, Tables!Number(k, v)[s]>> \in d.rows
    BY NumberIs DEF Tables!OfSnapshot, Tables!OfVersion, AllTables, Level0, Level1, Level2, Level3
  <1>2. Adds(d, Tables!InsertAll(d, RowsSampleTotals, Tables!Number(k, v)), new)
    <2> HIDE DEF there
    <2> QED
      BY <1>1, SampleTotalsInOrder, InsertAllAdds DEF there
  <1>3. new = {"item_inventory_five_minute_totals"} \X {1}
    BY NumberIs, SampleTotalsMembers
    DEF Tables!OfSnapshot, Tables!OfVersion, AllTables, Level0, Level1, Level2, Level3, Level4,
        ItemTables
  <1> QED
    BY <1>2, <1>3

-----------------------------------------------------------------------------
(* The deletions of the retention, and the keys that the transactions write.*)

Samples == "item_inventory_five_minute_samples"
SampleTotals == "item_inventory_five_minute_totals"

\* Which links there are to the tables that rows are deleted from.
LEMMA LinkIsOfKey ==
  ASSUME NEW d, Whole(d), NEW l \in d.links
  PROVE  /\ l.to[1] \notin Leaves
         /\ l.to[1] = "item_inventory_bases" =>
              l.from[1] \in {"item_inventory_base_totals", "item_inventory_stack_items"}
         /\ l.to[1] = "inventory_snapshots" =>
              l.from[1] \in {"pal_snapshot_items", "item_inventory_snapshots", "breeding_jobs",
                            "worlds"}
         /\ l.to[1] = "inventory_snapshots" /\ l.from[1] = "worlds" =>
              l.by = Tables!LatestSnapshot /\ l.from = Tables!World
         /\ l.to[1] = Samples => l.from[1] = SampleTotals /\ Tables!KeyOf(l) \in Tables!Cascading
         /\ l.from[1] \in Tables!OfSnapshot /\ l.to[1] \in Tables!OfSnapshot =>
              l.from[2] = l.to[2]
         /\ l.to = <<l.to[1], l.to[2]>> /\ l.from = <<l.from[1], l.from[2]>>
  <1>1. /\ l.from \in d.rows /\ l.to \in d.rows /\ Keyed(l) /\ l.from[1] \in AllTables \ Execution
        /\ l.to = <<l.to[1], l.to[2]>> /\ l.from = <<l.from[1], l.from[2]>>
        /\ l.from[1] = "worlds" => l.from[2] = 1
    BY DEF Whole
  <1>2. PICK key \in Tables!Keys(l.from[1]) : key.by = l.by /\ key.to = l.to[1]
    BY <1>1 DEF Keyed
  <1>3. l.from[1] # "users"
    BY <1>2 DEF Tables!Keys
  <1>4. InOrder(l.from[1], key)
    BY <1>1, <1>2, <1>3, KeysInOrder, TablesAre
  <1>5. l.to[1] = Samples => l.from[1] = SampleTotals /\ Tables!KeyOf(l) \in Tables!Cascading
    BY <1>2, <1>4 DEF InOrder, Referring, Tables!KeyOf, Tables!Cascading, Samples, SampleTotals
  <1>6. l.to[1] = "inventory_snapshots" /\ l.from[1] = "worlds" =>
              l.by = Tables!LatestSnapshot /\ l.from = Tables!World
    BY <1>1, <1>2, <1>4 DEF InOrder, Referring, Tables!World
  <1> QED
    BY <1>1, <1>2, <1>4, <1>5, <1>6 DEF InOrder, Referring, Keyed

\* A database after rows were taken from it, and nothing else.
Less(d, e, rows) == Whole(e) /\ e.rows = d.rows \ rows /\ e.links \subseteq d.links

\* Tables that no row refers to are deleted in any order.
LEMMA LeavesDrop ==
  ASSUME NEW d, Whole(d), NEW numbers, NEW tables, Len(tables) \in Nat,
         Members(tables) \subseteq Leaves
  PROVE  Less(d, Tables!DeleteAll(d, tables, numbers), Members(tables) \X numbers)
  <1>1. ASSUME NEW i \in 1..Len(tables), NEW l \in d.links,
               l.to \in {<<tables[i], n>> : n \in numbers}
        PROVE  FALSE
    BY <1>1, LinkIsOfKey DEF Members
  <1>2. ChildrenFirst(d, tables, numbers)
    BY <1>1 DEF ChildrenFirst
  <1>3. Drops(d, Tables!DeleteAll(d, tables, numbers), Members(tables) \X numbers)
    BY <1>2, DeleteAllDrops
  <1>4. \A l \in d.links : l.to \notin Members(tables) \X numbers
    BY LinkIsOfKey
  <1> QED
    BY <1>3, <1>4 DEF Drops, Less

\* The same of one statement.
LEMMA LeafDrops ==
  ASSUME NEW d, Whole(d), NEW numbers, NEW t \in Leaves
  PROVE  Less(d, Tables!Delete(d, t, numbers), {t} \X numbers)
  <1>1. \A l \in d.links : l.to \notin {<<t, n>> : n \in numbers}
    BY LinkIsOfKey
  <1>2. Drops(d, Tables!Delete(d, t, numbers), {<<t, n>> : n \in numbers})
    BY <1>1, DeleteDrops
  <1>3. {<<t, n>> : n \in numbers} = {t} \X numbers
    OBVIOUS
  <1> QED
    BY <1>1, <1>2, <1>3 DEF Drops, Less

PayloadTables ==
  {"item_inventory_recipe_capacities", "item_inventory_base_totals", "item_inventory_totals",
   "item_inventory_stack_items", "item_inventory_bases"}

\* The payload of an item snapshot goes as a whole, snapshots of items stay.
LEMMA PayloadDrops ==
  ASSUME NEW d, Whole(d), NEW numbers
  PROVE  Less(d, Tables!DeleteAll(d, Tables!ItemPayload, numbers), PayloadTables \X numbers)
  <1>1. /\ Len(Tables!ItemPayload) = 5 /\ Members(Tables!ItemPayload) = PayloadTables
        /\ \A i \in 1..5 : Tables!ItemPayload[i] \in Leaves \/ i = 5
        /\ Tables!ItemPayload[5] = "item_inventory_bases"
        /\ Tables!ItemPayload[2] = "item_inventory_base_totals"
        /\ Tables!ItemPayload[4] = "item_inventory_stack_items"
    BY DEF Tables!ItemPayload, Members, PayloadTables, Leaves
  <1>2. ASSUME NEW l \in d.links, l.to \in {<<"item_inventory_bases", n>> : n \in numbers}
        PROVE  \/ l.from \in {<<"item_inventory_base_totals", n>> : n \in numbers}
               \/ l.from \in {<<"item_inventory_stack_items", n>> : n \in numbers}
    BY <1>2, LinkIsOfKey DEF Tables!OfSnapshot
  <1>3. ChildrenFirst(d, Tables!ItemPayload, numbers)
    <2>1. ASSUME NEW i \in 1..5, NEW l \in d.links,
                 l.to \in {<<Tables!ItemPayload[i], n>> : n \in numbers}
          PROVE  \E j \in 1..(i - 1) : l.from \in {<<Tables!ItemPayload[j], n>> : n \in numbers}
      <3>1. i = 5
        BY <1>1, <2>1, LinkIsOfKey
      <3>2. 2 \in 1..(i - 1) /\ 4 \in 1..(i - 1)
        BY <3>1
      <3> QED
        BY <1>1, <1>2, <2>1, <3>1, <3>2
    <2> QED
      BY <1>1, <2>1 DEF ChildrenFirst
  <1>4. Drops(d, Tables!DeleteAll(d, Tables!ItemPayload, numbers), PayloadTables \X numbers)
    BY <1>1, <1>3, DeleteAllDrops
  <1>5. ASSUME NEW l \in d.links, l.to \in PayloadTables \X numbers
        PROVE  l.from \in PayloadTables \X numbers
    <2>1. l.to \in {<<"item_inventory_bases", n>> : n \in numbers}
      BY <1>5, LinkIsOfKey DEF PayloadTables, Leaves
    <2> QED
      BY <1>2, <2>1 DEF PayloadTables
  <1> QED
    BY <1>4, <1>5 DEF Drops, Less

\* Rows of samples and rollups, which come and go.
Minor ==
  {Samples, SampleTotals, "item_inventory_hourly_rollups", "item_inventory_daily_rollups"}

\* Old samples and rollups go as far as a clean-up gets, samples after their totals.
LEMMA BucketsDrop ==
  ASSUME NEW d, Whole(d), NEW old \in 0..Len(Tables!Buckets)
  PROVE  LET e == Tables!DeleteAll(d, SubSeq(Tables!Buckets, 1, old), {1})
         IN /\ Whole(e) /\ e.rows \subseteq d.rows /\ e.links \subseteq d.links
            /\ \A r \in d.rows \ e.rows : r[1] \in Minor
  <1> DEFINE list == SubSeq(Tables!Buckets, 1, old)
             e == Tables!DeleteAll(d, list, {1})
  <1>1. /\ Len(list) \in Nat
        /\ \A i \in 1..Len(list) :
             list[i] = Samples \/ (list[i] \in Leaves /\ list[i] \in Minor)
    <2>1. Len(Tables!Buckets) = 3
      BY DEF Tables!Buckets
    <2>2. Len(list) = old /\ \A i \in 1..old : i \in 1..3 /\ list[i] = Tables!Buckets[i]
      BY <2>1 DEF Tables!Buckets
    <2>3. \A i \in 1..3 :
            Tables!Buckets[i] = Samples \/ Tables!Buckets[i] \in Leaves \cap Minor
      BY DEF Tables!Buckets, Samples, Leaves, Minor
    <2> QED
      BY <2>1, <2>2, <2>3
  <1> HIDE DEF list
  <1>2. ASSUME NEW l \in d.links, l.to[1] = Samples
        PROVE  Lets(d, l) /\ l.from[1] = SampleTotals
    <2>1. l.from[1] = SampleTotals /\ Tables!KeyOf(l) \in Tables!Cascading
      BY <1>2, LinkIsOfKey
    <2>2. \A m \in d.links : m.to # l.from
      BY <2>1, LinkIsOfKey DEF Leaves, SampleTotals
    <2> QED
      BY <2>1, <2>2 DEF Lets
  <1>3. ChildrenFirst(d, list, {1})
    <2>1. ASSUME NEW i \in 1..Len(list), NEW l \in d.links, l.to \in {<<list[i], n>> : n \in {1}}
          PROVE  Lets(d, l)
      BY <1>1, <1>2, <2>1, LinkIsOfKey
    <2> QED
      BY <2>1 DEF ChildrenFirst
  <1>4. Drops(d, e, Members(list) \X {1})
    BY <1>1, <1>3, DeleteAllDrops
  <1>5. ASSUME NEW r \in d.rows \ e.rows
        PROVE  r[1] \in Minor
    <2>1. Members(list) \subseteq Minor
      BY <1>1 DEF Members, Minor
    <2>2. CASE r \in Members(list) \X {1}
      BY <2>1, <2>2
    <2>3. ASSUME NEW l \in d.links, l.from = r, l.to \in Members(list) \X {1}
          PROVE  r[1] \in Minor
      <3>1. l.to[1] \in Members(list)
        BY <2>3
      <3>2. l.to[1] = Samples
        BY <1>1, <3>1, LinkIsOfKey DEF Members
      <3> QED
        BY <1>2, <2>3, <3>2 DEF Minor
    <2> QED
      BY <1>4, <1>5, <2>2, <2>3 DEF Drops
  <1> QED
    BY <1>4, <1>5 DEF Drops, list

\* A failed snapshot goes only where nothing was made of it.
LEMMA FailuresDrop ==
  ASSUME NEW d, Whole(d), NEW failures,
         \A k \in failures :
           /\ k \notin Tables!Of(d, Tables!LatestSnapshot)
           /\ \A t \in {"pal_snapshot_items", "item_inventory_snapshots", "breeding_jobs"} :
                <<t, k>> \notin d.rows
  PROVE  Less(d, Tables!Delete(d, "inventory_snapshots", failures),
              {"inventory_snapshots"} \X failures)
  <1> DEFINE rows == {<<"inventory_snapshots", n>> : n \in failures}
  <1>1. ASSUME NEW l \in d.links, l.to \in rows
        PROVE  FALSE
    <2>1. l.from \in d.rows /\ l.to[1] = "inventory_snapshots" /\ l.to[2] \in failures
      BY <1>1 DEF Whole
    <2>2. CASE l.from[1] = "worlds"
      <3>1. l.to[2] \in Tables!Of(d, Tables!LatestSnapshot)
        BY <2>1, <2>2, LinkIsOfKey DEF Tables!Of
      <3> QED
        BY <2>1, <3>1
    <2>3. CASE l.from[1] \in {"pal_snapshot_items", "item_inventory_snapshots", "breeding_jobs"}
      <3>1. l.from = <<l.from[1], l.to[2]>>
        BY <2>1, <2>3, LinkIsOfKey DEF Tables!OfSnapshot
      <3> QED
        BY <2>1, <2>3, <3>1
    <2> QED
      BY <2>1, <2>2, <2>3, LinkIsOfKey
  <1>2. Drops(d, Tables!Delete(d, "inventory_snapshots", failures), rows)
    BY <1>1, DeleteDrops
  <1>3. rows = {"inventory_snapshots"} \X failures
    OBVIOUS
  <1> QED
    BY <1>1, <1>2, <1>3 DEF Drops, Less

\* Every key of the world is as it was, or null.
Within(d, e) == \A by : Tables!Of(e, by) \subseteq Tables!Of(d, by)

\* Rows that are added change no key of the world.
LEMMA AddsWithin ==
  ASSUME NEW d, NEW e, NEW rows, Adds(d, e, rows), Tables!World \in d.rows
  PROVE  Within(d, e)
BY DEF Adds, Within, Tables!Of

\* Nor do rows that are taken, but for keys they set to null.
LEMMA FewerLinksWithin ==
  ASSUME NEW d, NEW e, e.links \subseteq d.links
  PROVE  Within(d, e)
BY DEF Within, Tables!Of

\* An UPDATE of a key changes this key of this row, and nothing else.
LEMMA UpdateIs ==
  ASSUME NEW d, Whole(d), NEW row \in d.rows, NEW by, NEW to, to \subseteq d.rows,
         \A target \in to : Keyed([from |-> row, by |-> by, to |-> target])
  PROVE  LET e == Tables!Update(d, row, by, to)
         IN /\ Whole(e) /\ e.rows = d.rows
            /\ row # Tables!World => Within(d, e)
            /\ row = Tables!World =>
                 /\ Tables!Of(e, by) \subseteq {target[2] : target \in to}
                 /\ \A b : b # by => Tables!Of(e, b) \subseteq Tables!Of(d, b)
  <1> DEFINE kept == {l \in d.links : l.from # row \/ l.by # by}
             new == {[from |-> row, by |-> by, to |-> target] : target \in to}
             e == Tables!Update(d, row, by, to)
  <1>1. e = Tables!Database(d.rows, kept \cup new, d.refused)
    BY DEF Tables!Update
  <1>2. \A l \in new : l.from = row /\ l.by = by /\ l.to \in to /\ Keyed(l)
    OBVIOUS
  <1>3. \A l \in kept : l \in d.links /\ (l.from # row \/ l.by # by)
    OBVIOUS
  <1> HIDE DEF e, kept, new
  <1>4. e.rows = d.rows /\ e.links = kept \cup new /\ e.refused = d.refused
    BY <1>1, DatabaseIs
  <1>5. Whole(e)
    BY <1>2, <1>3, <1>4 DEF Whole
  <1>6. row # Tables!World => Within(d, e)
    BY <1>2, <1>3, <1>4 DEF Within, Tables!Of
  <1>7. row = Tables!World =>
          /\ Tables!Of(e, by) \subseteq {target[2] : target \in to}
          /\ \A b : b # by => Tables!Of(e, b) \subseteq Tables!Of(d, b)
    BY <1>2, <1>3, <1>4 DEF Tables!Of
  <1> QED
    BY <1>4, <1>5, <1>6, <1>7 DEF e

SampleKey == <<"snapshot_id", "world_id">>
ActiveRecipes == <<"active_breeding_version_id">>

\* The keys that the transactions write are keys of their tables, and not of a
\* snapshot on either side but where the numbers agree.
LEMMA UpdatedKeys ==
  /\ \A key \in Tables!Keys("worlds") :
       /\ key.by = Tables!LatestItems => key.to = "item_inventory_snapshots"
       /\ key.by = Tables!LatestSnapshot => key.to = "inventory_snapshots"
       /\ key.by = Tables!ActiveVersion => key.to = "game_data_versions"
  /\ \E key \in Tables!Keys("worlds") :
       key.by = Tables!LatestItems /\ key.to = "item_inventory_snapshots"
  /\ \E key \in Tables!Keys("worlds") :
       key.by = Tables!LatestSnapshot /\ key.to = "inventory_snapshots"
  /\ \E key \in Tables!Keys("worlds") :
       key.by = Tables!ActiveVersion /\ key.to = "game_data_versions"
  /\ \E key \in Tables!Keys("worlds") :
       key.by = ActiveRecipes /\ key.to = "breeding_data_versions"
  /\ \E key \in Tables!Keys(Samples) :
       key.by = SampleKey /\ key.to = "item_inventory_snapshots"
  /\ \E key \in Tables!Keys("breeding_plans") :
       key.by = Tables!Recommended /\ key.to = "breeding_routes"
  <1>1. /\ Tables!LatestItems # Tables!LatestSnapshot /\ Tables!LatestItems # Tables!ActiveVersion
        /\ Tables!LatestSnapshot # Tables!ActiveVersion
        /\ ActiveRecipes # Tables!LatestItems /\ ActiveRecipes # Tables!LatestSnapshot
        /\ ActiveRecipes # Tables!ActiveVersion
    BY DEF Tables!LatestItems, Tables!LatestSnapshot, Tables!ActiveVersion, ActiveRecipes
  <1>2. Tables!Keys("worlds") =
          {Tables!May(ActiveRecipes, "breeding_data_versions"),
           Tables!May(Tables!ActiveVersion, "game_data_versions"),
           Tables!May(Tables!LatestItems, "item_inventory_snapshots"),
           Tables!May(Tables!LatestSnapshot, "inventory_snapshots")}
    BY KeysOf DEF Tables!worlds, Tables!LatestItems, Tables!LatestSnapshot, Tables!ActiveVersion,
                  ActiveRecipes
  <1>3. Tables!Needs(SampleKey, "item_inventory_snapshots") \in Tables!Keys(Samples)
    BY KeysOf DEF Tables!item_inventory_five_minute_samples, Samples, SampleKey
  <1>4. Tables!May(Tables!Recommended, "breeding_routes") \in Tables!Keys("breeding_plans")
    BY KeysOf DEF Tables!breeding_plans, Tables!Recommended
  <1> QED
    BY <1>1, <1>2, <1>3, <1>4, KeysAre

\* What the world refers to is there.
LEMMA ReferredIsThere ==
  ASSUME NEW d, Whole(d), NEW k
  PROVE  /\ k \in Tables!Of(d, Tables!LatestItems) =>
              <<"item_inventory_snapshots", k>> \in d.rows
         /\ k \in Tables!Of(d, Tables!LatestSnapshot) => <<"inventory_snapshots", k>> \in d.rows
         /\ k \in Tables!Of(d, Tables!ActiveVersion) => <<"game_data_versions", k>> \in d.rows
  <1>1. ASSUME NEW by, k \in Tables!Of(d, by)
        PROVE  \E key \in Tables!Keys("worlds") : key.by = by /\ <<key.to, k>> \in d.rows
    <2>1. PICK l \in d.links : l.from = Tables!World /\ l.by = by /\ l.to[2] = k
      BY <1>1 DEF Tables!Of
    <2>2. l.from[1] = "worlds" /\ l.to \in d.rows /\ Keyed(l) /\ l.to = <<l.to[1], k>>
      BY <2>1, LinkIsOfKey DEF Whole, Tables!World
    <2> QED
      BY <2>1, <2>2 DEF Keyed
  <1> QED
    BY <1>1, UpdatedKeys

\* The rows that matter are the same.
Alike(d, e) == \A r : r[1] \notin Minor => (r \in e.rows <=> r \in d.rows)

\* A sample puts its row and its totals in place of those of the same bucket.
LEMMA SampledIs ==
  ASSUME NEW d, Whole(d), Tables!World \in d.rows,
         Tables!Of(d, Tables!LatestItems) # {} => <<"guilds", 1>> \in d.rows
  PROVE  /\ Whole(Tables!Sampled(d)) /\ Within(d, Tables!Sampled(d))
         /\ Alike(d, Tables!Sampled(d))
  <1> DEFINE k == CHOOSE k \in Tables!Of(d, Tables!LatestItems) : TRUE
             number == Tables!Number(k, 1)
             sample == <<Samples, 1>>
             there == Tables!Insert(d, Samples, number)
             again == Tables!Update(there, sample, SampleKey, {<<"item_inventory_snapshots", k>>})
             fewer == Tables!DeleteAll(again, RowsSampleTotals, {1})
             e == Tables!InsertAll(fewer, RowsSampleTotals, number)
  <1>1. CASE Tables!Of(d, Tables!LatestItems) = {}
    BY <1>1 DEF Tables!Sampled, Within, Alike
  <1>2. CASE Tables!Of(d, Tables!LatestItems) # {}
    <2>1. Tables!Sampled(d) = e
      BY <1>2 DEF Tables!Sampled, RowsSampleTotals, SampleKey, Samples
    <2>2. k \in Tables!Of(d, Tables!LatestItems)
      BY <1>2
    <2> HIDE DEF k
    <2>3. /\ <<"item_inventory_snapshots", k>> \in d.rows /\ <<"guilds", 1>> \in d.rows
          /\ <<"worlds", 1>> \in d.rows
      BY <1>2, <2>2, ReferredIsThere DEF Tables!World
    <2>4. Adds(d, there, {sample})
      <3>1. Samples \in Tables!Names \ Execution
        BY TablesAre DEF Samples, Execution, AllTables, Level3
      <3>2. /\ number["guilds"] = 1 /\ number["worlds"] = 1 /\ number[Samples] = 1
            /\ number["item_inventory_snapshots"] = k
        BY NumberIs DEF AllTables, Level0, Level1, Level2, Level3, Tables!OfSnapshot,
                        Tables!OfVersion, Samples
      <3>3. \A s \in Tables!Required(Samples) : <<s, number[s]>> \in d.rows
        BY <2>3, <3>2, RequiredAre DEF Samples
      <3> QED
        BY <3>1, <3>2, <3>3, InsertAdds
    <2>5. Keyed([from |-> sample, by |-> SampleKey, to |-> <<"item_inventory_snapshots", k>>])
      BY UpdatedKeys DEF Keyed, Tables!OfSnapshot, Samples
    <2> HIDE DEF there
    <2>6. Whole(again) /\ again.rows = there.rows /\ Within(there, again)
      BY <2>3, <2>4, <2>5, UpdateIs DEF Adds, Tables!World, Samples
    <2> HIDE DEF again
    <2>7. Less(again, fewer, {SampleTotals} \X {1})
      BY <2>6, LeavesDrop, SampleTotalsMembers DEF Leaves, SampleTotals, RowsSampleTotals
    <2> HIDE DEF fewer
    <2>8. Adds(fewer, e, {SampleTotals} \X {1})
      <3>1. Whole(fewer) /\ sample \in fewer.rows
        BY <2>4, <2>6, <2>7 DEF Adds, Less, Samples, SampleTotals
      <3> QED
        BY <3>1, SampleTotalsAreAdded DEF Samples, SampleTotals
    <2> HIDE DEF e
    <2>9. Tables!World \in fewer.rows
      BY <2>3, <2>4, <2>6, <2>7 DEF Adds, Less, SampleTotals, Tables!World
    <2>10. Within(d, there) /\ Within(again, fewer) /\ Within(fewer, e)
      BY <2>4, <2>7, <2>8, <2>9, AddsWithin, FewerLinksWithin DEF Less
    <2>11. Within(d, e)
      BY <2>6, <2>10 DEF Within
    <2>12. Alike(d, e)
      BY <2>4, <2>6, <2>7, <2>8 DEF Alike, Adds, Less, Minor
    <2> QED
      BY <2>1, <2>8, <2>11, <2>12 DEF Adds
  <1> QED
    BY <1>1, <1>2

-----------------------------------------------------------------------------
(* The invariant of the tables, and the transactions that keep it.          *)

\* The states of snapshots, their items, versions and jobs.
TablesTyping ==
  /\ snapshot \in [Snapshots -> {"none", "failed", "published", "purged"}]
  /\ items \in [Snapshots -> {"none", "published", "purged"}]
  /\ version \in [StagedVersions -> {"none", "staging", "validated", "published"}]
  /\ job \in [Snapshots -> {"none", "processing", "algorithm_completed", "completed", "failed"}]
  /\ saved \subseteq Snapshots

\* Rows that no transaction deletes.
AlwaysThere == {"users", "profiles", "scoring_profiles", "worlds"} \X {1}

\* The rows that a snapshot has and does not have in each state of it.
OfPals(k) ==
  /\ snapshot[k] = "published" => <<"inventory_snapshots", k>> \in db.rows
  /\ snapshot[k] # "published" => <<"pal_snapshot_items", k>> \notin db.rows
  /\ snapshot[k] \in {"published", "purged"} =>
       <<"players", 1>> \in db.rows /\ <<"guilds", 1>> \in db.rows
  /\ items[k] # "none" \/ job[k] # "none" => snapshot[k] \in {"published", "purged"}

OfItems(k) ==
  /\ items[k] = "none" => <<"item_inventory_snapshots", k>> \notin db.rows
  /\ items[k] = "published" => <<"item_inventory_snapshots", k>> \in db.rows
  /\ items[k] # "published" => \A t \in PayloadTables : <<t, k>> \notin db.rows

OfJob(k) ==
  /\ job[k] # "none" <=> <<"breeding_jobs", k>> \in db.rows
  /\ <<"breeding_plans", k>> \in db.rows => <<"breeding_jobs", k>> \in db.rows
  /\ <<"breeding_routes", k>> \in db.rows => <<"breeding_plans", k>> \in db.rows
  /\ k \in saved =>
       <<"breeding_routes", k>> \in db.rows /\ <<"saved_breeding_plans", k>> \in db.rows

OfCatalog(v) ==
  /\ version[v] \in {"none", "staging"} => \A t \in Members(RowsImported) : <<t,
       v>> \notin db.rows
  /\ version[v] # "none" => <<"game_data_versions", v>> \in db.rows
  /\ version[v] \in {"validated", "published"} => <<"catalog_items", v>> \in db.rows
  /\ version[v] = "published" => <<"breeding_data_versions", v>> \in db.rows

\* The world refers to what is published.
Pointing ==
  /\ \A k \in Tables!Of(db, Tables!LatestSnapshot) : k \in Snapshots /\ snapshot[k] = "published"
  /\ \A k \in Tables!Of(db, Tables!LatestItems) : k \in Snapshots /\ items[k] = "published"
  /\ \A v \in Tables!Of(db,
       Tables!ActiveVersion) : v \in StagedVersions /\ version[v] = "published"

\* No link hangs, the rows that every transaction relies on are there, and the
\* states of the snapshots and versions say which rows they have.
TablesInv ==
  /\ TablesTyping
  /\ Whole(db) /\ AlwaysThere \subseteq db.rows
  /\ \A k \in Snapshots : OfPals(k) /\ OfItems(k) /\ OfJob(k)
  /\ \A v \in StagedVersions : OfCatalog(v)
  /\ Pointing

\* The database as it is set up.
LEMMA TablesAtFirst ==
  ASSUME Tables!Init
  PROVE  TablesInv
  <1> DEFINE first == Tables!Database({<<"users", 1>>}, {}, {})
  <1>1. db = Tables!InsertAll(first, RowsFirst, Tables!Number(1, 1))
    BY DEF Tables!Init, RowsFirst
  <1>2. first.rows = {<<"users", 1>>} /\ first.links = {} /\ first.refused = {}
    BY DatabaseIs
  <1> HIDE DEF first
  <1>3. Whole(first)
    BY <1>2 DEF Whole, AllTables, Execution
  <1>4. Adds(first, db, {"profiles", "scoring_profiles", "worlds"} \X {1})
    BY <1>1, <1>2, <1>3, FirstAreAdded
  <1>5. Whole(db) /\ db.rows = {<<"users", 1>>} \cup ({"profiles", "scoring_profiles",
    "worlds"} \X {1})
    BY <1>2, <1>4 DEF Adds
  <1>6. Pointing
    <2>1. ASSUME NEW k
          PROVE  /\ <<"item_inventory_snapshots", k>> \notin db.rows
                 /\ <<"inventory_snapshots", k>> \notin db.rows
                 /\ <<"game_data_versions", k>> \notin db.rows
      BY <1>5
    <2>2. ASSUME NEW k
          PROVE  /\ k \notin Tables!Of(db, Tables!LatestItems)
                 /\ k \notin Tables!Of(db, Tables!LatestSnapshot)
                 /\ k \notin Tables!Of(db, Tables!ActiveVersion)
      BY <1>5, <2>1, ReferredIsThere
    <2> QED
      BY <2>2 DEF Pointing
  <1>7. TablesTyping
    BY DEF Tables!Init, TablesTyping
  <1>8. AlwaysThere \subseteq db.rows
    BY <1>5 DEF AlwaysThere
  <1>9. ASSUME NEW k \in Snapshots
        PROVE  OfPals(k) /\ OfItems(k) /\ OfJob(k)
    BY <1>5 DEF Tables!Init, OfPals, OfItems, OfJob, PayloadTables
  <1>10. ASSUME NEW v \in StagedVersions
         PROVE  OfCatalog(v)
    BY <1>5, ImportedMembers DEF Tables!Init, OfCatalog
  <1> QED
    BY <1>5, <1>6, <1>7, <1>8, <1>9, <1>10 DEF TablesInv

\* The steps of a catalog version, which is staged, completed and activated.
LEMMA StageKeepsTables ==
  ASSUME TablesInv, NEW v \in StagedVersions, Tables!Stage(v)
  PROVE  TablesInv'
  <1>1. Adds(db, db', {"game_data_versions", "game_data_import_runs",
    "game_data_import_batches"} \X {v})
    BY StagedAreAdded DEF Tables!Stage, RowsStaged, TablesInv
  <1>2. Within(db, db')
    BY <1>1, AddsWithin DEF TablesInv, AlwaysThere, Tables!World
  <1>3. TablesTyping'
    BY DEF TablesInv, TablesTyping, Tables!Stage
  <1>4. ASSUME NEW k \in Snapshots
        PROVE  OfPals(k)' /\ OfItems(k)' /\ OfJob(k)'
    BY <1>1 DEF TablesInv, Adds, OfPals, OfItems, OfJob, Tables!Stage, PayloadTables
  <1>5. ASSUME NEW w \in StagedVersions
        PROVE  OfCatalog(w)'
    BY <1>1, ImportedMembers DEF TablesInv, TablesTyping, Adds, OfCatalog, Tables!Stage
  <1>6. Pointing'
    BY <1>2 DEF TablesInv, TablesTyping, Pointing, Within, Tables!Stage
  <1> QED
    BY <1>1, <1>3, <1>4, <1>5, <1>6 DEF TablesInv, Adds

LEMMA FinalizeKeepsTables ==
  ASSUME TablesInv, NEW v \in StagedVersions, Tables!Finalize(v)
  PROVE  TablesInv'
  <1> DEFINE tidy == Tables!DeleteAll(db, Tables!Tidied, {v})
  <1>1. db' = Tables!InsertAll(tidy, RowsImported, Tables!Number(1, v))
    BY DEF Tables!Finalize, Tables!Imported, RowsImported
  <1>2. Members(Tables!Tidied) = Members(RowsImported) /\ Len(Tables!Tidied) \in Nat
    <2>1. /\ Len(Tables!Tidied) = 10
          /\ Members(Tables!Tidied) =
               {"catalog_item_recipe_ingredients", "catalog_item_recipes", "catalog_items",
                "catalog_pal_active_skills", "catalog_partner_skills",
                "catalog_breeding_recipes", "catalog_localizations", "catalog_passive_skills",
                "catalog_active_skills", "catalog_pals"}
      BY DEF Tables!Tidied, Members
    <2> QED
      BY <2>1, ImportedMembers
  <1>3. \A t \in Members(Tables!Tidied) : <<t, v>> \notin db.rows
    BY <1>2 DEF TablesInv, OfCatalog, Tables!Finalize
  <1>4. \A l \in db.links : l.to \notin Members(Tables!Tidied) \X {v}
    BY <1>3 DEF TablesInv, Whole
  <1>5. ChildrenFirst(db, Tables!Tidied, {v})
    BY <1>4 DEF ChildrenFirst, Members
  <1>6. Drops(db, tidy, Members(Tables!Tidied) \X {v})
    BY <1>2, <1>5, DeleteAllDrops DEF TablesInv
  <1>7. Whole(tidy) /\ tidy.rows = db.rows /\ Within(db, tidy)
    <2>1. \A r \in db.rows : r \notin Members(Tables!Tidied) \X {v}
      BY <1>3
    <2> HIDE DEF tidy
    <2>2. Whole(tidy) /\ tidy.links \subseteq db.links /\ tidy.rows \subseteq db.rows
      BY <1>6 DEF Drops
    <2>3. \A r \in db.rows : r \in tidy.rows
      BY <1>4, <1>6, <2>1 DEF Drops
    <2> QED
      BY <2>2, <2>3, FewerLinksWithin
  <1> HIDE DEF tidy
  <1>8. <<"game_data_versions", v>> \in db.rows
    BY DEF TablesInv, OfCatalog, Tables!Finalize
  <1>9. Adds(tidy, db', Members(RowsImported) \X {v})
    BY <1>1, <1>7, <1>8, ImportedAreAdded
  <1>10. Within(db, db')
    BY <1>7, <1>9, AddsWithin DEF TablesInv, AlwaysThere, Tables!World, Within
  <1>11. TablesTyping'
    BY DEF TablesInv, TablesTyping, Tables!Finalize
  <1>12. ASSUME NEW k \in Snapshots
         PROVE  OfPals(k)' /\ OfItems(k)' /\ OfJob(k)'
    BY <1>7, <1>9, ImportedMembers DEF TablesInv, Adds, OfPals, OfItems, OfJob, Tables!Finalize,
                                 PayloadTables
  <1>13. ASSUME NEW w \in StagedVersions
         PROVE  OfCatalog(w)'
    BY <1>7, <1>9, ImportedMembers DEF TablesInv, TablesTyping, Adds, OfCatalog, Tables!Finalize
  <1>14. Pointing'
    BY <1>10 DEF TablesInv, TablesTyping, Pointing, Within, Tables!Finalize
  <1> QED
    BY <1>7, <1>9, <1>11, <1>12, <1>13, <1>14 DEF TablesInv, Adds

LEMMA ActivateKeepsTables ==
  ASSUME TablesInv, NEW v \in StagedVersions, Tables!Activate(v)
  PROVE  TablesInv'
  <1> DEFINE copied == Tables!InsertAll(db, RowsCopied, Tables!Number(1, v))
             current == Tables!Update(copied, Tables!World, Tables!ActiveVersion,
                                     {<<"game_data_versions", v>>})
  <1>1. db' = Tables!Update(current, Tables!World, ActiveRecipes, {<<"breeding_data_versions",
    v>>})
    BY DEF Tables!Activate, RowsCopied, ActiveRecipes
  <1>2. Adds(db, copied, Members(RowsCopied) \X {v})
    BY CopiedAreAdded DEF TablesInv
  <1>3. /\ Whole(copied) /\ Tables!World \in copied.rows /\ Within(db, copied)
        /\ <<"game_data_versions", v>> \in copied.rows
        /\ <<"breeding_data_versions", v>> \in copied.rows
        /\ copied.rows = db.rows \cup (Members(RowsCopied) \X {v})
    BY <1>2, AddsWithin, CopiedMembers DEF TablesInv, Adds, AlwaysThere, Tables!World, OfCatalog,
                                     Tables!Activate
  <1>4. /\ Keyed([from |-> Tables!World, by |-> Tables!ActiveVersion,
                  to |-> <<"game_data_versions", v>>])
        /\ Keyed([from |-> Tables!World, by |-> ActiveRecipes,
                  to |-> <<"breeding_data_versions", v>>])
    BY UpdatedKeys DEF Keyed, Tables!World, Tables!OfSnapshot
  <1> HIDE DEF copied
  <1>5. /\ Whole(current) /\ current.rows = copied.rows
        /\ Tables!Of(current, Tables!ActiveVersion) \subseteq {v}
        /\ \A b : b # Tables!ActiveVersion => Tables!Of(current, b) \subseteq Tables!Of(copied, b)
    BY <1>3, <1>4, UpdateIs
  <1> HIDE DEF current
  <1>6. /\ Whole(db') /\ db'.rows = current.rows
        /\ \A b : b # ActiveRecipes => Tables!Of(db', b) \subseteq Tables!Of(current, b)
    BY <1>1, <1>3, <1>4, <1>5, UpdateIs
  <1>7. /\ Tables!Of(db', Tables!ActiveVersion) \subseteq {v}
        /\ Tables!Of(db', Tables!LatestItems) \subseteq Tables!Of(db, Tables!LatestItems)
        /\ Tables!Of(db', Tables!LatestSnapshot) \subseteq Tables!Of(db, Tables!LatestSnapshot)
    <2>1. /\ Tables!LatestItems # Tables!ActiveVersion /\ Tables!LatestItems # ActiveRecipes
          /\ Tables!LatestSnapshot # Tables!ActiveVersion /\ Tables!LatestSnapshot # ActiveRecipes
          /\ ActiveRecipes # Tables!ActiveVersion
      BY DEF Tables!LatestItems, Tables!LatestSnapshot, Tables!ActiveVersion, ActiveRecipes
    <2> QED
      BY <1>3, <1>5, <1>6, <2>1 DEF Within
  <1>12. db'.rows = db.rows \cup ({"breeding_data_versions", "breeding_recipes"} \X {v})
    BY <1>3, <1>5, <1>6, CopiedMembers
  <1>8. TablesTyping'
    BY DEF TablesInv, TablesTyping, Tables!Activate
  <1>9. ASSUME NEW k \in Snapshots
        PROVE  OfPals(k)' /\ OfItems(k)' /\ OfJob(k)'
    BY <1>12 DEF TablesInv, OfPals, OfItems, OfJob, Tables!Activate, PayloadTables
  <1>10. ASSUME NEW w \in StagedVersions
         PROVE  OfCatalog(w)'
    BY <1>12, ImportedMembers DEF TablesInv, TablesTyping, OfCatalog, Tables!Activate
  <1>11. Pointing'
    BY <1>7 DEF TablesInv, TablesTyping, Pointing, Tables!Activate
  <1> QED
    BY <1>3, <1>5, <1>6, <1>8, <1>9, <1>10, <1>11 DEF TablesInv

\* What a second publication of items derives again.
Derived == <<"item_inventory_recipe_capacities", "item_inventory_base_totals",
             "item_inventory_totals">>

\* The rows that matter are the same, but for those of some tables and one snapshot.
AlikeBut(d, e, tables, k) ==
  \A r : r[1] \notin Minor /\ r \notin tables \X {k} => (r \in e.rows <=> r \in d.rows)

\* The second publication of items: what was derived from the first is deleted
\* and inserted again, and the rows that matter are the same in the end.
LEMMA ItemsInsertedIs ==
  ASSUME NEW d, Whole(d), NEW k, NEW v, Tables!World \in d.rows, <<"guilds", 1>> \in d.rows,
         <<"inventory_snapshots", k>> \in d.rows, <<"game_data_versions", v>> \in d.rows,
         <<"catalog_items", v>> \in d.rows
  PROVE  LET e == Tables!ItemsInserted(d, k, Tables!Number(k, v))
         IN /\ Whole(e) /\ Within(d, e) /\ AlikeBut(d, e, ItemTables, k)
            /\ <<"item_inventory_snapshots", k>> \in e.rows
  <1> DEFINE number == Tables!Number(k, v)
             first == Tables!InsertAll(d, RowsItems, number)
             fewer == Tables!DeleteAll(first, Derived, {k})
             e == Tables!InsertAll(fewer, RowsAgain, number)
  <1>1. Tables!ItemsInserted(d, k, number) = e
    BY DEF Tables!ItemsInserted, Derived, RowsItems, RowsAgain
  <1>2. Adds(d, first, (ItemTables \X {k})
                \cup ({"item_inventory_hourly_rollups", "item_inventory_daily_rollups"} \X {1}))
    BY ItemsAreAdded DEF Tables!World
  <1> HIDE DEF first
  <1>3. Whole(first) /\ Within(d, first) /\ AlikeBut(d, first, ItemTables, k)
    <2>1. Within(d, first)
      BY <1>2, AddsWithin
    <2>2. AlikeBut(d, first, ItemTables, k)
      BY <1>2 DEF AlikeBut, Adds, Minor
    <2> QED
      BY <1>2, <2>1, <2>2 DEF Adds
  <1>4. /\ <<"item_inventory_snapshots", k>> \in first.rows
        /\ <<"item_inventory_bases", k>> \in first.rows
        /\ <<"guilds", 1>> \in first.rows /\ Tables!World \in first.rows
    BY <1>2 DEF Adds, ItemTables
  <1>5. /\ Len(Derived) = 3
        /\ Members(Derived) = {"item_inventory_recipe_capacities", "item_inventory_base_totals",
                               "item_inventory_totals"}
    BY DEF Derived, Members
  <1>6. Less(first, fewer, Members(Derived) \X {k})
    BY <1>3, <1>5, LeavesDrop DEF Leaves
  <1> HIDE DEF fewer
  <1>7. /\ Whole(fewer) /\ Within(first, fewer) /\ AlikeBut(first, fewer, ItemTables, k)
        /\ <<"item_inventory_snapshots", k>> \in fewer.rows
        /\ <<"item_inventory_bases", k>> \in fewer.rows
        /\ <<"guilds", 1>> \in fewer.rows /\ Tables!World \in fewer.rows
    <2>1. AlikeBut(first, fewer, ItemTables, k)
      BY <1>5, <1>6 DEF AlikeBut, Less, ItemTables
    <2> QED
      BY <1>4, <1>5, <1>6, <2>1, FewerLinksWithin DEF Less, Tables!World
  <1>8. Adds(fewer, e, {"item_inventory_totals", "item_inventory_base_totals"} \X {k})
    BY <1>7, AgainAreAdded
  <1> HIDE DEF e
  <1>9. /\ Whole(e) /\ Within(fewer, e) /\ AlikeBut(fewer, e, ItemTables, k)
        /\ <<"item_inventory_snapshots", k>> \in e.rows
    <2>1. AlikeBut(fewer, e, ItemTables, k)
      BY <1>8 DEF AlikeBut, Adds, ItemTables
    <2> QED
      BY <1>7, <1>8, <2>1, AddsWithin DEF Adds
  <1>10. Within(d, e)
    BY <1>3, <1>7, <1>9 DEF Within
  <1>11. AlikeBut(d, e, ItemTables, k)
    BY <1>3, <1>7, <1>9 DEF AlikeBut
  <1> QED
    BY <1>1, <1>9, <1>10, <1>11 DEF e

\* The world refers to what was published last, when it does.
LEMMA LatestIs ==
  ASSUME NEW d, Whole(d), Tables!World \in d.rows, NEW k, NEW withItems \in BOOLEAN,
         <<"inventory_snapshots", k>> \in d.rows,
         withItems => <<"item_inventory_snapshots", k>> \in d.rows /\ <<"guilds", 1>> \in d.rows
  PROVE  LET e == Tables!Latest(d, k, withItems)
         IN /\ Whole(e) /\ Alike(d, e)
            /\ Tables!Of(e, Tables!LatestSnapshot) \subseteq {k}
            /\ withItems => Tables!Of(e, Tables!LatestItems) \subseteq {k}
            /\ ~withItems =>
                 Tables!Of(e, Tables!LatestItems) \subseteq Tables!Of(d, Tables!LatestItems)
            /\ Tables!Of(e, Tables!ActiveVersion) \subseteq Tables!Of(d, Tables!ActiveVersion)
  <1> DEFINE pals == Tables!Update(d, Tables!World, Tables!LatestSnapshot,
                                   {<<"inventory_snapshots", k>>})
             both == Tables!Update(pals, Tables!World, Tables!LatestItems,
                                   {<<"item_inventory_snapshots", k>>})
             e == Tables!Sampled(both)
  <1>1. /\ Tables!LatestItems # Tables!LatestSnapshot /\ Tables!LatestItems # Tables!ActiveVersion
        /\ Tables!LatestSnapshot # Tables!ActiveVersion
    BY DEF Tables!LatestItems, Tables!LatestSnapshot, Tables!ActiveVersion
  <1>2. /\ Keyed([from |-> Tables!World, by |-> Tables!LatestSnapshot,
                  to |-> <<"inventory_snapshots", k>>])
        /\ Keyed([from |-> Tables!World, by |-> Tables!LatestItems,
                  to |-> <<"item_inventory_snapshots", k>>])
    BY UpdatedKeys DEF Keyed, Tables!World, Tables!OfSnapshot
  <1>3. /\ Whole(pals) /\ pals.rows = d.rows
        /\ Tables!Of(pals, Tables!LatestSnapshot) \subseteq {k}
        /\ \A b : b # Tables!LatestSnapshot => Tables!Of(pals, b) \subseteq Tables!Of(d, b)
    BY <1>2, UpdateIs
  <1> HIDE DEF pals
  <1>4. CASE ~withItems
    <2>1. Tables!Latest(d, k, withItems) = pals
      BY <1>4 DEF Tables!Latest, pals
    <2> QED
      BY <1>1, <1>3, <1>4, <2>1 DEF Alike
  <1>5. CASE withItems
    <2>1. Tables!Latest(d, k, withItems) = e
      BY <1>5 DEF Tables!Latest, pals
    <2>2. /\ Whole(both) /\ both.rows = d.rows
          /\ Tables!Of(both, Tables!LatestItems) \subseteq {k}
          /\ \A b : b # Tables!LatestItems => Tables!Of(both, b) \subseteq Tables!Of(pals, b)
      BY <1>2, <1>3, <1>5, UpdateIs
    <2> HIDE DEF both
    <2>3. Whole(e) /\ Within(both, e) /\ Alike(both, e)
      BY <1>5, <2>2, SampledIs
    <2> HIDE DEF e
    <2> QED
      BY <1>1, <1>3, <1>5, <2>1, <2>2, <2>3 DEF Alike, Within
  <1> QED
    BY <1>4, <1>5

\* A publication inserts the rows of a snapshot, its items, and points the world at them.
LEMMA PublishKeepsTables ==
  ASSUME TablesInv, NEW k \in Snapshots, NEW withItems \in BOOLEAN, Tables!Publish(k, withItems)
  PROVE  TablesInv'
  <1> DEFINE v == IF withItems THEN CHOOSE w \in Tables!Of(db, Tables!ActiveVersion) : TRUE ELSE 1
             number == Tables!Number(k, v)
             pals == Tables!InsertAll(db, RowsPals, number)
             both == IF withItems THEN Tables!ItemsInserted(pals, k, number) ELSE pals
  <1>1. /\ db' = Tables!Latest(both, k, withItems) /\ snapshot[k] = "none"
        /\ withItems => Tables!Of(db, Tables!ActiveVersion) # {}
        /\ snapshot' = [snapshot EXCEPT ![k] = "published"]
        /\ items' = [items EXCEPT ![k] = IF withItems THEN "published" ELSE @]
        /\ UNCHANGED <<version, job, saved>>
    BY DEF Tables!Publish, Tables!PalsInserted, RowsPals
  <1>2. withItems => <<"game_data_versions", v>> \in db.rows /\ <<"catalog_items", v>> \in db.rows
    BY <1>1 DEF TablesInv, Pointing, OfCatalog
  <1> HIDE DEF v
  <1>3. Adds(db, pals, ({"inventory_snapshots", "pal_snapshot_items"} \X {k})
                \cup ({"guilds", "players", "pal_instance_lifecycle",
                  "pal_share_preferences"} \X {1}))
    BY PalsAreAdded DEF TablesInv, AlwaysThere
  <1> HIDE DEF pals
  <1>4. /\ Whole(pals) /\ Within(db, pals) /\ Tables!World \in pals.rows
        /\ <<"guilds", 1>> \in pals.rows /\ <<"inventory_snapshots", k>> \in pals.rows
        /\ db.rows \subseteq pals.rows
    BY <1>3, AddsWithin DEF Adds, TablesInv, AlwaysThere, Tables!World
  <1>5. /\ Whole(both) /\ Within(pals, both) /\ AlikeBut(pals, both, ItemTables, k)
        /\ withItems => <<"item_inventory_snapshots", k>> \in both.rows
        /\ ~withItems => both = pals
    <2>1. CASE withItems
      BY <1>2, <1>4, <2>1, ItemsInsertedIs
    <2>2. CASE ~withItems
      BY <1>4, <2>2 DEF Within, AlikeBut
    <2> QED
      BY <2>1, <2>2
  <1> HIDE DEF both
  <1>6. /\ Tables!World \in both.rows /\ <<"guilds", 1>> \in both.rows
        /\ <<"inventory_snapshots", k>> \in both.rows
    BY <1>4, <1>5 DEF AlikeBut, ItemTables, Minor, Tables!World, Samples, SampleTotals
  <1>7. /\ Whole(db') /\ Alike(both, db')
        /\ Tables!Of(db', Tables!LatestSnapshot) \subseteq {k}
        /\ withItems => Tables!Of(db', Tables!LatestItems) \subseteq {k}
        /\ ~withItems =>
             Tables!Of(db', Tables!LatestItems) \subseteq Tables!Of(both, Tables!LatestItems)
        /\ Tables!Of(db', Tables!ActiveVersion) \subseteq Tables!Of(both, Tables!ActiveVersion)
    BY <1>1, <1>5, <1>6, LatestIs
  <1> DEFINE new == ({"inventory_snapshots", "pal_snapshot_items"} \X {k})
                      \cup ({"guilds", "players", "pal_instance_lifecycle",
                             "pal_share_preferences"} \X {1})
  <1>8. /\ \A r : r[1] \notin Minor /\ r \notin ItemTables \X {k} =>
             (r \in db'.rows <=> r \in db.rows \cup new)
        /\ withItems => <<"item_inventory_snapshots", k>> \in db'.rows
        /\ ~withItems => \A r : r[1] \notin Minor => (r \in db'.rows <=> r \in db.rows \cup new)
    <2> HIDE DEF new
    <2>1. pals.rows = db.rows \cup new
      BY <1>3 DEF Adds, new
    <2>2. <<"item_inventory_snapshots", k>>[1] \notin Minor
      BY DEF Minor, Samples, SampleTotals
    <2> QED
      BY <1>5, <1>7, <2>1, <2>2 DEF Alike, AlikeBut
  <1>9. TablesTyping'
    BY <1>1 DEF TablesInv, TablesTyping
  <1>10. ASSUME NEW j \in Snapshots
         PROVE  OfPals(j)'
    BY <1>1, <1>8 DEF TablesInv, TablesTyping, OfPals, Minor, ItemTables, Samples, SampleTotals
  <1>11. ASSUME NEW j \in Snapshots
         PROVE  OfItems(j)'
    <2>1. items[k] = "none"
      BY <1>1 DEF TablesInv, TablesTyping, OfPals
    <2>2. ASSUME NEW t \in ItemTables, NEW n, n # k \/ ~withItems
          PROVE  <<t, n>> \in db'.rows <=> <<t, n>> \in db.rows
      <3>1. t \notin Minor /\ <<t, n>> \notin new
        BY DEF Minor, ItemTables, Samples, SampleTotals
      <3> HIDE DEF new
      <3> QED
        BY <1>8, <2>2, <3>1
    <2>3. PayloadTables \subseteq ItemTables /\ "item_inventory_snapshots" \in ItemTables
      BY DEF PayloadTables, ItemTables
    <2>4. OfItems(j)
      BY DEF TablesInv
    <2> HIDE DEF new
    <2>5. CASE withItems /\ j = k
      BY <1>1, <1>8, <2>5 DEF TablesInv, TablesTyping, OfItems
    <2>6. CASE j # k \/ ~withItems
      <3>1. items'[j] = items[j]
        BY <1>1, <2>6 DEF TablesInv, TablesTyping
      <3>2. \A t \in ItemTables : <<t, j>> \in db'.rows <=> <<t, j>> \in db.rows
        BY <2>2, <2>6
      <3> QED
        BY <2>3, <2>4, <3>1, <3>2 DEF OfItems
    <2> QED
      BY <2>5, <2>6
  <1>12. ASSUME NEW j \in Snapshots
         PROVE  OfJob(j)'
    BY <1>1, <1>8 DEF TablesInv, TablesTyping, OfJob, Minor, ItemTables, Samples, SampleTotals
  <1>13. ASSUME NEW w \in StagedVersions
         PROVE  OfCatalog(w)'
    <2>1. ASSUME NEW t \in Members(RowsImported)
                          \cup {"game_data_versions", "breeding_data_versions"}
          PROVE  <<t, w>> \in db'.rows <=> <<t, w>> \in db.rows
      <3>1. t \notin Minor \cup ItemTables /\ <<t, w>> \notin new
        BY ImportedMembers DEF Minor, ItemTables, Samples, SampleTotals
      <3> HIDE DEF new
      <3> QED
        BY <1>8, <3>1
    <2>2. "catalog_items" \in Members(RowsImported)
      BY ImportedMembers
    <2> QED
      BY <1>1, <2>1, <2>2 DEF TablesInv, OfCatalog
  <1>14. Pointing'
    BY <1>1, <1>4, <1>5, <1>7 DEF TablesInv, TablesTyping, Pointing, Within
  <1>15. (AlwaysThere \subseteq db.rows)'
    BY <1>8 DEF TablesInv, AlwaysThere, Minor, ItemTables, Samples, SampleTotals
  <1> QED
    BY <1>7, <1>9, <1>10, <1>11, <1>12, <1>13, <1>14, <1>15 DEF TablesInv

\* Steps that change no row that matters and no status.
LEMMA AlikeKeepsTables ==
  ASSUME TablesInv, UNCHANGED <<snapshot, items, version, job, saved>>, Whole(db'),
         Alike(db, db'), Pointing'
  PROVE  TablesInv'
  <1>1. TablesTyping'
    BY DEF TablesInv, TablesTyping
  <1>2. ASSUME NEW j \in Snapshots
        PROVE  OfPals(j)' /\ OfItems(j)' /\ OfJob(j)'
    BY DEF TablesInv, TablesTyping, OfPals, OfItems, OfJob, Minor, PayloadTables, Samples,
           SampleTotals, Alike
  <1>3. ASSUME NEW w \in StagedVersions
        PROVE  OfCatalog(w)'
    BY ImportedMembers DEF TablesInv, TablesTyping, OfCatalog, Minor, Samples, SampleTotals, Alike
  <1>4. (AlwaysThere \subseteq db.rows)'
    BY DEF TablesInv, AlwaysThere, Minor, Samples, SampleTotals, Alike
  <1> QED
    BY <1>1, <1>2, <1>3, <1>4 DEF TablesInv

\* Items that are published again, samples, and a snapshot that is rejected.
LEMMA AgainKeepsTables ==
  ASSUME TablesInv, NEW k \in Snapshots, Tables!PublishAgain(k)
  PROVE  TablesInv'
  <1> DEFINE withItems == items[k] = "published"
  <1>1. /\ db' = Tables!Latest(db, k, withItems) /\ snapshot[k] = "published"
        /\ UNCHANGED <<snapshot, items, version, job, saved>>
    BY DEF Tables!PublishAgain
  <1>2. /\ Tables!World \in db.rows /\ <<"inventory_snapshots", k>> \in db.rows
        /\ withItems => <<"item_inventory_snapshots", k>> \in db.rows /\ <<"guilds",
             1>> \in db.rows
    BY <1>1 DEF TablesInv, OfPals, OfItems, AlwaysThere, Tables!World
  <1>3. withItems \in BOOLEAN /\ (withItems <=> items[k] = "published")
    OBVIOUS
  <1> HIDE DEF withItems
  <1>4. /\ Whole(db') /\ Alike(db, db')
        /\ Tables!Of(db', Tables!LatestSnapshot) \subseteq {k}
        /\ withItems => Tables!Of(db', Tables!LatestItems) \subseteq {k}
        /\ ~withItems =>
             Tables!Of(db', Tables!LatestItems) \subseteq Tables!Of(db, Tables!LatestItems)
        /\ Tables!Of(db', Tables!ActiveVersion) \subseteq Tables!Of(db, Tables!ActiveVersion)
    BY <1>1, <1>2, <1>3, LatestIs DEF TablesInv
  <1>5. Pointing'
    BY <1>1, <1>3, <1>4 DEF TablesInv, Pointing
  <1> QED
    BY <1>1, <1>4, <1>5, AlikeKeepsTables

LEMMA SampleKeepsTables ==
  ASSUME TablesInv, Tables!Sample
  PROVE  TablesInv'
  <1>1. db' = Tables!Sampled(db) /\ UNCHANGED <<snapshot, items, version, job, saved>>
    BY DEF Tables!Sample
  <1>2. Tables!World \in db.rows
    BY DEF TablesInv, AlwaysThere, Tables!World
  <1>3. Tables!Of(db, Tables!LatestItems) # {} => <<"guilds", 1>> \in db.rows
    BY DEF TablesInv, Pointing, OfPals
  <1>4. Whole(db') /\ Within(db, db') /\ Alike(db, db')
    BY <1>1, <1>2, <1>3, SampledIs DEF TablesInv
  <1>5. Pointing'
    BY <1>1, <1>4 DEF TablesInv, Pointing, Within
  <1> QED
    BY <1>1, <1>4, <1>5, AlikeKeepsTables

LEMMA RejectKeepsTables ==
  ASSUME TablesInv, NEW k \in Snapshots, Tables!Reject(k)
  PROVE  TablesInv'
  <1> DEFINE number == Tables!Number(k, 1)
  <1>1. /\ db' = Tables!Insert(db, "inventory_snapshots", number) /\ snapshot[k] = "none"
        /\ snapshot' = [snapshot EXCEPT ![k] = "failed"] /\ UNCHANGED <<items, version, job,
             saved>>
    BY DEF Tables!Reject
  <1>2. number["inventory_snapshots"] = k /\ number["worlds"] = 1
    BY NumberIs DEF AllTables, Level0, Level1, Tables!OfSnapshot, Tables!OfVersion
  <1>3. \A s \in Tables!Required("inventory_snapshots") : <<s, number[s]>> \in db.rows
    BY <1>2, RequiredAre DEF TablesInv, AlwaysThere
  <1>4. Adds(db, db', {<<"inventory_snapshots", k>>})
    <2>1. "inventory_snapshots" \in Tables!Names \ Execution
      BY TablesAre DEF AllTables, Level1, Execution
    <2> QED
      BY <1>1, <1>2, <1>3, <2>1, InsertAdds DEF TablesInv
  <1>5. Within(db, db')
    BY <1>4, AddsWithin DEF TablesInv, AlwaysThere, Tables!World
  <1>6. TablesTyping'
    BY <1>1 DEF TablesInv, TablesTyping
  <1>7. ASSUME NEW j \in Snapshots
        PROVE  OfPals(j)' /\ OfItems(j)' /\ OfJob(j)'
    BY <1>1, <1>4 DEF TablesInv, TablesTyping, Adds, OfPals, OfItems, OfJob, PayloadTables
  <1>8. ASSUME NEW w \in StagedVersions
        PROVE  OfCatalog(w)'
    BY <1>1, <1>4, ImportedMembers DEF TablesInv, TablesTyping, Adds, OfCatalog
  <1>9. Pointing'
    BY <1>1, <1>5 DEF TablesInv, TablesTyping, Pointing, Within
  <1> QED
    BY <1>4, <1>6, <1>7, <1>8, <1>9 DEF TablesInv, Adds

\* The rows of a job have the number of its snapshot.
LEMMA JobNumbers ==
  ASSUME NEW k, NEW v
  PROVE  LET number == Tables!Number(k, v)
         IN /\ number["breeding_jobs"] = k /\ number["breeding_plans"] = k
            /\ number["breeding_routes"] = k /\ number["saved_breeding_plans"] = k
            /\ number["inventory_snapshots"] = k
            /\ number["breeding_data_versions"] = v /\ number["game_data_versions"] = v
            /\ number["players"] = 1 /\ number["users"] = 1 /\ number["scoring_profiles"] = 1
            /\ number["worlds"] = 1
BY NumberIs DEF AllTables, Level0, Level1, Level2, Level3, Level4, Level5, Tables!OfSnapshot,
                Tables!OfVersion

\* They are rows of the schema, and of no table of the execution of plans.
LEMMA JobTablesAre ==
  {"breeding_jobs", "breeding_plans", "breeding_routes", "saved_breeding_plans"}
    \subseteq Tables!Names \ Execution
BY TablesAre DEF AllTables, Level2, Level3, Level4, Level5, Execution

\* The steps of a job, which is created, persisted, completed and saved.
LEMMA CreateKeepsTables ==
  ASSUME TablesInv, NEW k \in Snapshots, Tables!CreateJob(k)
  PROVE  TablesInv'
  <1>1. PICK v \in Tables!Of(db, Tables!ActiveVersion) :
          db' = Tables!Insert(db, "breeding_jobs", Tables!Number(k, v))
    BY DEF Tables!CreateJob
  <1>2. /\ job[k] = "none" /\ k \in Tables!Of(db, Tables!LatestSnapshot)
        /\ job' = [job EXCEPT ![k] = "processing"]
        /\ UNCHANGED <<snapshot, items, version, saved>>
    BY DEF Tables!CreateJob
  <1>3. snapshot[k] = "published" /\ v \in StagedVersions /\ version[v] = "published"
    BY <1>1, <1>2 DEF TablesInv, Pointing
  <1>4. /\ <<"breeding_data_versions", v>> \in db.rows /\ <<"game_data_versions", v>> \in db.rows
        /\ <<"players", 1>> \in db.rows /\ <<"inventory_snapshots", k>> \in db.rows
    BY <1>3 DEF TablesInv, OfCatalog, OfPals
  <1> DEFINE number == Tables!Number(k, v)
  <1>5. \A s \in Tables!Required("breeding_jobs") : <<s, number[s]>> \in db.rows
    BY <1>4, JobNumbers, RequiredAre DEF TablesInv, AlwaysThere
  <1>6. Adds(db, db', {<<"breeding_jobs", k>>})
    <2>1. number["breeding_jobs"] = k
      BY JobNumbers
    <2> QED
      BY <1>1, <1>5, <2>1, JobTablesAre, InsertAdds DEF TablesInv
  <1>7. Within(db, db')
    BY <1>6, AddsWithin DEF TablesInv, AlwaysThere, Tables!World
  <1>8. TablesTyping'
    BY <1>2 DEF TablesInv, TablesTyping
  <1>9. ASSUME NEW j \in Snapshots
        PROVE  OfPals(j)' /\ OfItems(j)' /\ OfJob(j)'
    BY <1>2, <1>3, <1>6 DEF TablesInv, TablesTyping, Adds, OfPals, OfItems, OfJob, PayloadTables
  <1>10. ASSUME NEW w \in StagedVersions
         PROVE  OfCatalog(w)'
    BY <1>2, <1>6, ImportedMembers DEF TablesInv, TablesTyping, Adds, OfCatalog
  <1>11. Pointing'
    BY <1>2, <1>7 DEF TablesInv, TablesTyping, Pointing, Within
  <1> QED
    BY <1>6, <1>8, <1>9, <1>10, <1>11 DEF TablesInv, Adds

LEMMA PersistKeepsTables ==
  ASSUME TablesInv, NEW k \in Snapshots, Tables!Persist(k)
  PROVE  TablesInv'
  <1> DEFINE number == Tables!Number(k, 1)
             plan == Tables!Insert(db, "breeding_plans", number)
             none == Tables!Update(plan, Tables!Plan(k), Tables!Recommended, {})
             routes == Tables!Insert(none, "breeding_routes", number)
  <1>1. /\ job[k] \in {"processing", "algorithm_completed"}
        /\ db' = Tables!Update(routes, Tables!Plan(k), Tables!Recommended, {<<"breeding_routes",
             k>>})
        /\ job' = [job EXCEPT ![k] = "algorithm_completed"]
        /\ UNCHANGED <<snapshot, items, version, saved>>
    BY DEF Tables!Persist
  <1>2. number["breeding_plans"] = k /\ number["breeding_routes"] = k /\ number["breeding_jobs"] = k
    BY JobNumbers
  <1>3. Adds(db, plan, {<<"breeding_plans", k>>})
    <2>1. <<"breeding_jobs", k>> \in db.rows
      BY <1>1 DEF TablesInv, OfJob
    <2>2. Tables!Required("breeding_plans") = {"breeding_jobs"}
      BY RequiredAre
    <2>3. \A s \in Tables!Required("breeding_plans") : <<s, number[s]>> \in db.rows
      BY <1>2, <2>1, <2>2
    <2> QED
      BY <1>2, <2>3, JobTablesAre, InsertAdds DEF TablesInv
  <1>4. Tables!Plan(k) = <<"breeding_plans", k>> /\ Tables!Plan(k) # Tables!World
    BY DEF Tables!Plan, Tables!World
  <1> HIDE DEF plan
  <1>5. Whole(none) /\ none.rows = plan.rows /\ Within(plan, none)
    BY <1>3, <1>4, UpdateIs DEF Adds
  <1> HIDE DEF none
  <1>6. Adds(none, routes, {<<"breeding_routes", k>>})
    <2>1. \A s \in Tables!Required("breeding_routes") : <<s, number[s]>> \in none.rows
      BY <1>2, <1>3, <1>5, RequiredAre DEF Adds
    <2> QED
      BY <1>2, <1>5, <2>1, JobTablesAre, InsertAdds
  <1> HIDE DEF routes
  <1>7. Keyed([from |-> Tables!Plan(k), by |-> Tables!Recommended, to |-> <<"breeding_routes",
    k>>])
    BY <1>4, UpdatedKeys DEF Keyed
  <1>8. /\ Whole(routes) /\ <<"breeding_routes", k>> \in routes.rows
        /\ Tables!Plan(k) \in routes.rows
    BY <1>3, <1>4, <1>5, <1>6 DEF Adds
  <1>9. Whole(db') /\ db'.rows = routes.rows /\ Within(routes, db')
    BY <1>1, <1>4, <1>7, <1>8, UpdateIs
  <1>10. db'.rows = db.rows \cup {<<"breeding_plans", k>>, <<"breeding_routes", k>>}
    BY <1>3, <1>5, <1>6, <1>9 DEF Adds
  <1>11. Within(db, db')
    <2>1. Tables!World \in db.rows /\ Tables!World \in none.rows
      BY <1>3, <1>5 DEF TablesInv, AlwaysThere, Tables!World, Adds
    <2>2. Within(db, plan) /\ Within(none, routes)
      BY <1>3, <1>6, <2>1, AddsWithin
    <2> QED
      BY <1>5, <1>9, <2>2 DEF Within
  <1>12. TablesTyping'
    BY <1>1 DEF TablesInv, TablesTyping
  <1>13. ASSUME NEW j \in Snapshots
         PROVE  OfPals(j)' /\ OfItems(j)' /\ OfJob(j)'
    BY <1>1, <1>10 DEF TablesInv, TablesTyping, OfPals, OfItems, OfJob, PayloadTables
  <1>14. ASSUME NEW w \in StagedVersions
         PROVE  OfCatalog(w)'
    BY <1>1, <1>10, ImportedMembers DEF TablesInv, TablesTyping, OfCatalog
  <1>15. Pointing'
    BY <1>1, <1>11 DEF TablesInv, TablesTyping, Pointing, Within
  <1> QED
    BY <1>9, <1>10, <1>12, <1>13, <1>14, <1>15 DEF TablesInv

LEMMA CompleteKeepsTables ==
  ASSUME TablesInv, NEW k \in Snapshots, Tables!Complete(k)
  PROVE  TablesInv'
  <1>1. TablesTyping'
    BY DEF TablesInv, TablesTyping, Tables!Complete
  <1>2. ASSUME NEW j \in Snapshots
        PROVE  OfPals(j)' /\ OfItems(j)' /\ OfJob(j)'
    BY DEF TablesInv, TablesTyping, OfPals, OfItems, OfJob, Tables!Complete
  <1>3. Pointing' /\ \A w \in StagedVersions : OfCatalog(w)'
    BY DEF TablesInv, Pointing, OfCatalog, Tables!Complete
  <1> QED
    BY <1>1, <1>2, <1>3 DEF TablesInv, Tables!Complete

LEMMA SaveKeepsTables ==
  ASSUME TablesInv, NEW k \in Snapshots, Tables!SavePlan(k)
  PROVE  TablesInv'
  <1> DEFINE number == Tables!Number(k, 1)
  <1>1. /\ <<"breeding_routes", k>> \in db.rows
        /\ db' = Tables!Insert(db, "saved_breeding_plans", number)
        /\ saved' = saved \cup {k} /\ UNCHANGED <<snapshot, items, version, job>>
    BY DEF Tables!SavePlan
  <1>2. \A s \in Tables!Required("saved_breeding_plans") : <<s, number[s]>> \in db.rows
    BY <1>1, JobNumbers, RequiredAre DEF TablesInv, AlwaysThere
  <1>3. Adds(db, db', {<<"saved_breeding_plans", k>>})
    <2>1. number["saved_breeding_plans"] = k
      BY JobNumbers
    <2> QED
      BY <1>1, <1>2, <2>1, JobTablesAre, InsertAdds DEF TablesInv
  <1>4. Within(db, db')
    BY <1>3, AddsWithin DEF TablesInv, AlwaysThere, Tables!World
  <1>5. TablesTyping'
    BY <1>1 DEF TablesInv, TablesTyping
  <1>6. ASSUME NEW j \in Snapshots
        PROVE  OfPals(j)' /\ OfItems(j)' /\ OfJob(j)'
    BY <1>1, <1>3 DEF TablesInv, TablesTyping, Adds, OfPals, OfItems, OfJob, PayloadTables
  <1>7. ASSUME NEW w \in StagedVersions
        PROVE  OfCatalog(w)'
    BY <1>1, <1>3, ImportedMembers DEF TablesInv, TablesTyping, Adds, OfCatalog
  <1>8. Pointing'
    BY <1>1, <1>4 DEF TablesInv, TablesTyping, Pointing, Within
  <1> QED
    BY <1>3, <1>5, <1>6, <1>7, <1>8 DEF TablesInv, Adds

LEMMA RemoveKeepsTables ==
  ASSUME TablesInv, NEW k \in Snapshots, Tables!RemovePlan(k)
  PROVE  TablesInv'
  <1>1. /\ db' = Tables!Delete(db, "saved_breeding_plans", {k})
        /\ saved' = saved \ {k} /\ UNCHANGED <<snapshot, items, version, job>>
    BY DEF Tables!RemovePlan
  <1>2. Less(db, db', {"saved_breeding_plans"} \X {k})
    BY <1>1, LeafDrops DEF TablesInv, Leaves
  <1>3. Within(db, db')
    BY <1>2, FewerLinksWithin DEF Less
  <1>4. TablesTyping'
    BY <1>1 DEF TablesInv, TablesTyping
  <1>5. ASSUME NEW j \in Snapshots
        PROVE  OfPals(j)' /\ OfItems(j)' /\ OfJob(j)'
    BY <1>1, <1>2 DEF TablesInv, TablesTyping, Less, OfPals, OfItems, OfJob, PayloadTables
  <1>6. ASSUME NEW w \in StagedVersions
        PROVE  OfCatalog(w)'
    BY <1>1, <1>2, ImportedMembers DEF TablesInv, TablesTyping, Less, OfCatalog
  <1>7. Pointing'
    BY <1>1, <1>3 DEF TablesInv, TablesTyping, Pointing, Within
  <1>8. (AlwaysThere \subseteq db.rows)'
    BY <1>2 DEF TablesInv, AlwaysThere, Less
  <1> QED
    BY <1>2, <1>4, <1>5, <1>6, <1>7, <1>8 DEF TablesInv, Less

\* The retention, which takes the rows of any snapshots that are not the latest,
\* in its order, and any part of the old buckets.
LEMMA CleanUpKeepsTables ==
  ASSUME TablesInv,
         NEW pals \in SUBSET {k \in Snapshots : /\ snapshot[k] = "published"
                                                /\ k \notin Tables!Of(db, Tables!LatestSnapshot)},
         NEW withItems \in SUBSET {k \in Snapshots : /\ items[k] = "published"
                                                     /\ k \notin Tables!Of(db,
                                                          Tables!LatestItems)},
         NEW failures \in SUBSET {k \in Snapshots : snapshot[k] = "failed"},
         NEW old \in 0..Len(Tables!Buckets),
         Tables!CleanUp(pals, withItems, failures, SubSeq(Tables!Buckets, 1, old))
  PROVE  TablesInv'
  <1> DEFINE detected == Tables!Delete(db, "execution_candidate_detection_runs", pals)
             purged == Tables!Delete(detected, "pal_snapshot_items", pals)
             failed == Tables!Delete(purged, "inventory_snapshots", failures)
             payload == Tables!DeleteAll(failed, Tables!ItemPayload, withItems)
  <1>1. /\ db' = Tables!DeleteAll(payload, SubSeq(Tables!Buckets, 1, old), {1})
        /\ snapshot' = [k \in Snapshots |->
             IF k \in failures THEN "none" ELSE IF k \in pals THEN "purged" ELSE snapshot[k]]
        /\ items' = [k \in Snapshots |-> IF k \in withItems THEN "purged" ELSE items[k]]
        /\ job' = [k \in Snapshots |->
             IF k \in pals /\ job[k] \in {"processing", "algorithm_completed"}
             THEN "failed" ELSE job[k]]
        /\ UNCHANGED <<version, saved>>
    BY DEF Tables!CleanUp
  <1>a. Less(db, detected, {"execution_candidate_detection_runs"} \X pals)
    <2> DEFINE t == "execution_candidate_detection_runs"
    <2>1. Whole(db) /\ t \in Execution
      BY DEF TablesInv, Execution
    <2>2. \A l \in db.links : l.to \notin {<<t, n>> : n \in pals}
      BY <2>1 DEF Whole
    <2>3. Drops(db, detected, {<<t, n>> : n \in pals})
      BY <2>1, <2>2, DeleteDrops
    <2>4. {<<t, n>> : n \in pals} = {t} \X pals
      OBVIOUS
    <2> QED
      BY <2>2, <2>3, <2>4 DEF Drops, Less
  <1> HIDE DEF detected
  <1>2. Less(detected, purged, {"pal_snapshot_items"} \X pals)
    BY <1>a, LeafDrops DEF Less, Leaves
  <1> HIDE DEF purged
  <1>3. Less(purged, failed, {"inventory_snapshots"} \X failures)
    <2>0. /\ Whole(purged) /\ purged.rows \subseteq db.rows /\ purged.links \subseteq db.links
      BY <1>a, <1>2 DEF Less
    <2>1. Whole(purged) /\ Within(db, purged) /\ purged.rows \subseteq db.rows
      BY <2>0, FewerLinksWithin
    <2>2. ASSUME NEW k \in failures
          PROVE  /\ k \notin Tables!Of(purged, Tables!LatestSnapshot)
                 /\ \A t \in {"pal_snapshot_items", "item_inventory_snapshots", "breeding_jobs"} :
                      <<t, k>> \notin purged.rows
      <3>1. k \in Snapshots /\ snapshot[k] = "failed" /\ items[k] = "none" /\ job[k] = "none"
        BY DEF TablesInv, OfPals
      <3>2. \A t \in {"pal_snapshot_items", "item_inventory_snapshots", "breeding_jobs"} :
              <<t, k>> \notin db.rows
        BY <3>1 DEF TablesInv, OfPals, OfItems, OfJob
      <3>3. k \notin Tables!Of(db, Tables!LatestSnapshot)
        BY <3>1 DEF TablesInv, Pointing
      <3> QED
        BY <2>1, <3>2, <3>3 DEF Within
    <2> QED
      BY <2>1, <2>2, FailuresDrop
  <1> HIDE DEF failed
  <1>4. Less(failed, payload, PayloadTables \X withItems)
    BY <1>3, PayloadDrops DEF Less
  <1> HIDE DEF payload
  <1>5. /\ Whole(db') /\ db'.rows \subseteq payload.rows /\ db'.links \subseteq payload.links
        /\ \A r \in payload.rows \ db'.rows : r[1] \in Minor
    BY <1>1, <1>4, BucketsDrop DEF Less
  <1> DEFINE gone == ({"execution_candidate_detection_runs", "pal_snapshot_items"} \X pals)
                       \cup ({"inventory_snapshots"} \X failures)
                       \cup (PayloadTables \X withItems)
  <1>6. \A r : r[1] \notin Minor => (r \in db'.rows <=> r \in db.rows \ gone)
    BY <1>a, <1>2, <1>3, <1>4, <1>5 DEF Less
  <1>7. Within(db, db')
    <2>1. db'.links \subseteq db.links
      BY <1>a, <1>2, <1>3, <1>4, <1>5 DEF Less
    <2> QED
      BY <2>1, FewerLinksWithin
  <1>8. TablesTyping'
    BY <1>1 DEF TablesInv, TablesTyping
  <1>9. ASSUME NEW j \in Snapshots
        PROVE  OfPals(j)'
    <2>1. OfPals(j) /\ j \notin pals \cap failures
      BY DEF TablesInv
    <2>2. /\ <<"inventory_snapshots", j>> \in db'.rows <=>
               <<"inventory_snapshots", j>> \in db.rows /\ j \notin failures
          /\ <<"pal_snapshot_items", j>> \in db'.rows <=>
               <<"pal_snapshot_items", j>> \in db.rows /\ j \notin pals
          /\ <<"players", 1>> \in db'.rows <=> <<"players", 1>> \in db.rows
          /\ <<"guilds", 1>> \in db'.rows <=> <<"guilds", 1>> \in db.rows
      BY <1>6 DEF Minor, PayloadTables, Samples, SampleTotals
    <2>3. j \in failures => items[j] = "none" /\ job[j] = "none" /\ j \notin withItems
      BY <2>1 DEF OfPals, TablesInv, TablesTyping
    <2>4. j \in withItems => items[j] = "published"
      OBVIOUS
    <2> QED
      BY <1>1, <2>1, <2>2, <2>3, <2>4 DEF OfPals, TablesInv, TablesTyping
  <1>10. ASSUME NEW j \in Snapshots
         PROVE  OfItems(j)'
    <2>1. OfItems(j) /\ (j \in withItems => items[j] = "published")
      BY DEF TablesInv
    <2>2. /\ <<"item_inventory_snapshots", j>> \in db'.rows <=>
               <<"item_inventory_snapshots", j>> \in db.rows
          /\ \A t \in PayloadTables :
               <<t, j>> \in db'.rows <=> <<t, j>> \in db.rows /\ j \notin withItems
      BY <1>6 DEF Minor, PayloadTables, Samples, SampleTotals
    <2> QED
      BY <1>1, <2>1, <2>2 DEF OfItems
  <1>11. ASSUME NEW j \in Snapshots
         PROVE  OfJob(j)'
    <2>1. OfJob(j)
      BY DEF TablesInv
    <2>2. \A t \in {"breeding_jobs", "breeding_plans", "breeding_routes",
      "saved_breeding_plans"} :
            <<t, j>> \in db'.rows <=> <<t, j>> \in db.rows
      BY <1>6 DEF Minor, PayloadTables, Samples, SampleTotals
    <2> QED
      BY <1>1, <2>1, <2>2 DEF OfJob
  <1>12. ASSUME NEW w \in StagedVersions
         PROVE  OfCatalog(w)'
    <2>1. \A t \in Members(RowsImported) \cup {"game_data_versions", "breeding_data_versions"} :
            <<t, w>> \in db'.rows <=> <<t, w>> \in db.rows
      BY <1>6, ImportedMembers DEF Minor, PayloadTables, Samples, SampleTotals
    <2>2. "catalog_items" \in Members(RowsImported)
      BY ImportedMembers
    <2> QED
      BY <1>1, <2>1, <2>2 DEF TablesInv, OfCatalog
  <1>13. Pointing'
    <2>1. ASSUME NEW k \in Tables!Of(db', Tables!LatestSnapshot)
          PROVE  k \in Snapshots /\ snapshot'[k] = "published"
      <3>1. /\ k \in Tables!Of(db, Tables!LatestSnapshot) /\ k \in Snapshots
            /\ snapshot[k] = "published"
        BY <1>7, <2>1 DEF Within, TablesInv, Pointing
      <3> QED
        BY <1>1, <3>1
    <2>2. ASSUME NEW k \in Tables!Of(db', Tables!LatestItems)
          PROVE  k \in Snapshots /\ items'[k] = "published"
      <3>1. /\ k \in Tables!Of(db, Tables!LatestItems) /\ k \in Snapshots
            /\ items[k] = "published"
        BY <1>7, <2>2 DEF Within, TablesInv, Pointing
      <3> QED
        BY <1>1, <3>1
    <2>3. \A v \in Tables!Of(db', Tables!ActiveVersion) :
            v \in StagedVersions /\ version'[v] = "published"
      BY <1>1, <1>7 DEF Within, TablesInv, Pointing
    <2> QED
      BY <2>1, <2>2, <2>3 DEF Pointing
  <1>14. (AlwaysThere \subseteq db.rows)'
    <2>1. \A r \in AlwaysThere : r[1] \notin Minor /\ r \notin gone
      BY DEF AlwaysThere, Minor, PayloadTables, Samples, SampleTotals
    <2> HIDE DEF gone
    <2> QED
      BY <1>6, <2>1 DEF TablesInv
  <1> QED
    BY <1>5, <1>8, <1>9, <1>10, <1>11, <1>12, <1>13, <1>14 DEF TablesInv

\* Every step of the tables keeps their invariant.
LEMMA StepsKeepTables ==
  ASSUME TablesInv, [Tables!Next]_(Tables!vars)
  PROVE  TablesInv'
  <1>1. CASE UNCHANGED Tables!vars
    <2>1. UNCHANGED <<db, snapshot, items, version, job, saved>>
      BY <1>1 DEF Tables!vars
    <2> QED
      BY <2>1 DEF TablesInv, TablesTyping, Pointing, OfPals, OfItems, OfJob, OfCatalog
  <1>2. ASSUME NEW v \in StagedVersions,
    Tables!Stage(v) \/ Tables!Finalize(v) \/ Tables!Activate(v)
        PROVE  TablesInv'
    BY <1>2, StageKeepsTables, FinalizeKeepsTables, ActivateKeepsTables
  <1>3. ASSUME NEW k \in Snapshots, NEW withItems \in BOOLEAN, Tables!Publish(k, withItems)
        PROVE  TablesInv'
    BY <1>3, PublishKeepsTables
  <1>4. ASSUME NEW k \in Snapshots, Tables!PublishAgain(k) \/ Tables!Reject(k)
        PROVE  TablesInv'
    BY <1>4, AgainKeepsTables, RejectKeepsTables
  <1>5. ASSUME Tables!Sample
        PROVE  TablesInv'
    BY <1>5, SampleKeepsTables
  <1>6. ASSUME NEW k \in Snapshots,
               \/ Tables!CreateJob(k) \/ Tables!Persist(k) \/ Tables!Complete(k)
               \/ Tables!SavePlan(k) \/ Tables!RemovePlan(k)
        PROVE  TablesInv'
    BY <1>6, CreateKeepsTables, PersistKeepsTables, CompleteKeepsTables, SaveKeepsTables,
       RemoveKeepsTables
  <1>7. ASSUME Tables!Retention
        PROVE  TablesInv'
    BY <1>7, CleanUpKeepsTables DEF Tables!Retention
  <1> QED
    BY <1>1, <1>2, <1>3, <1>4, <1>5, <1>6, <1>7 DEF Tables!Next

-----------------------------------------------------------------------------
(* What the invariant says of the tables.                                   *)

\* What the rows of a snapshot that outlive its items need, without its items.
Kept ==
  {"users", "worlds", "players", "scoring_profiles", "game_data_versions",
   "breeding_data_versions", "inventory_snapshots", "breeding_jobs", "breeding_plans",
   "breeding_routes"}

\* Rows that stay need only rows that stay.
LEMMA KeptIsClosed ==
  ASSUME NEW t \in Kept \cup {"pal_snapshot_items", "item_inventory_snapshots",
                              "saved_breeding_plans"}
  PROVE  Tables!Required(t) \subseteq Kept
  <1>1. Tables!Required("users") = {}
    BY DEF Tables!Required, Tables!Keys
  <1> QED
    BY <1>1, RequiredAre DEF Kept

\* A purge leaves no row behind that could not have been inserted without the purged.
LEMMA PurgesAreComplete ==
  ASSUME TablesInv
  PROVE  Tables!PurgeIsComplete
  <1> SUFFICES ASSUME NEW k \in Snapshots, NEW t \in Tables!OfSnapshot, <<t, k>> \in db.rows
               PROVE  /\ items[k] = "purged" =>
                           "item_inventory_snapshots" \notin Tables!Behind(Tables!Required(t))
                      /\ snapshot[k] = "purged"
                           /\ "inventory_snapshots" \in Tables!Required(t) =>
                             t \in Tables!OutliveTheSnapshot
    BY DEF Tables!PurgeIsComplete
  <1>1. OfPals(k) /\ OfItems(k)
    BY DEF TablesInv
  <1>2. ASSUME items[k] = "purged"
        PROVE  "item_inventory_snapshots" \notin Tables!Behind(Tables!Required(t))
    <2>1. t \in Kept \cup {"pal_snapshot_items", "item_inventory_snapshots",
      "saved_breeding_plans"}
      BY <1>1, <1>2 DEF OfItems, PayloadTables, Tables!OfSnapshot, Kept
    <2>2. Tables!Required(t) \subseteq Kept
      BY <2>1, KeptIsClosed
    <2>3. Tables!Behind(Tables!Required(t)) \subseteq Kept
      BY <2>2, KeptIsClosed, BehindIsLeast
    <2> QED
      BY <2>3 DEF Kept
  <1>3. ASSUME snapshot[k] = "purged", "inventory_snapshots" \in Tables!Required(t)
        PROVE  t \in Tables!OutliveTheSnapshot
    <2>1. t # "pal_snapshot_items"
      BY <1>1, <1>3 DEF OfPals
    <2>2. t \notin {"inventory_snapshots"} \cup (PayloadTables)
      BY <1>3, RequiredAre DEF PayloadTables
    <2> QED
      BY <2>1, <2>2 DEF Tables!OfSnapshot, Tables!OutliveTheSnapshot, PayloadTables
  <1> QED
    BY <1>2, <1>3

\* The invariant has the three properties of the transactions.
LEMMA TablesInvImplies ==
  ASSUME TablesInv
  PROVE  Tables!TablesHold
  <1>1. Tables!NothingRefused
    BY DEF TablesInv, Whole, Tables!NothingRefused
  <1>2. ASSUME NEW k \in saved
        PROVE  {<<t, k>> : t \in {"saved_breeding_plans", "breeding_routes", "breeding_plans",
                                  "breeding_jobs"}}
               \cup {<<"players", 1>>, <<"guilds", 1>>} \subseteq db.rows
    <2>1. k \in Snapshots /\ OfPals(k) /\ OfJob(k)
      BY DEF TablesInv, TablesTyping
    <2>2. /\ <<"saved_breeding_plans", k>> \in db.rows /\ <<"breeding_routes", k>> \in db.rows
          /\ <<"breeding_plans", k>> \in db.rows /\ <<"breeding_jobs", k>> \in db.rows
          /\ job[k] # "none"
      BY <2>1 DEF OfJob
    <2>3. <<"players", 1>> \in db.rows /\ <<"guilds", 1>> \in db.rows
      BY <2>1, <2>2 DEF OfPals
    <2> QED
      BY <2>2, <2>3
  <1> QED
    BY <1>1, <1>2, PurgesAreComplete DEF Tables!TablesHold, Tables!SavedPlansStay

\* Whatever the order of the transactions (snapshots and items that are published
\* and published again, samples, catalog versions, jobs, saved plans, removals and
\* a retention that stops anywhere), no foreign key refuses a statement of them,
\* a purge is complete, and the rows of a saved plan stay.  (supabase/migrations:
\* the REFERENCES clauses, publish_inventory_snapshot, run_inventory_retention.)
THEOREM TablesStay == MCSpec => []TablesHold
  <1>1. MCInit => TablesInv
    BY TablesAtFirst DEF MCInit
  <1>2. ASSUME TablesInv, [MCNext]_mcVars
        PROVE  TablesInv'
    <2>1. [Tables!Next]_(Tables!vars)
      BY <1>2 DEF MCNext, mcVars, tableVars, Tables!vars
    <2> QED
      BY <1>2, <2>1, StepsKeepTables
  <1>3. TablesInv => TablesHold
    BY TablesInvImplies DEF TablesHold
  <1> QED
    BY <1>1, <1>2, <1>3, PTL DEF MCSpec
==============================================================================
