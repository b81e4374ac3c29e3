----------------------------- MODULE PublicSync -----------------------------
(***************************************************************************)
(* The transactions behind the sync API, with their row locks: consuming   *)
(* a pairing code and publishing a snapshot take several statements, and   *)
(* other requests run between them.  A client that timed out may have sent *)
(* the same request again, so one device may have several under way.       *)
(*                                                                         *)
(* Isolation is read committed.  A row that is selected FOR UPDATE is      *)
(* locked until the transaction ends; an insert waits for another insert   *)
(* of the same world_uid that is not committed.                            *)
(***************************************************************************)
EXTENDS SyncServer

CONSTANT Requests   \* transactions that may run at the same time
RequestAssumption == None \notin Requests

VARIABLES request, codeLock, deviceLock, worldLock

locks == <<codeLock, deviceLock, worldLock>>
vars == <<serverVars, request, locks>>

NoRequest == [at |-> "idle", code |-> None, device |-> None, world |-> None, time |-> 0]

Init ==
  /\ ServerInit
  /\ request = [r \in Requests |-> NoRequest]
  /\ codeLock = [c \in Codes |-> None]
  /\ deviceLock = [d \in Devices |-> None]
  /\ worldLock = [w \in Worlds |-> None]

Released(lock, r) == [x \in DOMAIN lock |-> IF lock[x] = r THEN None ELSE lock[x]]

\* Commit and rollback alike end a transaction.
End(r) ==
  /\ request' = [request EXCEPT ![r] = NoRequest]
  /\ codeLock' = Released(codeLock, r)
  /\ deviceLock' = Released(deviceLock, r)
  /\ worldLock' = Released(worldLock, r)

\* Any check may fail on the way: everything is rolled back.
Refuse(r) ==
  /\ request[r].at # "idle"
  /\ End(r)
  /\ UNCHANGED serverVars

-----------------------------------------------------------------------------
\* create_sync_pairing_code and revoke_sync_device update rows, and wait for
\* whoever has locked them.
CreateCode(c, u) ==
  /\ \A d \in Codes : codeLock[d] # None => code[d].owner # u
  /\ BeginCode(c, u)
  /\ UNCHANGED <<request, locks>>

FinishCode(c) == OpenCode(c) /\ UNCHANGED <<request, locks>>

TimePasses(c) ==
  /\ codeLock[c] = None
  /\ ExpireCode(c) /\ UNCHANGED <<request, locks>>

RevokeDevice(d) ==
  /\ deviceLock[d] = None
  /\ Revoke(d)
  /\ UNCHANGED <<request, locks>>

-----------------------------------------------------------------------------
\* Mutation: the code is read without FOR UPDATE.
ReadCodeUnlocked(r, c) ==
  /\ request[r].at = "idle"
  /\ code[c].state = "open"
  /\ request' = [request EXCEPT ![r] = [NoRequest EXCEPT !.at = "pair", !.code = c]]
  /\ UNCHANGED <<serverVars, locks>>

\* consume_sync_pairing_code: select the code for update ...
ReadCode(r, c) ==
  /\ request[r].at = "idle"
  /\ codeLock[c] = None
  /\ code[c].state = "open"
  /\ codeLock' = [codeLock EXCEPT ![c] = r]
  /\ request' = [request EXCEPT ![r] =
                  [at |-> "pair", code |-> c, device |-> None, world |-> None, time |-> 0]]
  /\ UNCHANGED <<serverVars, deviceLock, worldLock>>

\* ... mark it consumed and insert the device.
Pair(r, d) ==
  /\ request[r].at = "pair"
  /\ device[d] = NoDevice
  /\ code' = [code EXCEPT ![request[r].code].state = "consumed"]
  /\ device' = [device EXCEPT ![d] = [state |-> "paired", owner |-> code[request[r].code].owner,
                                      code |-> request[r].code, world |-> None]]
  /\ UNCHANGED <<world, published>>
  /\ End(r)

-----------------------------------------------------------------------------
\* Mutation: the device is read without FOR UPDATE.
BeginUploadUnlocked(r, d, w, t) ==
  /\ request[r].at = "idle"
  /\ Authorized(d)
  /\ device[d].world \in {None, w}
  /\ request' = [request EXCEPT ![r] =
                  [at |-> "find", code |-> None, device |-> d, world |-> w, time |-> t]]
  /\ UNCHANGED <<serverVars, locks>>

\* publish_sync_device_snapshot: select the device for update and compare its world.
BeginUpload(r, d, w, t) ==
  /\ request[r].at = "idle"
  /\ deviceLock[d] = None
  /\ Authorized(d)
  /\ device[d].world \in {None, w}
  /\ deviceLock' = [deviceLock EXCEPT ![d] = r]
  /\ request' = [request EXCEPT ![r] =
                  [at |-> "find", code |-> None, device |-> d, world |-> w, time |-> t]]
  /\ UNCHANGED <<serverVars, codeLock, worldLock>>

GoOn(r, w, at) ==
  /\ request' = [request EXCEPT ![r].at = at]
  /\ worldLock' = [worldLock EXCEPT ![w] = r]
  /\ UNCHANGED <<serverVars, codeLock, deviceLock>>

\* Mutation: the world is read without FOR UPDATE.
FindWorldUnlocked(r) ==
  LET q == request[r] IN
  /\ q.at = "find"
  /\ world[q.world].known
  /\ device[q.device].world = q.world \/ ~OwnedByOther(q.device, q.world)
  /\ request' = [request EXCEPT ![r].at = "publish"]
  /\ UNCHANGED <<serverVars, locks>>

\* The world is there: select it for update.  If the device has no world yet,
\* nobody else's device may have it.
FindWorld(r) ==
  LET q == request[r] IN
  /\ q.at = "find"
  /\ world[q.world].known
  /\ worldLock[q.world] = None
  /\ device[q.device].world = q.world \/ ~OwnedByOther(q.device, q.world)
  /\ GoOn(r, q.world, "publish")

\* No committed row is found.
MissWorld(r) ==
  /\ request[r].at = "find"
  /\ ~world[request[r].world].known
  /\ request' = [request EXCEPT ![r].at = "insert"]
  /\ UNCHANGED <<serverVars, locks>>

\* Mutation: a row that another transaction committed meanwhile is taken as it
\* is (on conflict do nothing).
InsertWorldOrTake(r) ==
  /\ request[r].at = "insert"
  /\ worldLock[request[r].world] = None
  /\ GoOn(r, request[r].world, "publish")

\* insert into worlds: it waits for an uncommitted row with this world_uid, and
\* if that is committed the unique index refuses it (Refuse).
InsertWorld(r) ==
  /\ request[r].at = "insert"
  /\ worldLock[request[r].world] = None
  /\ ~world[request[r].world].known
  /\ GoOn(r, request[r].world, "publish")

\* Mutation: the age of the save is not compared again under the lock.
CommitAnyAge(r) ==
  LET q == request[r] IN
  /\ q.at = "publish"
  /\ device[q.device].state = "paired"
  /\ device' = [device EXCEPT ![q.device].world = q.world]
  /\ world' = [world EXCEPT ![q.world] = [known |-> TRUE, time |-> q.time]]
  /\ published' = published \cup {<<q.device, q.world, q.time>>}
  /\ UNCHANGED code
  /\ End(r)

\* private.publish_inventory_snapshot refuses a save older than the latest; the
\* publication is recorded if the device is still authorized.
Commit(r) ==
  LET q == request[r] IN
  /\ q.at = "publish"
  /\ q.time >= world[q.world].time
  /\ device[q.device].state = "paired"
  /\ device' = [device EXCEPT ![q.device].world = q.world]
  /\ world' = [world EXCEPT ![q.world] = [known |-> TRUE, time |-> q.time]]
  /\ published' = published \cup {<<q.device, q.world, q.time>>}
  /\ UNCHANGED code
  /\ End(r)

-----------------------------------------------------------------------------
CodeStep ==
  \E c \in Codes : FinishCode(c) \/ TimePasses(c) \/ \E u \in Users : CreateCode(c, u)

RequestStep(r) ==
  \/ Refuse(r)
  \/ \E c \in Codes : ReadCode(r, c)
  \/ \E d \in Devices : Pair(r, d)
  \/ \E d \in Devices, w \in Worlds, t \in Times : BeginUpload(r, d, w, t)
  \/ FindWorld(r) \/ MissWorld(r) \/ InsertWorld(r) \/ Commit(r)

Next ==
  \/ CodeStep
  \/ \E d \in Devices : RevokeDevice(d)
  \/ \E r \in Requests : RequestStep(r)

Spec == Init /\ [][Next]_vars

-----------------------------------------------------------------------------
RequestTypeOK ==
  /\ request \in [Requests -> [at : {"idle", "pair", "find", "insert", "publish"},
                               code : Codes \cup {None}, device : Devices \cup {None},
                               world : Worlds \cup {None}, time : 0..MaxTime]]
  /\ codeLock \in [Codes -> Requests \cup {None}]
  /\ deviceLock \in [Devices -> Requests \cup {None}]
  /\ worldLock \in [Worlds -> Requests \cup {None}]

TypeOK == ServerTypeOK /\ RequestTypeOK

\* A transaction that is about to insert a device holds its code.
PairingHolds ==
  \A r \in Requests : request[r].at = "pair" =>
    /\ request[r].code \in Codes
    /\ codeLock[request[r].code] = r
    /\ code[request[r].code].state = "open"

\* A transaction that publishes holds its device, which is authorized, ...
UploadHolds ==
  \A r \in Requests : request[r].at \in {"find", "insert", "publish"} =>
    /\ request[r].device \in Devices /\ request[r].world \in Worlds
    /\ request[r].time \in Times
    /\ deviceLock[request[r].device] = r
    /\ Authorized(request[r].device)
    /\ device[request[r].device].world \in {None, request[r].world}

\* ... and from the ownership check to the commit holds the world.
CheckHolds ==
  \A r \in Requests : request[r].at = "publish" =>
    /\ worldLock[request[r].world] = r
    /\ ~OwnedByOther(request[r].device, request[r].world)

\* Rows that are not there have no world, a world without a publication is
\* nobody's, and the code of a device is used up.
RowsOK ==
  /\ \A d \in Devices : /\ device[d].state = "none" => device[d] = NoDevice
                        /\ device[d].world # None => world[device[d].world].known
                        /\ device[d].code # None => code[device[d].code].state = "consumed"

\* Each transaction keeps what it has checked until it commits, because it
\* holds the rows: this is what makes the requests atomic.
LocksOK == PairingHolds /\ UploadHolds /\ CheckHolds /\ RowsOK

\* The transactions are what SyncServer says: each request happens at once, at
\* its commit, or not at all.
Atomic == ServerSpec
=============================================================================
