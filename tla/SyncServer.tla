----------------------------- MODULE SyncServer -----------------------------
(***************************************************************************)
(* What the sync API promises: pairing codes, the devices paired with      *)
(* them, and the worlds these devices publish, as if every request were    *)
(* carried out at once.  PublicSync shows that the transactions of the     *)
(* database keep this promise; SyncClient uses it.                         *)
(*                                                                         *)
(* A device stands for its row and its token; the token is known to the    *)
(* client that paired it.  The time of a save is its source_modified_at.   *)
(***************************************************************************)
EXTENDS Naturals, FiniteSets

CONSTANTS Users, Codes, Devices, Worlds,
          MaxTime,   \* bound: saves have the times 1..MaxTime
          None

TimeAssumption == MaxTime \in Nat
AbsentAssumption == None \notin Users \cup Codes \cup Devices \cup Worlds

VARIABLES code,       \* sync_pairing_codes
          device,     \* sync_devices
          world,      \* worlds, with what is known of the latest snapshot
          published   \* public_sync_snapshot_publications

serverVars == <<code, device, world, published>>

Times == 1..MaxTime
NoCode == [state |-> "new", owner |-> None]
NoDevice == [state |-> "none", owner |-> None, code |-> None, world |-> None]

ServerInit ==
  /\ code = [c \in Codes |-> NoCode]
  /\ device = [d \in Devices |-> NoDevice]
  /\ world = [w \in Worlds |-> [known |-> FALSE, time |-> 0]]
  /\ published = {}

-----------------------------------------------------------------------------
Withdrawn(row, u) ==
  IF row.owner = u /\ row.state \in {"open", "expired"}
  THEN [row EXCEPT !.state = "consumed"] ELSE row

\* POST /api/sync/pairing-codes: the codes the user has are withdrawn before
\* the new one is there.  A second request of the same user may come between.
BeginCode(c, u) ==
  /\ code[c].state = "new"
  /\ code' = [d \in Codes |-> IF d = c THEN [state |-> "creating", owner |-> u]
                                        ELSE Withdrawn(code[d], u)]
  /\ UNCHANGED <<device, world, published>>

OpenCode(c) ==
  /\ code[c].state = "creating"
  /\ code' = [code EXCEPT ![c].state = "open"]
  /\ UNCHANGED <<device, world, published>>

\* SYNC_PAIRING_CODE_TTL_SECONDS have passed.
ExpireCode(c) ==
  /\ code[c].state = "open"
  /\ code' = [code EXCEPT ![c].state = "expired"]
  /\ UNCHANGED <<device, world, published>>

PairRefusal(c) == IF code[c].state = "expired" THEN "SYNC_PAIRING_CODE_EXPIRED"
                                               ELSE "SYNC_PAIRING_CODE_INVALID"

\* POST /api/sync/pair: the code is used up and a device with a new token is
\* there, for the owner of the code.
Consume(c, d) ==
  /\ code[c].state = "open"
  /\ device[d] = NoDevice
  /\ code' = [code EXCEPT ![c].state = "consumed"]
  /\ device' = [device EXCEPT ![d] = [state |-> "paired", owner |-> code[c].owner,
                                      code |-> c, world |-> None]]
  /\ UNCHANGED <<world, published>>

\* DELETE /api/sync/devices/[deviceId]
Revoke(d) ==
  /\ device[d].state # "none"
  /\ device' = [device EXCEPT ![d].state = "revoked"]
  /\ UNCHANGED <<code, world, published>>

Authorized(d) == device[d].state = "paired"

\* Another user's device, a revoked one too, keeps the world.
OwnedByOther(d, w) ==
  \E e \in Devices : device[e].world = w /\ device[e].owner # device[d].owner

\* The answer to an upload that is not published.
PublishRefusal(d, w, t) ==
  CASE ~Authorized(d) -> "SYNC_DEVICE_UNAUTHORIZED"
    [] Authorized(d) /\ device[d].world \notin {None, w} -> "SYNC_DEVICE_WORLD_MISMATCH"
    [] Authorized(d) /\ device[d].world = None /\ OwnedByOther(d, w) -> "SYNC_WORLD_OWNED_BY_OTHER"
    [] OTHER -> "INVENTORY_SNAPSHOT_STALE"

\* Mutation: any known token will do.
MayPublishRevoked(d, w, t) ==
  /\ device[d].state # "none"
  /\ device[d].world = w \/ (device[d].world = None /\ ~OwnedByOther(d, w))
  /\ t >= world[w].time

MayPublish(d, w, t) ==
  /\ Authorized(d)
  /\ device[d].world = w \/ (device[d].world = None /\ ~OwnedByOther(d, w))
  /\ t >= world[w].time

\* POST /api/sync/snapshots: the first publication ties the device to its world.
Publish(d, w, t) ==
  /\ MayPublish(d, w, t)
  /\ device' = [device EXCEPT ![d].world = w]
  /\ world' = [world EXCEPT ![w] = [known |-> TRUE, time |-> t]]
  /\ published' = published \cup {<<d, w, t>>}
  /\ UNCHANGED code

ServerNext ==
  \/ \E c \in Codes : OpenCode(c) \/ ExpireCode(c) \/ \E u \in Users : BeginCode(c, u)
  \/ \E c \in Codes, d \in Devices : Consume(c, d)
  \/ \E d \in Devices : Revoke(d) \/ \E w \in Worlds, t \in Times : Publish(d, w, t)

ServerSpec == ServerInit /\ [][ServerNext]_serverVars

-----------------------------------------------------------------------------
ServerTypeOK ==
  /\ code \in [Codes -> [state : {"new", "creating", "open", "expired", "consumed"},
                         owner : Users \cup {None}]]
  /\ device \in [Devices -> [state : {"none", "paired", "revoked"}, owner : Users \cup {None},
                             code : Codes \cup {None}, world : Worlds \cup {None}]]
  /\ world \in [Worlds -> [known : BOOLEAN, time : 0..MaxTime]]
  /\ published \subseteq Devices \X Worlds \X Times

\* All the devices that ever published a world have one owner, whichever of
\* them was first and in whatever order first uploads arrive.
WorldHasOneOwner ==
  \A d, e \in Devices : device[d].world = device[e].world /\ device[d].world # None
                          => device[d].owner = device[e].owner

\* A pairing code makes one device, however many clients send it at once.
OneDevicePerCode ==
  \A d, e \in Devices : device[d].code = device[e].code /\ device[d].code # None => d = e

\* After its revocation a device publishes nothing, not even an upload that was
\* under way, and a device never changes its world or its owner.
RevokedIsSilent ==
  [][\A d \in Devices :
       /\ device[d].state = "revoked" =>
            \A p \in published' \ published : p[1] # d
       /\ device[d].world # None => device'[d].world = device[d].world
       /\ device[d].state # "none" => device'[d].owner = device[d].owner]_serverVars

\* The latest snapshot of a world never goes back to an older save.
NewestSaveWins ==
  [][\A w \in Worlds : world'[w].time >= world[w].time]_serverVars

\* What the server promises whatever its clients do and however their
\* transactions wait for each other: a request takes effect at once, a world has
\* one owner, a code makes one device, a revoked device says nothing more, and
\* the newest save is the one that is shown.
ServerPromises ==
  ServerSpec /\ [](WorldHasOneOwner /\ OneDevicePerCode) /\ RevokedIsSilent /\ NewestSaveWins
=============================================================================
