--------------------------- MODULE PublicSync_proofs ---------------------------
(***************************************************************************)
(* The public synchronization, for any numbers of users, codes, devices,   *)
(* worlds and transactions: the row locks make the requests of the sync    *)
(* API happen at once, and what the API promises holds.  For any numbers   *)
(* of players and pals: a world moves to public sync as a whole, and what  *)
(* the owners of pals chose moves with it.  For any set of files: a copy   *)
(* of a save that passes the checks is the save of one moment.  And the    *)
(* parser's process answers once, with no process or directory left.       *)
(***************************************************************************)
EXTENDS MCSync, TLAPS

Assumed == TimeAssumption /\ AbsentAssumption /\ RequestAssumption

\* The rows between requests: WorldHasOneOwner is needed to publish, for only
\* the first upload of a device looks for another owner.
ServerInv == ServerTypeOK /\ RowsOK /\ WorldHasOneOwner /\ OneDevicePerCode

\* The rows and the locks of the transactions between statements.
Inv == ServerInv /\ RequestTypeOK /\ PairingHolds /\ UploadHolds /\ CheckHolds

\* What no request does to the rows, as actions.
Silent ==
  \A d \in Devices :
    /\ device[d].state = "revoked" => \A p \in published' \ published : p[1] # d
    /\ device[d].world # None => device'[d].world = device[d].world
    /\ device[d].state # "none" => device'[d].owner = device[d].owner

NotOlder == \A w \in Worlds : world'[w].time >= world[w].time

CodeRows == [state : {"new", "creating", "open", "expired", "consumed"}, owner : Users \cup {None}]
DeviceRows == [state : {"none", "paired", "revoked"}, owner : Users \cup {None},
               code : Codes \cup {None}, world : Worlds \cup {None}]

-----------------------------------------------------------------------------
(* Requests that happen at once. *)

\* The requests for codes: a used code stays used.
LEMMA CodesKeepPromises ==
  ASSUME Assumed, ServerInv, UNCHANGED <<device, world, published>>,
         code' \in [Codes -> CodeRows],
         \A c \in Codes : code[c].state = "consumed" => code'[c].state = "consumed"
  PROVE  ServerInv' /\ Silent /\ NotOlder
  <1>1. ServerTypeOK'
    BY DEF ServerInv, ServerTypeOK, CodeRows, Times
  <1>2. RowsOK'
    BY DEF ServerInv, ServerTypeOK, RowsOK, NoDevice
  <1>3. (WorldHasOneOwner /\ OneDevicePerCode)'
    BY DEF ServerInv, WorldHasOneOwner, OneDevicePerCode
  <1>4. Silent
    BY DEF Silent
  <1>5. NotOlder
    BY DEF ServerInv, ServerTypeOK, NotOlder, Assumed, TimeAssumption
  <1> QED
    BY <1>1, <1>2, <1>3, <1>4, <1>5 DEF ServerInv

LEMMA CodeRequestsKeepPromises ==
  ASSUME Assumed, ServerInv,
         \E c \in Codes : OpenCode(c) \/ ExpireCode(c) \/ \E u \in Users : BeginCode(c, u)
  PROVE  ServerInv' /\ Silent /\ NotOlder
  <1>0. code \in [Codes -> CodeRows]
    BY DEF ServerInv, ServerTypeOK, CodeRows
  <1>1. ASSUME NEW c \in Codes, OpenCode(c) \/ ExpireCode(c)
        PROVE  ServerInv' /\ Silent /\ NotOlder
    <2>1. code' \in [Codes -> CodeRows]
      BY <1>0, <1>1 DEF OpenCode, ExpireCode, CodeRows
    <2>2. \A x \in Codes : code[x].state = "consumed" => code'[x].state = "consumed"
      BY <1>0, <1>1 DEF OpenCode, ExpireCode, CodeRows
    <2>3. UNCHANGED <<device, world, published>>
      BY <1>1 DEF OpenCode, ExpireCode
    <2> QED
      BY <2>1, <2>2, <2>3, CodesKeepPromises
  <1>2. ASSUME NEW c \in Codes, NEW u \in Users, BeginCode(c, u)
        PROVE  ServerInv' /\ Silent /\ NotOlder
    <2>1. code' \in [Codes -> CodeRows]
      <3>1. \A x \in Codes : Withdrawn(code[x], u) \in CodeRows
        BY <1>0 DEF Withdrawn, CodeRows
      <3> QED
        BY <1>2, <3>1 DEF BeginCode, CodeRows
    <2>2. \A x \in Codes : code[x].state = "consumed" => code'[x].state = "consumed"
      BY <1>0, <1>2 DEF BeginCode, Withdrawn, CodeRows
    <2>3. UNCHANGED <<device, world, published>>
      BY <1>2 DEF BeginCode
    <2> QED
      BY <2>1, <2>2, <2>3, CodesKeepPromises
  <1> QED
    BY <1>1, <1>2

\* An open code has made no device yet; after this it is used up.
LEMMA ConsumeKeepsPromises ==
  ASSUME Assumed, ServerInv, NEW c \in Codes, NEW d \in Devices, Consume(c, d)
  PROVE  ServerInv' /\ Silent /\ NotOlder
  <1> DEFINE row == [state |-> "paired", owner |-> code[c].owner, code |-> c, world |-> None]
  <1>1. /\ code \in [Codes -> CodeRows] /\ device \in [Devices -> DeviceRows]
        /\ world \in [Worlds -> [known : BOOLEAN, time : 0..MaxTime]]
    BY DEF ServerInv, ServerTypeOK, CodeRows, DeviceRows
  <1>2. /\ device'[d] = row /\ \A e \in Devices \ {d} : device'[e] = device[e]
        /\ code'[c].state = "consumed"
        /\ \A x \in Codes : code[x].state = "consumed" => code'[x].state = "consumed"
    BY <1>1 DEF Consume, CodeRows, DeviceRows
  <1>3. UNCHANGED <<world, published>> /\ device[d] = NoDevice /\ code[c].state = "open"
    BY DEF Consume
  <1>4. ServerTypeOK'
    <2>1. row \in DeviceRows
      BY <1>1 DEF CodeRows, DeviceRows
    <2>2. device' \in [Devices -> DeviceRows]
      BY <1>1, <2>1 DEF Consume
    <2>3. code' \in [Codes -> CodeRows]
      BY <1>1 DEF Consume, CodeRows
    <2> QED
      BY <2>2, <2>3, <1>3 DEF ServerInv, ServerTypeOK, CodeRows, DeviceRows, Times
  <1>5. RowsOK'
    <2> SUFFICES ASSUME NEW e \in Devices
                 PROVE  /\ device'[e].state = "none" => device'[e] = NoDevice
                        /\ device'[e].world # None => world'[device'[e].world].known
                        /\ device'[e].code # None => code'[device'[e].code].state = "consumed"
      BY DEF RowsOK, NoDevice
    <2>1. CASE e = d
      BY <2>1, <1>2
    <2>2. CASE e # d
      BY <2>2, <1>1, <1>2, <1>3 DEF ServerInv, RowsOK, DeviceRows
    <2> QED
      BY <2>1, <2>2
  <1>6. WorldHasOneOwner'
    BY <1>2 DEF ServerInv, WorldHasOneOwner
  <1>7. OneDevicePerCode'
    <2>1. \A e \in Devices : device[e].code # c
      BY <1>3 DEF ServerInv, RowsOK, Assumed, AbsentAssumption
    <2> QED
      BY <1>2, <2>1 DEF ServerInv, OneDevicePerCode
  <1>8. Silent
    BY <1>2, <1>3 DEF Silent, NoDevice
  <1>9. NotOlder
    BY <1>1, <1>3 DEF NotOlder, Assumed, TimeAssumption
  <1> QED
    BY <1>4, <1>5, <1>6, <1>7, <1>8, <1>9 DEF ServerInv

LEMMA RevokeKeepsPromises ==
  ASSUME Assumed, ServerInv, NEW d \in Devices, Revoke(d)
  PROVE  ServerInv' /\ Silent /\ NotOlder
  <1>1. /\ device \in [Devices -> DeviceRows]
        /\ world \in [Worlds -> [known : BOOLEAN, time : 0..MaxTime]]
    BY DEF ServerInv, ServerTypeOK, DeviceRows
  <1>2. UNCHANGED <<code, world, published>>
    BY DEF Revoke
  <1>3. device' \in [Devices -> DeviceRows]
    BY <1>1 DEF Revoke, DeviceRows
  <1>4. \A e \in Devices : /\ device'[e].owner = device[e].owner
                           /\ device'[e].code = device[e].code
                           /\ device'[e].world = device[e].world
    BY <1>1 DEF Revoke, DeviceRows
  <1>5. \A e \in Devices : device'[e].state = "none" => device'[e] = device[e]
    BY <1>1 DEF Revoke, DeviceRows
  <1>6. ServerTypeOK'
    BY <1>2, <1>3 DEF ServerInv, ServerTypeOK, DeviceRows, Times
  <1>7. RowsOK'
    BY <1>2, <1>4, <1>5 DEF ServerInv, RowsOK, NoDevice
  <1>8. (WorldHasOneOwner /\ OneDevicePerCode)'
    BY <1>4 DEF ServerInv, WorldHasOneOwner, OneDevicePerCode
  <1>9. Silent /\ NotOlder
    BY <1>1, <1>2, <1>4 DEF Silent, NotOlder, Assumed, TimeAssumption
  <1> QED
    BY <1>6, <1>7, <1>8, <1>9 DEF ServerInv

\* Either the device has the world, and then its owner is that of all who have
\* it, or it has none and nobody else's device has this one.
LEMMA PublishKeepsPromises ==
  ASSUME Assumed, ServerInv, NEW d \in Devices, NEW w \in Worlds, NEW t \in Times,
         Publish(d, w, t)
  PROVE  ServerInv' /\ Silent /\ NotOlder
  <1>1. /\ device \in [Devices -> DeviceRows]
        /\ world \in [Worlds -> [known : BOOLEAN, time : 0..MaxTime]]
        /\ t \in 0..MaxTime /\ t \in Nat /\ MaxTime \in Nat
    BY DEF ServerInv, ServerTypeOK, DeviceRows, Assumed, TimeAssumption, Times
  <1>2. /\ device'[d].world = w /\ device'[d].state = "paired"
        /\ device'[d].owner = device[d].owner /\ device'[d].code = device[d].code
        /\ \A e \in Devices \ {d} : device'[e] = device[e]
        /\ device[d].state = "paired"
    BY <1>1 DEF Publish, MayPublish, Authorized, DeviceRows
  <1>3. /\ world'[w].known /\ world'[w].time = t /\ t >= world[w].time
        /\ \A x \in Worlds \ {w} : world'[x] = world[x]
    BY <1>1 DEF Publish, MayPublish
  <1>4. UNCHANGED code /\ published' = published \cup {<<d, w, t>>}
    BY DEF Publish
  <1>5. device[d].world = w \/ (device[d].world = None /\ ~OwnedByOther(d, w))
    BY DEF Publish, MayPublish
  <1>6. ServerTypeOK'
    <2>1. device' \in [Devices -> DeviceRows]
      BY <1>1 DEF Publish, DeviceRows
    <2>2. world' \in [Worlds -> [known : BOOLEAN, time : 0..MaxTime]]
      BY <1>1 DEF Publish
    <2> QED
      BY <1>4, <2>1, <2>2 DEF ServerInv, ServerTypeOK, DeviceRows, Times
  <1>7. RowsOK'
    <2> SUFFICES ASSUME NEW e \in Devices
                 PROVE  /\ device'[e].state = "none" => device'[e] = NoDevice
                        /\ device'[e].world # None => world'[device'[e].world].known
                        /\ device'[e].code # None => code'[device'[e].code].state = "consumed"
      BY DEF RowsOK, NoDevice
    <2>1. CASE e = d
      BY <2>1, <1>2, <1>3, <1>4 DEF ServerInv, RowsOK
    <2>2. CASE e # d
      BY <2>2, <1>1, <1>2, <1>3, <1>4 DEF ServerInv, RowsOK, DeviceRows
    <2> QED
      BY <2>1, <2>2
  <1>8. WorldHasOneOwner'
    <2>1. \A e \in Devices : device[e].world = w => device[e].owner = device[d].owner
      BY <1>5 DEF ServerInv, WorldHasOneOwner, OwnedByOther, Assumed, AbsentAssumption
    <2> QED
      BY <1>2, <2>1 DEF ServerInv, WorldHasOneOwner
  <1>9. OneDevicePerCode'
    BY <1>2 DEF ServerInv, OneDevicePerCode
  <1>10. Silent
    BY <1>2, <1>4, <1>5 DEF Silent
  <1>11. NotOlder
    BY <1>1, <1>3 DEF NotOlder
  <1> QED
    BY <1>6, <1>7, <1>8, <1>9, <1>10, <1>11 DEF ServerInv

LEMMA RequestsKeepPromises ==
  ASSUME Assumed, ServerInv, [ServerNext]_serverVars
  PROVE  ServerInv' /\ Silent /\ NotOlder
  <1>1. CASE UNCHANGED serverVars
    <2>1. /\ code' \in [Codes -> CodeRows]
          /\ \A c \in Codes : code[c].state = "consumed" => code'[c].state = "consumed"
      BY <1>1 DEF ServerInv, ServerTypeOK, CodeRows, serverVars
    <2> QED
      BY <1>1, <2>1, CodesKeepPromises DEF serverVars
  <1>2. CASE ServerNext
    BY <1>2, CodeRequestsKeepPromises, ConsumeKeepsPromises, RevokeKeepsPromises,
       PublishKeepsPromises DEF ServerNext
  <1> QED
    BY <1>1, <1>2

LEMMA ServerInvHoldsAtFirst ==
  ASSUME Assumed, ServerInit
  PROVE  ServerInv
BY DEF Assumed, TimeAssumption, ServerInit, ServerInv, ServerTypeOK, RowsOK, WorldHasOneOwner,
       OneDevicePerCode, NoCode, NoDevice

\* If requests happened at once, the API would keep its promises.
THEOREM PromisesAreKept ==
  ASSUME Assumed
  PROVE  ServerSpec => ServerPromises
  <1>1. ServerInit => ServerInv
    BY ServerInvHoldsAtFirst
  <1>2. ServerInv /\ [ServerNext]_serverVars => ServerInv' /\ Silent /\ NotOlder
    BY RequestsKeepPromises
  <1>3. ServerInv => WorldHasOneOwner /\ OneDevicePerCode
    BY DEF ServerInv
  <1>4. ServerSpec => [](WorldHasOneOwner /\ OneDevicePerCode)
    BY <1>1, <1>2, <1>3, PTL DEF ServerSpec
  <1>5. ServerSpec => RevokedIsSilent
    <2>1. Silent => \A d \in Devices :
            /\ device[d].state = "revoked" => \A p \in published' \ published : p[1] # d
            /\ device[d].world # None => device'[d].world = device[d].world
            /\ device[d].state # "none" => device'[d].owner = device[d].owner
      BY DEF Silent
    <2> QED
      BY <1>1, <1>2, <2>1, PTL DEF ServerSpec, RevokedIsSilent
  <1>6. ServerSpec => NewestSaveWins
    <2>1. NotOlder => \A w \in Worlds : world'[w].time >= world[w].time
      BY DEF NotOlder
    <2> QED
      BY <1>1, <1>2, <2>1, PTL DEF ServerSpec, NewestSaveWins
  <1> QED
    BY <1>4, <1>5, <1>6 DEF ServerPromises

-----------------------------------------------------------------------------
(* The transactions: each keeps its locks, and what it has read under them. *)

RequestRows == [at : {"idle", "pair", "find", "insert", "publish"}, code : Codes \cup {None},
                device : Devices \cup {None}, world : Worlds \cup {None}, time : 0..MaxTime]

LocksInv == RequestTypeOK /\ PairingHolds /\ UploadHolds /\ CheckHolds

LEMMA ReleasedLocks ==
  ASSUME Assumed, NEW S, NEW lock \in [S -> Requests \cup {None}], NEW r \in Requests
  PROVE  /\ Released(lock, r) \in [S -> Requests \cup {None}]
         /\ \A x \in S, q \in Requests \ {r} : Released(lock, r)[x] = q <=> lock[x] = q
BY DEF Released, Assumed, RequestAssumption

\* The end of a transaction leaves the others what they have.
LEMMA EndKeepsLocks ==
  ASSUME Assumed, Inv, NEW r \in Requests, End(r)
  PROVE  /\ RequestTypeOK'
         /\ request'[r] = NoRequest
         /\ \A q \in Requests \ {r} :
              /\ request'[q] = request[q]
              /\ \A c \in Codes : codeLock[c] = q => codeLock'[c] = q
              /\ \A d \in Devices : deviceLock[d] = q => deviceLock'[d] = q
              /\ \A w \in Worlds : worldLock[w] = q => worldLock'[w] = q
  <1>1. /\ request \in [Requests -> RequestRows]
        /\ codeLock \in [Codes -> Requests \cup {None}]
        /\ deviceLock \in [Devices -> Requests \cup {None}]
        /\ worldLock \in [Worlds -> Requests \cup {None}]
    BY DEF Inv, RequestTypeOK, RequestRows
  <1>2. NoRequest \in RequestRows
    BY DEF Assumed, TimeAssumption, NoRequest, RequestRows
  <1>3. request' \in [Requests -> RequestRows]
    BY <1>1, <1>2 DEF End
  <1>4. /\ codeLock' \in [Codes -> Requests \cup {None}]
        /\ \A x \in Codes, q \in Requests \ {r} : codeLock'[x] = q <=> codeLock[x] = q
    BY <1>1, ReleasedLocks DEF End
  <1>5. /\ deviceLock' \in [Devices -> Requests \cup {None}]
        /\ \A x \in Devices, q \in Requests \ {r} : deviceLock'[x] = q <=> deviceLock[x] = q
    BY <1>1, ReleasedLocks DEF End
  <1>6. /\ worldLock' \in [Worlds -> Requests \cup {None}]
        /\ \A x \in Worlds, q \in Requests \ {r} : worldLock'[x] = q <=> worldLock[x] = q
    BY <1>1, ReleasedLocks DEF End
  <1>7. request'[r] = NoRequest /\ \A q \in Requests \ {r} : request'[q] = request[q]
    BY <1>1 DEF End
  <1> QED
    BY <1>3, <1>4, <1>5, <1>6, <1>7 DEF RequestTypeOK, RequestRows

\* A request on rows that nobody has locked, or whose locked rows it leaves as
\* they are, with the same transactions under way.
LEMMA OthersKeepLocks ==
  ASSUME Assumed, Inv, UNCHANGED <<request, locks>>,
         \A c \in Codes : codeLock[c] # None /\ code[c].state = "open" => code'[c].state = "open",
         \A d \in Devices : device'[d] = device[d]
                             \/ /\ deviceLock[d] = None /\ device'[d].world = device[d].world
                                /\ device'[d].owner = device[d].owner
  PROVE  LocksInv'
  <1>1. RequestTypeOK'
    BY DEF Inv, RequestTypeOK, locks
  <1>2. PairingHolds'
    BY DEF Inv, PairingHolds, locks, Assumed, RequestAssumption
  <1>3. UploadHolds'
    BY DEF Inv, UploadHolds, Authorized, locks, Assumed, RequestAssumption
  <1>4. CheckHolds'
    <2>1. \A d \in Devices : device'[d].world = device[d].world /\ device'[d].owner = device[d].owner
      OBVIOUS
    <2>2. \A d \in Devices, w \in Worlds : OwnedByOther(d, w)' <=> OwnedByOther(d, w)
      BY <2>1 DEF OwnedByOther
    <2> SUFFICES ASSUME NEW r \in Requests, request[r].at = "publish"
                 PROVE  /\ worldLock[request[r].world] = r
                        /\ ~OwnedByOther(request[r].device, request[r].world)'
      BY DEF CheckHolds, locks
    <2> QED
      BY <2>2 DEF Inv, UploadHolds, CheckHolds
  <1> QED
    BY <1>1, <1>2, <1>3, <1>4 DEF LocksInv

LEMMA CodeStepsKeepLocks ==
  ASSUME Assumed, Inv, CodeStep
  PROVE  LocksInv' /\ ServerNext
  <1>0. code \in [Codes -> CodeRows] /\ codeLock \in [Codes -> Requests \cup {None}]
    BY DEF Inv, ServerInv, ServerTypeOK, CodeRows, RequestTypeOK
  <1>1. ASSUME NEW c \in Codes, FinishCode(c) \/ TimePasses(c)
        PROVE  LocksInv' /\ ServerNext
    <2>1. \A x \in Codes : codeLock[x] # None /\ code[x].state = "open" => code'[x].state = "open"
      BY <1>0, <1>1 DEF FinishCode, TimePasses, OpenCode, ExpireCode, CodeRows
    <2>2. UNCHANGED <<request, locks>> /\ UNCHANGED device /\ (OpenCode(c) \/ ExpireCode(c))
      BY <1>1 DEF FinishCode, TimePasses, OpenCode, ExpireCode
    <2>3. ServerNext
      BY <2>2 DEF ServerNext
    <2> QED
      BY <2>1, <2>2, <2>3, OthersKeepLocks
  <1>2. ASSUME NEW c \in Codes, NEW u \in Users, CreateCode(c, u)
        PROVE  LocksInv' /\ ServerNext
    <2>1. \A x \in Codes : codeLock[x] # None /\ code[x].state = "open" => code'[x].state = "open"
      BY <1>0, <1>2 DEF CreateCode, BeginCode, Withdrawn, CodeRows
    <2>2. UNCHANGED <<request, locks>> /\ UNCHANGED device /\ BeginCode(c, u)
      BY <1>2 DEF CreateCode, BeginCode
    <2>3. ServerNext
      BY <2>2 DEF ServerNext
    <2> QED
      BY <2>1, <2>2, <2>3, OthersKeepLocks
  <1> QED
    BY <1>1, <1>2 DEF CodeStep

\* A device is revoked once nobody publishes for it.
LEMMA RevokeKeepsLocks ==
  ASSUME Assumed, Inv, NEW d \in Devices, RevokeDevice(d)
  PROVE  LocksInv' /\ ServerNext
  <1>0. device \in [Devices -> DeviceRows]
    BY DEF Inv, ServerInv, ServerTypeOK, DeviceRows
  <1>1. \A e \in Devices : device'[e] = device[e]
                            \/ /\ deviceLock[e] = None /\ device'[e].world = device[e].world
                               /\ device'[e].owner = device[e].owner
    BY <1>0 DEF RevokeDevice, Revoke, DeviceRows
  <1>2. UNCHANGED <<request, locks>> /\ UNCHANGED code /\ Revoke(d)
    BY DEF RevokeDevice, Revoke
  <1>3. ServerNext
    BY <1>2 DEF ServerNext
  <1> QED
    BY <1>1, <1>2, <1>3, OthersKeepLocks

LEMMA RefuseKeepsLocks ==
  ASSUME Assumed, Inv, NEW r \in Requests, Refuse(r)
  PROVE  LocksInv' /\ UNCHANGED serverVars
  <1>1. End(r) /\ UNCHANGED <<code, device, world>> /\ UNCHANGED serverVars
    BY DEF Refuse, serverVars
  <1>2. /\ RequestTypeOK' /\ request'[r] = NoRequest
        /\ \A q \in Requests \ {r} :
              /\ request'[q] = request[q]
              /\ \A c \in Codes : codeLock[c] = q => codeLock'[c] = q
              /\ \A d \in Devices : deviceLock[d] = q => deviceLock'[d] = q
              /\ \A w \in Worlds : worldLock[w] = q => worldLock'[w] = q
    BY <1>1, EndKeepsLocks
  <1>3. PairingHolds'
    BY <1>1, <1>2 DEF Inv, PairingHolds, NoRequest
  <1>4. UploadHolds'
    BY <1>1, <1>2 DEF Inv, UploadHolds, Authorized, NoRequest
  <1>5. CheckHolds'
    BY <1>1, <1>2 DEF Inv, UploadHolds, CheckHolds, OwnedByOther, NoRequest
  <1> QED
    BY <1>1, <1>2, <1>3, <1>4, <1>5 DEF LocksInv

\* The code is locked until the device is there.
LEMMA PairingKeepsLocks ==
  ASSUME Assumed, Inv, NEW r \in Requests,
         (\E c \in Codes : ReadCode(r, c)) \/ (\E d \in Devices : Pair(r, d))
  PROVE  LocksInv' /\ [ServerNext]_serverVars
  <1>0. /\ request \in [Requests -> RequestRows] /\ codeLock \in [Codes -> Requests \cup {None}]
        /\ code \in [Codes -> CodeRows] /\ device \in [Devices -> DeviceRows]
    BY DEF Inv, ServerInv, ServerTypeOK, CodeRows, DeviceRows, RequestTypeOK, RequestRows
  <1>1. ASSUME NEW c \in Codes, ReadCode(r, c)
        PROVE  LocksInv' /\ UNCHANGED serverVars
    <2> DEFINE asked == [at |-> "pair", code |-> c, device |-> None, world |-> None, time |-> 0]
    <2>1. asked \in RequestRows /\ asked.at = "pair" /\ asked.code = c
      BY DEF RequestRows, Assumed, TimeAssumption
    <2>2. /\ request' = [request EXCEPT ![r] = asked] /\ codeLock' = [codeLock EXCEPT ![c] = r]
          /\ UNCHANGED <<code, device, world, published, deviceLock, worldLock>>
          /\ codeLock[c] = None /\ code[c].state = "open" /\ request[r].at = "idle"
      BY <1>1 DEF ReadCode, serverVars
    <2>3. request'[r] = asked /\ \A q \in Requests \ {r} : request'[q] = request[q]
      BY <1>0, <2>2
    <2>4. RequestTypeOK'
      BY <1>0, <2>1, <2>2 DEF Inv, RequestTypeOK, RequestRows
    <2>5. PairingHolds'
      <3> SUFFICES ASSUME NEW q \in Requests, request'[q].at = "pair"
                   PROVE  /\ request'[q].code \in Codes
                          /\ codeLock'[request'[q].code] = q
                          /\ code'[request'[q].code].state = "open"
        BY DEF PairingHolds
      <3>1. CASE q = r
        BY <3>1, <1>0, <2>1, <2>2, <2>3
      <3>2. CASE q # r
        BY <3>2, <1>0, <2>2, <2>3 DEF Inv, PairingHolds, Assumed, RequestAssumption
      <3> QED
        BY <3>1, <3>2
    <2>6. UploadHolds'
      BY <2>1, <2>2, <2>3 DEF Inv, UploadHolds, Authorized
    <2>7. CheckHolds'
      BY <2>1, <2>2, <2>3 DEF Inv, CheckHolds, OwnedByOther
    <2> QED
      BY <2>2, <2>4, <2>5, <2>6, <2>7 DEF LocksInv, serverVars
  <1>2. ASSUME NEW d \in Devices, Pair(r, d)
        PROVE  LocksInv' /\ ServerNext
    <2> DEFINE c == request[r].code
               row == [state |-> "paired", owner |-> code[c].owner, code |-> c, world |-> None]
    <2>1. /\ request[r].at = "pair" /\ device[d] = NoDevice /\ End(r)
          /\ code' = [code EXCEPT ![c].state = "consumed"]
          /\ device' = [device EXCEPT ![d] = row]
          /\ UNCHANGED <<world, published>>
      BY <1>2 DEF Pair
    <2>2. c \in Codes /\ codeLock[c] = r /\ code[c].state = "open"
      BY <2>1 DEF Inv, PairingHolds
    <2>3. /\ RequestTypeOK' /\ request'[r] = NoRequest
          /\ \A q \in Requests \ {r} :
                /\ request'[q] = request[q]
                /\ \A x \in Codes : codeLock[x] = q => codeLock'[x] = q
                /\ \A e \in Devices : deviceLock[e] = q => deviceLock'[e] = q
                /\ \A w \in Worlds : worldLock[w] = q => worldLock'[w] = q
      BY <2>1, EndKeepsLocks
    <2>4. /\ \A x \in Codes \ {c} : code'[x] = code[x]
          /\ device'[d] = row /\ \A e \in Devices \ {d} : device'[e] = device[e]
      BY <1>0, <2>1
    <2>5. PairingHolds'
      BY <2>2, <2>3, <2>4 DEF Inv, PairingHolds, NoRequest
    <2>6. ASSUME NEW q \in Requests, request'[q].at \in {"find", "insert", "publish"}
          PROVE  q # r /\ request[q].at = request'[q].at /\ request[q].device \in Devices \ {d}
      BY <2>1, <2>3, <2>6 DEF Inv, UploadHolds, Authorized, NoRequest, NoDevice
    <2>7. UploadHolds'
      BY <2>3, <2>4, <2>6 DEF Inv, UploadHolds, Authorized
    <2>8. CheckHolds'
      <3> SUFFICES ASSUME NEW q \in Requests, request'[q].at = "publish"
                   PROVE  (/\ worldLock[request[q].world] = q
                           /\ ~OwnedByOther(request[q].device, request[q].world))'
        BY DEF CheckHolds
      <3>1. q # r /\ request'[q] = request[q] /\ request[q].at = "publish"
            /\ request[q].device \in Devices \ {d} /\ request[q].world \in Worlds
        BY <2>3, <2>6 DEF Inv, UploadHolds
      <3>2. row.world # request[q].world
        BY <3>1 DEF Assumed, AbsentAssumption
      <3> QED
        BY <3>1, <3>2, <2>3, <2>4 DEF Inv, CheckHolds, OwnedByOther
    <2>9. Consume(c, d)
      BY <2>1, <2>2 DEF Consume
    <2>10. ServerNext
      BY <2>2, <2>9 DEF ServerNext
    <2> QED
      BY <2>3, <2>5, <2>7, <2>8, <2>10 DEF LocksInv
  <1> QED
    BY <1>1, <1>2

\* The first two statements of a publication; Commit is the whole of it.
LEMMA UploadKeepsLocks ==
  ASSUME Assumed, Inv, NEW r \in Requests,
         \/ \E d \in Devices, w \in Worlds, t \in Times : BeginUpload(r, d, w, t)
         \/ MissWorld(r)
  PROVE  LocksInv' /\ UNCHANGED serverVars
  <1>0. /\ request \in [Requests -> RequestRows]
        /\ deviceLock \in [Devices -> Requests \cup {None}]
    BY DEF Inv, RequestTypeOK, RequestRows
  <1>1. ASSUME NEW d \in Devices, NEW w \in Worlds, NEW t \in Times, BeginUpload(r, d, w, t)
        PROVE  LocksInv' /\ UNCHANGED serverVars
    <2> DEFINE asked == [at |-> "find", code |-> None, device |-> d, world |-> w, time |-> t]
    <2>1. asked \in RequestRows
      BY DEF RequestRows, Times, Assumed, TimeAssumption
    <2>2. /\ request' = [request EXCEPT ![r] = asked] /\ deviceLock' = [deviceLock EXCEPT ![d] = r]
          /\ UNCHANGED <<code, device, world, published, codeLock, worldLock>>
          /\ deviceLock[d] = None /\ request[r].at = "idle"
          /\ Authorized(d) /\ device[d].world \in {None, w}
      BY <1>1 DEF BeginUpload, serverVars
    <2>3. request'[r] = asked /\ \A q \in Requests \ {r} : request'[q] = request[q]
      BY <1>0, <2>2
    <2>4. RequestTypeOK'
      BY <1>0, <2>1, <2>2 DEF Inv, RequestTypeOK, RequestRows
    <2>5. PairingHolds'
      BY <2>2, <2>3 DEF Inv, PairingHolds
    <2>6. UploadHolds'
      <3> SUFFICES ASSUME NEW q \in Requests, request'[q].at \in {"find", "insert", "publish"}
                   PROVE  (/\ request[q].device \in Devices /\ request[q].world \in Worlds
                           /\ request[q].time \in Times
                           /\ deviceLock[request[q].device] = q
                           /\ Authorized(request[q].device)
                           /\ device[request[q].device].world \in {None, request[q].world})'
        BY DEF UploadHolds
      <3>1. CASE q = r
        BY <3>1, <1>0, <2>2, <2>3 DEF Authorized
      <3>2. CASE q # r
        BY <3>2, <1>0, <2>2, <2>3 DEF Inv, UploadHolds, Authorized, Assumed, RequestAssumption
      <3> QED
        BY <3>1, <3>2
    <2>7. CheckHolds'
      BY <2>1, <2>2, <2>3 DEF Inv, CheckHolds, OwnedByOther
    <2> QED
      BY <2>2, <2>4, <2>5, <2>6, <2>7 DEF LocksInv, serverVars
  <1>2. ASSUME MissWorld(r)
        PROVE  LocksInv' /\ UNCHANGED serverVars
    <2>1. /\ request' = [request EXCEPT ![r].at = "insert"] /\ request[r].at = "find"
          /\ UNCHANGED <<code, device, world, published, codeLock, deviceLock, worldLock>>
      BY <1>2 DEF MissWorld, serverVars, locks
    <2>2. /\ request'[r].at = "insert" /\ request'[r].device = request[r].device
          /\ request'[r].world = request[r].world /\ request'[r].time = request[r].time
          /\ \A q \in Requests \ {r} : request'[q] = request[q]
      BY <1>0, <2>1 DEF RequestRows
    <2>3. request' \in [Requests -> RequestRows]
      BY <1>0, <2>1 DEF RequestRows
    <2>4. RequestTypeOK'
      BY <2>1, <2>3 DEF Inv, RequestTypeOK, RequestRows
    <2>5. PairingHolds'
      BY <2>1, <2>2 DEF Inv, PairingHolds
    <2>6. UploadHolds'
      BY <2>1, <2>2 DEF Inv, UploadHolds, Authorized
    <2>7. CheckHolds'
      BY <2>1, <2>2 DEF Inv, CheckHolds, OwnedByOther
    <2> QED
      BY <2>1, <2>4, <2>5, <2>6, <2>7 DEF LocksInv, serverVars
  <1> QED
    BY <1>1, <1>2

\* From here to the commit nobody else can tie a device to the world: the row is
\* locked, and a world that is only now inserted is no device's.
LEMMA LockingTheWorldKeepsLocks ==
  ASSUME Assumed, Inv, NEW r \in Requests, FindWorld(r) \/ InsertWorld(r)
  PROVE  LocksInv' /\ UNCHANGED serverVars
  <1> DEFINE d == request[r].device
             w == request[r].world
  <1>0. /\ request \in [Requests -> RequestRows]
        /\ worldLock \in [Worlds -> Requests \cup {None}]
    BY DEF Inv, RequestTypeOK, RequestRows
  <1>1. /\ request[r].at \in {"find", "insert"} /\ worldLock[w] = None
        /\ request' = [request EXCEPT ![r].at = "publish"] /\ worldLock' = [worldLock EXCEPT ![w] = r]
        /\ UNCHANGED <<code, device, world, published, codeLock, deviceLock>>
    BY DEF FindWorld, InsertWorld, GoOn, serverVars
  <1>2. /\ request'[r].at = "publish" /\ request'[r].device = d
        /\ request'[r].world = w /\ request'[r].time = request[r].time
        /\ \A q \in Requests \ {r} : request'[q] = request[q]
    BY <1>0, <1>1 DEF RequestRows
  <1>3. d \in Devices /\ w \in Worlds
    BY <1>1 DEF Inv, UploadHolds
  <1>4. RequestTypeOK'
    <2>1. request' \in [Requests -> RequestRows]
      BY <1>0, <1>1 DEF RequestRows
    <2> QED
      BY <1>0, <1>1, <2>1 DEF Inv, RequestTypeOK, RequestRows
  <1>5. PairingHolds'
    BY <1>1, <1>2 DEF Inv, PairingHolds
  <1>6. UploadHolds'
    BY <1>1, <1>2 DEF Inv, UploadHolds, Authorized
  <1>7. ~OwnedByOther(d, w)
    <2>1. CASE FindWorld(r)
      BY <2>1, <1>3 DEF FindWorld, Inv, ServerInv, WorldHasOneOwner, OwnedByOther,
                        Assumed, AbsentAssumption
    <2>2. CASE InsertWorld(r)
      BY <2>2, <1>3 DEF InsertWorld, Inv, ServerInv, RowsOK, OwnedByOther, Assumed, AbsentAssumption
    <2> QED
      BY <2>1, <2>2
  <1>8. CheckHolds'
    <2> SUFFICES ASSUME NEW q \in Requests, request'[q].at = "publish"
                 PROVE  (/\ worldLock[request[q].world] = q
                         /\ ~OwnedByOther(request[q].device, request[q].world))'
      BY DEF CheckHolds
    <2>1. CASE q = r
      BY <2>1, <1>0, <1>1, <1>2, <1>3, <1>7 DEF OwnedByOther
    <2>2. CASE q # r
      BY <2>2, <1>0, <1>1, <1>2, <1>3 DEF Inv, CheckHolds, OwnedByOther, Assumed, RequestAssumption
    <2> QED
      BY <2>1, <2>2
  <1> QED
    BY <1>1, <1>4, <1>5, <1>6, <1>8 DEF LocksInv, serverVars

\* The commit does what was checked statement by statement, as if at once.
LEMMA CommitKeepsLocks ==
  ASSUME Assumed, Inv, NEW r \in Requests, Commit(r)
  PROVE  LocksInv' /\ ServerNext
  <1> DEFINE d == request[r].device
             w == request[r].world
             t == request[r].time
  <1>0. device \in [Devices -> DeviceRows]
    BY DEF Inv, ServerInv, ServerTypeOK, DeviceRows
  <1>1. /\ request[r].at = "publish" /\ End(r) /\ t >= world[w].time
        /\ device' = [device EXCEPT ![d].world = w]
        /\ world' = [world EXCEPT ![w] = [known |-> TRUE, time |-> t]]
        /\ published' = published \cup {<<d, w, t>>} /\ UNCHANGED code
    BY DEF Commit
  <1>2. /\ d \in Devices /\ w \in Worlds /\ t \in Times /\ deviceLock[d] = r
        /\ Authorized(d) /\ device[d].world \in {None, w}
        /\ worldLock[w] = r /\ ~OwnedByOther(d, w)
    BY <1>1 DEF Inv, UploadHolds, CheckHolds
  <1>3. Publish(d, w, t)
    BY <1>1, <1>2 DEF Publish, MayPublish
  <1>4. ServerNext
    BY <1>2, <1>3 DEF ServerNext
  <1>5. /\ RequestTypeOK' /\ request'[r] = NoRequest
        /\ \A q \in Requests \ {r} :
              /\ request'[q] = request[q]
              /\ \A c \in Codes : codeLock[c] = q => codeLock'[c] = q
              /\ \A e \in Devices : deviceLock[e] = q => deviceLock'[e] = q
              /\ \A x \in Worlds : worldLock[x] = q => worldLock'[x] = q
    BY <1>1, EndKeepsLocks
  <1>6. /\ \A e \in Devices \ {d} : device'[e] = device[e]
        /\ device'[d].world = w
        /\ \A e \in Devices : device'[e].owner = device[e].owner
    BY <1>0, <1>1, <1>2 DEF DeviceRows
  <1>7. PairingHolds'
    BY <1>1, <1>5 DEF Inv, PairingHolds, NoRequest
  <1>8. UploadHolds'
    <2>1. ASSUME NEW q \in Requests, request'[q].at \in {"find", "insert", "publish"}
          PROVE  q # r /\ request'[q] = request[q] /\ request[q].device \in Devices \ {d}
      BY <2>1, <1>2, <1>5 DEF Inv, UploadHolds, NoRequest
    <2> QED
      BY <2>1, <1>5, <1>6 DEF Inv, UploadHolds, Authorized
  <1>9. CheckHolds'
    <2> SUFFICES ASSUME NEW q \in Requests, request'[q].at = "publish"
                 PROVE  (/\ worldLock[request[q].world] = q
                         /\ ~OwnedByOther(request[q].device, request[q].world))'
      BY DEF CheckHolds
    <2>1. q # r /\ request'[q] = request[q] /\ request[q].at = "publish"
      BY <1>5 DEF NoRequest
    <2>2. /\ request[q].device \in Devices /\ request[q].world \in Worlds \ {w}
          /\ worldLock[request[q].world] = q /\ ~OwnedByOther(request[q].device, request[q].world)
      BY <2>1, <1>2 DEF Inv, UploadHolds, CheckHolds
    <2>3. \A e \in Devices : device'[e].world = request[q].world => device[e].world = request[q].world
      BY <2>2, <1>6
    <2> QED
      BY <2>1, <2>2, <2>3, <1>5, <1>6 DEF OwnedByOther
  <1> QED
    BY <1>4, <1>5, <1>7, <1>8, <1>9 DEF LocksInv

-----------------------------------------------------------------------------
LEMMA InvHoldsAtFirst ==
  ASSUME Assumed, Init
  PROVE  Inv
  <1>1. ServerInv
    BY ServerInvHoldsAtFirst DEF Init
  <1>2. LocksInv
    BY DEF Init, LocksInv, RequestTypeOK, PairingHolds, UploadHolds, CheckHolds, NoRequest,
           Assumed, TimeAssumption
  <1> QED
    BY <1>1, <1>2 DEF Inv, LocksInv

LEMMA StepsAreRequests ==
  ASSUME Assumed, Inv, [Next]_vars
  PROVE  Inv' /\ [ServerNext]_serverVars
  <1>1. LocksInv' /\ [ServerNext]_serverVars
    <2>1. CASE CodeStep
      BY <2>1, CodeStepsKeepLocks
    <2>2. CASE \E d \in Devices : RevokeDevice(d)
      BY <2>2, RevokeKeepsLocks
    <2>3. ASSUME NEW r \in Requests, RequestStep(r)
          PROVE  LocksInv' /\ [ServerNext]_serverVars
      BY <2>3, RefuseKeepsLocks, PairingKeepsLocks, UploadKeepsLocks, LockingTheWorldKeepsLocks,
         CommitKeepsLocks DEF RequestStep
    <2>4. CASE UNCHANGED vars
      <3>1. UNCHANGED <<request, locks>> /\ UNCHANGED <<code, device>> /\ UNCHANGED serverVars
        BY <2>4 DEF vars, serverVars
      <3> QED
        BY <3>1, OthersKeepLocks
    <2> QED
      BY <2>1, <2>2, <2>3, <2>4 DEF Next
  <1>2. ServerInv'
    BY <1>1, RequestsKeepPromises DEF Inv
  <1> QED
    BY <1>1, <1>2 DEF Inv, LocksInv

\* The row locks are enough: consuming a code and publishing a snapshot, with any
\* number of transactions between each other's statements, happen at their
\* commit or not at all.
THEOREM RequestsAreAtomic ==
  ASSUME Assumed
  PROVE  Spec => Atomic
  <1>1. Init => Inv /\ ServerInit
    BY InvHoldsAtFirst DEF Init
  <1>2. Inv /\ [Next]_vars => Inv' /\ [ServerNext]_serverVars
    BY StepsAreRequests
  <1> QED
    BY <1>1, <1>2, PTL DEF Spec, Atomic, ServerSpec

\* Every transaction keeps what it has checked until it commits, because it holds
\* the rows.
THEOREM LocksAreHeld ==
  ASSUME Assumed
  PROVE  Spec => [](TypeOK /\ LocksOK)
  <1>1. Init => Inv
    BY InvHoldsAtFirst
  <1>2. Inv /\ [Next]_vars => Inv'
    BY StepsAreRequests
  <1>3. Inv => TypeOK /\ LocksOK
    BY DEF Inv, ServerInv, TypeOK, LocksOK
  <1> QED
    BY <1>1, <1>2, <1>3, PTL DEF Spec

\* A world has one owner, a code makes one device, a revoked device publishes
\* nothing and the newest save stays, in the database as it is.
THEOREM ServerKeepsPromises ==
  ASSUME Assumed
  PROVE  Spec => ServerPromises
BY RequestsAreAtomic, PromisesAreKept DEF Atomic

-----------------------------------------------------------------------------
(* The client (SyncClient). *)

Saves == Times \X (1..MaxParser)
Configs == [device : Devices \cup {None}, last : Saves \cup {None}]

Commands == {"none", "init", "run", "once"}
Places == {"end", "cycle", "call", "save", "wait"}
Calls == {"pair", "heartbeat", "upload", None}
Snaps == Saves \cup Codes \cup {None}

ProcessRows == [cmd : Commands, at : Places, conf : Configs, snap : Snaps, call : Calls,
                attempt : 0..3, stopping : BOOLEAN]

\* What a configuration remembers as uploaded was accepted from its device.
Accepted(conf, acc) == conf.last # None => <<conf.device, conf.last>> \in acc

\* What a process is about to send, or has just had answered.
Asking(row) ==
  \/ row.cmd = "init" /\ row.call = "pair" /\ row.snap \in Codes
  \/ /\ row.cmd \in {"run", "once"} /\ row.snap \in Saves
     /\ \/ row.call = "heartbeat" /\ row.conf.last = row.snap
        \/ row.call = "upload"

Answered(row, acc) ==
  \/ row.cmd = "init" /\ row.conf.device \in Devices /\ row.conf.last = None
  \/ /\ row.cmd \in {"run", "once"} /\ row.snap \in Saves
     /\ <<row.conf.device, row.snap>> \in acc

RowOK(row, acc) ==
  /\ row \in ProcessRows
  /\ Accepted(row.conf, acc)
  /\ row.cmd \in {"run", "once"} => row.conf.device \in Devices
  /\ row.at \in {"cycle", "wait"} => row.cmd \in {"run", "once"}
  /\ row.at = "call" => row.attempt # 0 /\ Asking(row)
  /\ row.at = "save" => Answered(row, acc)

\* A request, of a process or given up by one.
RequestOK(q) ==
  \/ q.kind = "pair" /\ q.code \in Codes
  \/ q.kind = "heartbeat" /\ q.device \in Devices
  \/ q.kind = "upload" /\ q.device \in Devices /\ q.snap \in Saves

FileOK(conf, acc) ==
  conf \in Configs /\ Accepted(conf, acc) /\ (conf = Client!NoFile \/ conf.device \in Devices)

ClientInv ==
  /\ clientSave \in Times /\ parser \in 1..MaxParser
  /\ FileOK(file, accepted)
  /\ proc \in [Processes -> ProcessRows]
  /\ \A p \in Processes : RowOK(proc[p], accepted)
  /\ \A q \in strays : RequestOK(q)

ClientAssumed == Assumed /\ Client!ClientAssumption

LEMMA NoProcessIsOK ==
  ASSUME ClientAssumed, NEW acc
  PROVE  RowOK(Client!NoProcess, acc) /\ FileOK(Client!NoFile, acc)
  <1>1. Client!NoFile \in Configs /\ Client!NoFile.last = None
    BY DEF Client!NoFile, Configs
  <1>2. /\ Client!NoProcess \in ProcessRows /\ Client!NoProcess.conf = Client!NoFile
        /\ Client!NoProcess.cmd = "none" /\ Client!NoProcess.at = "end"
    BY <1>1 DEF Client!NoProcess, ProcessRows, Commands, Places, Calls, Snaps
  <1> QED
    BY <1>1, <1>2 DEF RowOK, FileOK, Accepted

\* What a process or a file remembers stays true when more is accepted.
LEMMA MoreIsAccepted ==
  ASSUME NEW acc, NEW more, acc \subseteq more
  PROVE  /\ \A row : RowOK(row, acc) => RowOK(row, more)
         /\ \A conf : FileOK(conf, acc) => FileOK(conf, more)
BY DEF RowOK, FileOK, Accepted, Answered

LEMMA RequestIsOK ==
  ASSUME ClientInv, NEW p \in Processes, proc[p].at = "call"
  PROVE  RequestOK(Client!Request(p))
  <1>1. RowOK(proc[p], accepted) /\ Asking(proc[p])
    BY DEF ClientInv, RowOK
  <1> QED
    BY <1>1 DEF RowOK, Asking, RequestOK, Client!Request, ProcessRows, Commands, Places, Calls, Snaps

\* An error, an attempt and the end of a cycle leave a process that may go on.
LEMMA FailedIsOK ==
  ASSUME ClientAssumed, ClientInv, NEW p \in Processes
  PROVE  /\ RowOK(Client!Failed(p), accepted)
         /\ proc[p].at = "call" => RowOK(Client!NextAttempt(p), accepted)
         /\ \A status : RowOK(Client!FailedWith(p, status), accepted)
  <1> DEFINE row == proc[p]
  <1>1. RowOK(row, accepted)
    BY DEF ClientInv
  <1>2. RowOK(Client!NoProcess, accepted)
    BY NoProcessIsOK
  <1>3. ASSUME row.cmd = "run"
        PROVE  RowOK([row EXCEPT !.at = "wait", !.snap = None, !.call = None], accepted)
    BY <1>1, <1>3 DEF RowOK, ProcessRows, Commands, Places, Calls, Snaps, Accepted
  <1>4. RowOK(Client!Failed(p), accepted)
    BY <1>2, <1>3 DEF Client!Failed
  <1>5. ASSUME row.at = "call"
        PROVE  RowOK(Client!NextAttempt(p), accepted)
    <2>1. CASE row.attempt < 3
      <3>1. RowOK([row EXCEPT !.attempt = row.attempt + 1], accepted)
        BY <2>1, <1>1, <1>5 DEF RowOK, ProcessRows, Commands, Places, Calls, Snaps, Accepted, Asking
      <3> QED
        BY <2>1, <3>1 DEF Client!NextAttempt, Client!Attempts
    <2>2. CASE ~(row.attempt < 3)
      BY <2>2, <1>4 DEF Client!NextAttempt, Client!Attempts
    <2> QED
      BY <2>1, <2>2
  <1> QED
    BY <1>2, <1>4, <1>5 DEF Client!FailedWith

LEMMA EndCycleIsOK ==
  ASSUME ClientAssumed, ClientInv, NEW p \in Processes, proc[p].at = "save",
         proc[p].cmd \in {"run", "once"}
  PROVE  RowOK(Client!EndCycle(p), accepted) /\ FileOK(Client!Recorded(p), accepted)
  <1> DEFINE row == proc[p]
             conf == [row.conf EXCEPT !.last = row.snap]
  <1>1. RowOK(row, accepted) /\ Answered(row, accepted)
    BY DEF ClientInv, RowOK
  <1>2. /\ row \in ProcessRows /\ row.conf \in Configs /\ row.conf.device \in Devices
        /\ row.snap \in Saves /\ <<row.conf.device, row.snap>> \in accepted
    BY <1>1 DEF RowOK, Answered, ProcessRows, Commands, Places, Calls, Snaps
  <1>3. /\ conf \in Configs /\ conf.device = row.conf.device /\ conf.last = row.snap
    BY <1>2 DEF Configs
  <1>4. FileOK(conf, accepted)
    BY <1>2, <1>3 DEF FileOK, Accepted
  <1>5. ASSUME row.cmd = "run"
        PROVE  RowOK([row EXCEPT !.at = "wait", !.conf = conf, !.snap = None, !.call = None], accepted)
    BY <1>2, <1>3, <1>4, <1>5 DEF RowOK, FileOK, ProcessRows, Commands, Places, Calls, Snaps
  <1> QED
    BY <1>4, <1>5, NoProcessIsOK DEF Client!EndCycle, Client!Recorded

\* A step of one process, of those that have no effect on the server.
LEMMA LocalStepKeepsClient ==
  ASSUME ClientInv, NEW p \in Processes, NEW row, Client!Set(p, row), RowOK(row, accepted'),
         accepted \subseteq accepted', FileOK(file', accepted'),
         UNCHANGED <<clientSave, parser>>, \A q \in strays' : RequestOK(q)
  PROVE  ClientInv'
  <1>1. proc' \in [Processes -> ProcessRows]
    BY DEF ClientInv, Client!Set, RowOK
  <1>2. \A x \in Processes : RowOK(proc'[x], accepted')
    BY MoreIsAccepted DEF ClientInv, Client!Set
  <1> QED
    BY <1>1, <1>2 DEF ClientInv

LEMMA OthersKeepClient ==
  ASSUME ClientInv, clientSave' \in Times, parser' \in 1..MaxParser, UNCHANGED proc,
         accepted \subseteq accepted', FileOK(file', accepted'), \A q \in strays' : RequestOK(q)
  PROVE  ClientInv'
BY MoreIsAccepted DEF ClientInv

\* The server carries a request out as one of SyncServer's.
LEMMA ServedIsOneRequest ==
  ASSUME ClientAssumed, NEW q, RequestOK(q), NEW d \in Devices, Client!Served(q, d)
  PROVE  [ServerNext]_serverVars /\ accepted \subseteq accepted'
  <1>1. CASE q.kind = "pair" /\ Client!Served(q, d)
    <2>1. Consume(q.code, d) /\ q.code \in Codes
      BY <1>1 DEF Client!Served, RequestOK, Client!Consume, Client!NoDevice, Consume, NoDevice
    <2> QED
      BY <1>1, <2>1 DEF ServerNext, Client!Served
  <1>2. CASE q.kind = "heartbeat"
    BY <1>2 DEF Client!Served, Client!serverVars, serverVars
  <1>3. CASE q.kind = "upload"
    <2>1. Publish(q.device, TheWorld, q.snap[1])
      BY <1>3 DEF Client!Served, Client!Publish, Client!MayPublish, Client!Authorized,
                  Client!OwnedByOther, Publish, MayPublish, Authorized, OwnedByOther
    <2>2. q.device \in Devices /\ TheWorld \in Worlds /\ q.snap[1] \in Times
      BY <1>3 DEF RequestOK, Saves, ClientAssumed, Client!ClientAssumption
    <2> QED
      BY <1>3, <2>1, <2>2 DEF ServerNext, Client!Served
  <1> QED
    BY <1>1, <1>2, <1>3 DEF RequestOK

LEMMA AnsweredIsOK ==
  ASSUME NEW row \in ProcessRows, NEW conf \in Configs, NEW acc, Accepted(conf, acc),
         \/ row.cmd = "init" /\ conf.device \in Devices /\ conf.last = None
         \/ /\ row.cmd \in {"run", "once"} /\ conf.device \in Devices /\ row.snap \in Saves
            /\ <<conf.device, row.snap>> \in acc
  PROVE  RowOK([row EXCEPT !.at = "save", !.conf = conf], acc)
BY DEF RowOK, Answered, ProcessRows, Commands, Places, Calls, Snaps

\* An upload that is answered has been accepted, and a heartbeat is sent only for
\* what has been.
LEMMA ReplyKeepsClient ==
  ASSUME ClientAssumed, ClientInv, NEW p \in Processes, Client!Reply(p)
  PROVE  ClientInv' /\ [ServerNext]_serverVars
  <1> DEFINE row == proc[p]
             q == Client!Request(p)
  <1>1. /\ row.at = "call" /\ UNCHANGED <<clientSave, parser, file, strays, faults>>
    BY DEF Client!Reply
  <1>2. /\ RowOK(row, accepted) /\ Asking(row) /\ RequestOK(q)
        /\ q.kind = row.call /\ q.device = row.conf.device
        /\ q.kind = "upload" => q.snap = row.snap
    BY <1>1, RequestIsOK DEF ClientInv, RowOK, Client!Request
  <1>3. ASSUME NEW d \in Devices, Client!Served(q, d),
               Client!Set(p, [row EXCEPT !.at = "save",
                 !.conf = IF q.kind = "pair" THEN [device |-> d, last |-> None] ELSE row.conf])
        PROVE  ClientInv' /\ [ServerNext]_serverVars
    <2> DEFINE conf == IF q.kind = "pair" THEN [device |-> d, last |-> None] ELSE row.conf
    <2>1. [ServerNext]_serverVars /\ accepted \subseteq accepted'
      BY <1>2, <1>3, ServedIsOneRequest
    <2>2. conf \in Configs /\ row \in ProcessRows
      BY <1>2 DEF RowOK, ProcessRows, Commands, Places, Calls, Snaps, Configs
    <2>3. Accepted(conf, accepted')
      BY <1>2, <2>1 DEF RowOK, Accepted
    <2>4. ASSUME row.cmd = "init"
          PROVE  conf.device \in Devices /\ conf.last = None
      BY <2>4, <1>2 DEF Asking
    <2>5. ASSUME row.cmd \in {"run", "once"}
          PROVE  /\ conf.device \in Devices /\ row.snap \in Saves
                 /\ <<conf.device, row.snap>> \in accepted'
      <3>1. /\ row.snap \in Saves /\ row.call \in {"heartbeat", "upload"}
            /\ conf = row.conf /\ row.conf.device \in Devices
        BY <2>5, <1>2 DEF Asking, RowOK
      <3>2. CASE row.call = "upload"
        BY <3>1, <3>2, <1>2, <1>3 DEF Client!Served
      <3>3. CASE row.call = "heartbeat"
        <4>1. row.conf.last = row.snap
          BY <2>5, <3>3, <1>2 DEF Asking
        <4>2. row.snap # None
          BY <3>1 DEF Saves, ClientAssumed, Client!ClientAssumption, Client!Times, Times
        <4> QED
          BY <3>1, <4>1, <4>2, <2>3 DEF Accepted
      <3> QED
        BY <3>1, <3>2, <3>3
    <2>6. RowOK([row EXCEPT !.at = "save", !.conf = conf], accepted')
      <3>1. row.cmd = "init" \/ row.cmd \in {"run", "once"}
        BY <1>2 DEF Asking
      <3> QED
        BY <3>1, <2>2, <2>3, <2>4, <2>5, AnsweredIsOK
    <2>7. FileOK(file', accepted')
      BY <1>1, <2>1, MoreIsAccepted DEF ClientInv
    <2> QED
      BY <1>1, <1>3, <2>1, <2>6, <2>7, LocalStepKeepsClient DEF ClientInv
  <1>4. ASSUME Client!Set(p, Client!FailedWith(p, Client!StatusOf(Client!Refusal(q)))),
               UNCHANGED <<serverVars, accepted>>
        PROVE  ClientInv' /\ [ServerNext]_serverVars
    <2>1. RowOK(Client!FailedWith(p, Client!StatusOf(Client!Refusal(q))), accepted')
      BY <1>4, FailedIsOK
    <2>2. FileOK(file', accepted') /\ \A x \in strays' : RequestOK(x)
      BY <1>1, <1>4 DEF ClientInv
    <2> QED
      BY <1>1, <1>4, <2>1, <2>2, LocalStepKeepsClient
  <1> QED
    BY <1>3, <1>4 DEF Client!Reply, Client!serverVars, serverVars

\* A process that sends a request.
LEMMA SendingKeepsTypes ==
  ASSUME NEW row \in ProcessRows, NEW cmd \in Commands, NEW call \in Calls, NEW snap \in Snaps
  PROVE  /\ [row EXCEPT !.at = "call", !.attempt = 1, !.snap = snap, !.call = call] \in ProcessRows
         /\ [row EXCEPT !.cmd = cmd, !.at = "call", !.call = call, !.snap = snap, !.attempt = 1]
              \in ProcessRows
  <1>1. "call" \in Places /\ 1 \in 0..3
    BY DEF Places
  <1> QED
    BY <1>1 DEF ProcessRows

LEMMA PairingIsOK ==
  ASSUME NEW row \in ProcessRows, NEW acc, Accepted(row.conf, acc), NEW c \in Codes
  PROVE  RowOK([row EXCEPT !.cmd = "init", !.at = "call", !.call = "pair",
                           !.snap = c, !.attempt = 1], acc)
  <1> DEFINE next == [row EXCEPT !.cmd = "init", !.at = "call", !.call = "pair",
                                 !.snap = c, !.attempt = 1]
  <1>1. next \in ProcessRows
    <2>1. "init" \in Commands /\ "pair" \in Calls /\ c \in Snaps
      BY DEF Commands, Calls, Snaps
    <2> QED
      BY <2>1, SendingKeepsTypes
  <1>2. /\ next.cmd = "init" /\ next.at = "call" /\ next.call = "pair" /\ next.snap = c
        /\ next.attempt = 1 /\ next.conf = row.conf
    BY DEF ProcessRows
  <1> HIDE DEF next
  <1>3. RowOK(next, acc)
    BY <1>1, <1>2 DEF RowOK, Asking
  <1> QED
    BY <1>3 DEF next

LEMMA CallingIsOK ==
  ASSUME NEW row \in ProcessRows, NEW acc, Accepted(row.conf, acc),
         row.cmd \in {"run", "once"}, row.conf.device \in Devices,
         NEW snap \in Saves, NEW call \in {"heartbeat", "upload"},
         call = "heartbeat" => row.conf.last = snap
  PROVE  RowOK([row EXCEPT !.at = "call", !.attempt = 1, !.snap = snap, !.call = call], acc)
  <1> DEFINE next == [row EXCEPT !.at = "call", !.attempt = 1, !.snap = snap, !.call = call]
  <1>1. next \in ProcessRows
    <2>1. row.cmd \in Commands /\ call \in Calls /\ snap \in Snaps
      BY DEF Commands, Calls, Snaps
    <2> QED
      BY <2>1, SendingKeepsTypes
  <1>2. /\ next.cmd = row.cmd /\ next.at = "call" /\ next.call = call /\ next.snap = snap
        /\ next.attempt = 1 /\ next.conf = row.conf
    BY DEF ProcessRows
  <1> HIDE DEF next
  <1>3. RowOK(next, acc)
    BY <1>1, <1>2 DEF RowOK, Asking
  <1> QED
    BY <1>3 DEF next

\* A process that goes on, with what it, the file and the strays then are.
LEMMA GoingOnKeepsClient ==
  ASSUME ClientAssumed, ClientInv, NEW p \in Processes,
         \/ Client!GiveUp(p) \/ Client!CycleFails(p) \/ Client!WriteFails(p) \/ Client!Kill(p)
         \/ Client!FinishInit(p) \/ Client!FinishCycle(p) \/ Client!Wake(p) \/ Client!Signal(p)
         \/ Client!BeginCycle(p)
  PROVE  ClientInv' /\ UNCHANGED serverVars
  <1> DEFINE row == proc[p]
  <1>0. UNCHANGED <<clientSave, parser, accepted>> /\ UNCHANGED serverVars
    BY DEF Client!GiveUp, Client!CycleFails, Client!WriteFails, Client!Kill, Client!FinishInit,
           Client!FinishCycle, Client!Wake, Client!Signal, Client!BeginCycle, Client!serverVars,
           serverVars
  <1>1. RowOK(row, accepted) /\ row \in ProcessRows /\ RowOK(Client!NoProcess, accepted)
    BY NoProcessIsOK DEF ClientInv, RowOK
  <1>2. FileOK(file, accepted) /\ \A q \in strays : RequestOK(q)
    BY DEF ClientInv
  <1>3. CASE Client!GiveUp(p)
    <2>1. /\ row.at = "call" /\ Client!Set(p, Client!NextAttempt(p)) /\ UNCHANGED file
          /\ strays' \in {strays, strays \cup {Client!Request(p)}}
      BY <1>3 DEF Client!GiveUp
    <2>2. RowOK(Client!NextAttempt(p), accepted) /\ RequestOK(Client!Request(p))
      BY <2>1, FailedIsOK, RequestIsOK
    <2> QED
      BY <1>0, <1>2, <2>1, <2>2, LocalStepKeepsClient
  <1>4. CASE Client!CycleFails(p)
    <2>1. Client!Set(p, Client!Failed(p)) /\ UNCHANGED <<file, strays>>
      BY <1>4 DEF Client!CycleFails
    <2> QED
      BY <1>0, <1>2, <2>1, FailedIsOK, LocalStepKeepsClient
  <1>5. CASE Client!WriteFails(p)
    <2>1. /\ row.at = "save" /\ UNCHANGED <<file, strays>>
          /\ Client!Set(p, IF row.cmd = "run" THEN Client!EndCycle(p) ELSE Client!NoProcess)
      BY <1>5 DEF Client!WriteFails
    <2>2. RowOK(IF row.cmd = "run" THEN Client!EndCycle(p) ELSE Client!NoProcess, accepted)
      BY <1>1, <2>1, EndCycleIsOK
    <2> QED
      BY <1>0, <1>2, <2>1, <2>2, LocalStepKeepsClient
  <1>6. CASE Client!Kill(p)
    <2>1. /\ Client!Set(p, Client!NoProcess) /\ UNCHANGED file
          /\ strays' = strays \/ (row.at = "call" /\ strays' = strays \cup {Client!Request(p)})
      BY <1>6 DEF Client!Kill
    <2>2. \A q \in strays' : RequestOK(q)
      BY <1>2, <2>1, RequestIsOK
    <2> QED
      BY <1>0, <1>1, <1>2, <2>1, <2>2, LocalStepKeepsClient
  <1>7. CASE Client!FinishInit(p)
    <2>1. /\ row.cmd = "init" /\ row.at = "save" /\ Client!Set(p, Client!NoProcess)
          /\ file' = row.conf /\ UNCHANGED strays
      BY <1>7 DEF Client!FinishInit
    <2>2. FileOK(row.conf, accepted)
      BY <1>1, <2>1 DEF RowOK, Answered, FileOK, Accepted, ProcessRows
    <2> QED
      BY <1>0, <1>1, <1>2, <2>1, <2>2, LocalStepKeepsClient
  <1>8. CASE Client!FinishCycle(p)
    <2>1. /\ row.cmd \in {"run", "once"} /\ row.at = "save" /\ file' = Client!Recorded(p)
          /\ Client!Set(p, Client!EndCycle(p)) /\ UNCHANGED strays
      BY <1>8 DEF Client!FinishCycle
    <2>2. RowOK(Client!EndCycle(p), accepted) /\ FileOK(Client!Recorded(p), accepted)
      BY <2>1, EndCycleIsOK
    <2> QED
      BY <1>0, <1>2, <2>1, <2>2, LocalStepKeepsClient
  <1>9. CASE Client!Wake(p)
    <2>1. /\ row.at = "wait" /\ UNCHANGED <<file, strays>>
          /\ Client!Set(p, IF row.stopping THEN Client!NoProcess ELSE [row EXCEPT !.at = "cycle"])
      BY <1>9 DEF Client!Wake
    <2>2. RowOK([row EXCEPT !.at = "cycle"], accepted)
      BY <1>1, <2>1 DEF RowOK, ProcessRows, Places
    <2>3. RowOK(IF row.stopping THEN Client!NoProcess ELSE [row EXCEPT !.at = "cycle"], accepted)
      BY <1>1, <2>2
    <2> QED
      BY <1>0, <1>2, <2>1, <2>3, LocalStepKeepsClient
  <1>10. CASE Client!Signal(p)
    <2>1. Client!Set(p, [row EXCEPT !.stopping = TRUE]) /\ UNCHANGED <<file, strays>>
      BY <1>10 DEF Client!Signal
    <2>2. RowOK([row EXCEPT !.stopping = TRUE], accepted)
      BY <1>1 DEF RowOK, ProcessRows, Asking, Answered
    <2> QED
      BY <1>0, <1>2, <2>1, <2>2, LocalStepKeepsClient
  <1>11. CASE Client!BeginCycle(p)
    <2> DEFINE snap == <<clientSave, parser>>
               call == IF row.conf.last = snap THEN "heartbeat" ELSE "upload"
    <2>1. /\ row.at = "cycle" /\ UNCHANGED <<file, strays>>
          /\ Client!Set(p, [row EXCEPT !.at = "call", !.attempt = 1, !.snap = snap, !.call = call])
      BY <1>11 DEF Client!BeginCycle
    <2>2. snap \in Saves
      BY DEF ClientInv, Saves
    <2>3. RowOK([row EXCEPT !.at = "call", !.attempt = 1, !.snap = snap, !.call = call], accepted)
      <3>1. /\ call \in {"heartbeat", "upload"}
            /\ call = "heartbeat" => row.conf.last = snap
            /\ Accepted(row.conf, accepted) /\ row.cmd \in {"run", "once"}
            /\ row.conf.device \in Devices
        BY <1>1, <2>1 DEF RowOK
      <3> HIDE DEF snap, call
      <3> QED
        BY <1>1, <2>2, <3>1, CallingIsOK
    <2> QED
      BY <1>0, <1>2, <2>1, <2>3, LocalStepKeepsClient
  <1> QED
    BY <1>0, <1>3, <1>4, <1>5, <1>6, <1>7, <1>8, <1>9, <1>10, <1>11

LEMMA StartingKeepsClient ==
  ASSUME ClientAssumed, ClientInv, NEW p \in Processes,
         \/ \E c \in Codes : Client!StartInit(p, c)
         \/ \E cmd \in {"run", "once"} : Client!StartSync(p, cmd)
  PROVE  ClientInv' /\ UNCHANGED serverVars
  <1> DEFINE none == Client!NoProcess
  <1>0. /\ UNCHANGED <<clientSave, parser, accepted, file, strays>> /\ UNCHANGED serverVars
    BY DEF Client!StartInit, Client!StartSync, Client!serverVars, serverVars
  <1>1. FileOK(file, accepted) /\ \A q \in strays : RequestOK(q)
    BY DEF ClientInv
  <1>2. none \in ProcessRows /\ Accepted(none.conf, accepted)
    BY NoProcessIsOK DEF RowOK
  <1>3. ASSUME NEW c \in Codes, Client!StartInit(p, c)
        PROVE  ClientInv'
    <2>1. Client!Set(p, [none EXCEPT !.cmd = "init", !.at = "call", !.call = "pair",
                                     !.snap = c, !.attempt = 1])
      BY <1>3 DEF Client!StartInit
    <2>2. RowOK([none EXCEPT !.cmd = "init", !.at = "call", !.call = "pair",
                             !.snap = c, !.attempt = 1], accepted)
      BY <1>2, PairingIsOK
    <2> QED
      BY <1>0, <1>1, <2>1, <2>2, LocalStepKeepsClient
  <1>4. ASSUME NEW cmd \in {"run", "once"}, Client!StartSync(p, cmd)
        PROVE  ClientInv'
    <2>1. /\ file # Client!NoFile
          /\ Client!Set(p, [none EXCEPT !.cmd = cmd, !.at = "cycle", !.conf = file])
      BY <1>4 DEF Client!StartSync
    <2>2. file \in Configs /\ file.device \in Devices /\ Accepted(file, accepted)
      BY <1>1, <2>1 DEF FileOK
    <2>3. RowOK([none EXCEPT !.cmd = cmd, !.at = "cycle", !.conf = file], accepted)
      BY <1>2, <2>2 DEF RowOK, ProcessRows, Places, Commands
    <2> QED
      BY <1>0, <1>1, <2>1, <2>3, LocalStepKeepsClient
  <1> QED
    BY <1>0, <1>3, <1>4

LEMMA StrayKeepsClient ==
  ASSUME ClientAssumed, ClientInv, NEW q \in strays, Client!Stray(q)
  PROVE  ClientInv' /\ [ServerNext]_serverVars
  <1>1. UNCHANGED <<clientSave, parser, file, proc>> /\ strays' = strays \ {q} /\ RequestOK(q)
    BY DEF Client!Stray, ClientInv
  <1>2. [ServerNext]_serverVars /\ accepted \subseteq accepted'
    BY <1>1, ServedIsOneRequest DEF Client!Stray, Client!serverVars, serverVars
  <1>3. FileOK(file', accepted')
    BY <1>1, <1>2, MoreIsAccepted DEF ClientInv
  <1> QED
    BY <1>1, <1>2, <1>3, OthersKeepClient DEF ClientInv

\* The user and the game.
LEMMA SurroundingsKeepClient ==
  ASSUME ClientAssumed, ClientInv,
         Client!Logout \/ Client!WriteSave \/ Client!Upgrade \/ Client!AtWeb
           \/ UNCHANGED Client!vars
  PROVE  ClientInv' /\ [ServerNext]_serverVars
  <1>1. UNCHANGED <<proc, strays, accepted>>
    BY DEF Client!Logout, Client!WriteSave, Client!Upgrade, Client!AtWeb, Client!vars,
           Client!clientVars
  <1>2. clientSave' \in Times /\ parser' \in 1..MaxParser
    BY DEF Client!Logout, Client!WriteSave, Client!Upgrade, Client!AtWeb, Client!vars,
           Client!clientVars, Client!Times, Times, ClientInv, ClientAssumed,
           Client!ClientAssumption
  <1>3. FileOK(file', accepted')
    BY <1>1, NoProcessIsOK DEF ClientInv, Client!Logout, Client!WriteSave, Client!Upgrade,
           Client!AtWeb, Client!vars, Client!clientVars
  <1>4. [ServerNext]_serverVars
    <2>1. CASE Client!AtWeb
      BY <2>1 DEF Client!AtWeb, Client!OpenCode, Client!ExpireCode, Client!BeginCode,
                  Client!Withdrawn, Client!Revoke, OpenCode, ExpireCode, BeginCode, Withdrawn,
                  Revoke, ServerNext
    <2>2. CASE Client!Logout \/ Client!WriteSave \/ Client!Upgrade \/ UNCHANGED Client!vars
      BY <2>2 DEF Client!Logout, Client!WriteSave, Client!Upgrade, Client!vars,
                  Client!serverVars, serverVars
    <2> QED
      BY <2>1, <2>2
  <1> QED
    BY <1>1, <1>2, <1>3, <1>4, OthersKeepClient DEF ClientInv

LEMMA ClientInvHoldsAtFirst ==
  ASSUME ClientAssumed, Client!Init
  PROVE  ClientInv /\ ServerInit
  <1>1. FileOK(file, accepted) /\ \A p \in Processes : RowOK(proc[p], accepted)
    BY NoProcessIsOK DEF Client!Init
  <1>2. proc \in [Processes -> ProcessRows]
    BY NoProcessIsOK DEF Client!Init, RowOK
  <1>3. clientSave \in Times /\ parser \in 1..MaxParser /\ strays = {}
    BY DEF Client!Init, Times, ClientAssumed, Client!ClientAssumption, Assumed, TimeAssumption
  <1>4. ServerInit
    BY DEF Client!Init, Client!ServerInit, Client!NoCode, Client!NoDevice, ServerInit, NoCode,
           NoDevice
  <1> QED
    BY <1>1, <1>2, <1>3, <1>4 DEF ClientInv

LEMMA ClientStepsAreRequests ==
  ASSUME ClientAssumed, ClientInv, [Client!Next]_(Client!vars)
  PROVE  ClientInv' /\ [ServerNext]_serverVars
BY ReplyKeepsClient, GoingOnKeepsClient, StartingKeepsClient, StrayKeepsClient,
   SurroundingsKeepClient DEF Client!Next, Client!Step, Client!Fault, Client!Command

\* No heartbeat stands for a save that the server does not have from this device,
\* whatever is killed, given up, carried out late or logged out on the way.
THEOREM RememberedIsAccepted ==
  ASSUME ClientAssumed
  PROVE  Client!Spec => []UnchangedIsTrue
  <1>1. Client!Init => ClientInv
    BY ClientInvHoldsAtFirst
  <1>2. ClientInv /\ [Client!Next]_(Client!vars) => ClientInv'
    BY ClientStepsAreRequests
  <1>3. ClientInv => UnchangedIsTrue
    BY DEF ClientInv, FileOK, RowOK, Accepted, UnchangedIsTrue, Client!UnchangedIsTrue
  <1> QED
    BY <1>1, <1>2, <1>3, PTL DEF Client!Spec

\* What the client's processes and their late requests do to the server is a
\* sequence of its requests, so the server keeps its promises to them.
THEOREM ClientsUseTheServer ==
  ASSUME ClientAssumed
  PROVE  Client!Spec => ServerPromises
  <1>1. Client!Init => ClientInv /\ ServerInit
    BY ClientInvHoldsAtFirst
  <1>2. ClientInv /\ [Client!Next]_(Client!vars) => ClientInv' /\ [ServerNext]_serverVars
    BY ClientStepsAreRequests
  <1>3. Client!Spec => ServerSpec
    BY <1>1, <1>2, PTL DEF Client!Spec, ServerSpec
  <1> QED
    BY <1>3, PromisesAreKept DEF ClientAssumed

-----------------------------------------------------------------------------
(* The transition of a world (WorldTransition). *)

\* A player has one row.
OneRow == \A row, other \in players : row.player = other.player => row = other

PlayerRows == [player : Players, born : Move!Forms, form : Move!Forms]

\* OneForm alone is inductive; OneRow needs it, for a payload's player is known
\* by a UID, which is a form too.
MoveInv ==
  /\ players \subseteq PlayerRows
  /\ save \in [players : SUBSET Players, pals : SUBSET Pals]
  /\ uid \in Move!Forms
  /\ Move!OneForm /\ OneRow

\* What every step of the system promises of the rows of players.
KeepsRows ==
  /\ \A row \in players : \E new \in players' : Move!Id(new) = Move!Id(row)
  /\ OneRow'

-----------------------------------------------------------------------------
\* A payload in the world's form adds players who have no row yet.
LEMMA PublishKeepsRows ==
  ASSUME MoveInv, NEW form \in Move!Forms, Move!Publish(form), UNCHANGED <<save, uid>>
  PROVE  MoveInv' /\ KeepsRows
  <1> DEFINE new(p) == [player |-> p, born |-> form, form |-> form]
             joined == {p \in save.players : \A row \in players : row.player # p \/ row.form # form}
  <1>1. players' = players \cup {new(p) : p \in joined}
    BY DEF Move!Publish, Move!WithPlayers
  <1>2. joined \subseteq Players
    BY DEF MoveInv
  <1>3. \A p \in joined : new(p) \in PlayerRows /\ new(p).player = p /\ new(p).form = uid
    BY <1>2 DEF PlayerRows, Move!Publish
  <1>4. \A p \in joined, row \in players : row.player # p
    BY DEF MoveInv, Move!OneForm, Move!Publish
  <1>5. players' \subseteq PlayerRows /\ Move!OneForm'
    BY <1>1, <1>3 DEF MoveInv, Move!OneForm
  <1>6. OneRow'
    <2> SUFFICES ASSUME NEW row \in players', NEW other \in players', row.player = other.player
                 PROVE  row = other
      BY DEF OneRow
    <2>1. CASE row \in players /\ other \in players
      BY <2>1 DEF MoveInv, OneRow
    <2>2. CASE row \in players /\ other \notin players
      BY <2>2, <1>1, <1>3, <1>4
    <2>3. CASE row \notin players /\ other \in players
      BY <2>3, <1>1, <1>3, <1>4
    <2>4. CASE row \notin players /\ other \notin players
      BY <2>4, <1>1, <1>3
    <2> QED
      BY <2>1, <2>2, <2>3, <2>4
  <1>7. \A row \in players : \E r \in players' : Move!Id(r) = Move!Id(row)
    BY <1>1
  <1> QED
    BY <1>5, <1>6, <1>7 DEF MoveInv, KeepsRows

\* Both moves give every row the world's new form and keep what identifies it.
LEMMA RemappingKeepsRows ==
  ASSUME MoveInv, NEW form \in Move!Forms, players' = Move!Remapped(Move!Ids, form), uid' = form, UNCHANGED save
  PROVE  MoveInv' /\ KeepsRows
  <1> DEFINE moved(row) == [row EXCEPT !.form = form]
  <1>1. players' = {moved(row) : row \in players}
    BY DEF Move!Remapped, Move!Ids
  <1>2. \A row \in players : /\ moved(row) \in PlayerRows /\ moved(row).form = form
                             /\ moved(row).player = row.player /\ moved(row).born = row.born
    BY DEF MoveInv, PlayerRows
  <1>3. players' \subseteq PlayerRows /\ Move!OneForm'
    BY <1>1, <1>2 DEF Move!OneForm
  <1>4. OneRow'
    <2> SUFFICES ASSUME NEW a \in players, NEW b \in players, moved(a).player = moved(b).player
                 PROVE  moved(a) = moved(b)
      BY <1>1 DEF OneRow
    <2>1. a.player = b.player
      BY <1>2
    <2> QED
      BY <2>1 DEF MoveInv, OneRow
  <1>5. \A row \in players : moved(row) \in players' /\ Move!Id(moved(row)) = Move!Id(row)
    BY <1>1, <1>2 DEF Move!Id
  <1> QED
    BY <1>3, <1>4, <1>5 DEF MoveInv, KeepsRows

\* A step that leaves the players and the world's UID alone.
LEMMA OthersKeepRows ==
  ASSUME MoveInv, UNCHANGED <<players, uid>>, save' \in [players : SUBSET Players, pals : SUBSET Pals]
  PROVE  MoveInv' /\ KeepsRows
BY DEF MoveInv, Move!OneForm, OneRow, KeepsRows

LEMMA JoiningIsTyped ==
  ASSUME MoveInv, Move!Joins
  PROVE  save' \in [players : SUBSET Players, pals : SUBSET Pals]
BY DEF MoveInv, Move!Joins

-----------------------------------------------------------------------------
LEMMA MoveInvHoldsAtFirst ==
  ASSUME Move!Init
  PROVE  MoveInv
  <1>1. PICK p \in Players, q \in Pals : save = [players |-> {p}, pals |-> {q}]
    BY DEF Move!Init
  <1>2. players = {[player |-> p, born |-> "raw", form |-> "raw"]} /\ uid = "raw"
    BY <1>1 DEF Move!Init
  <1> QED
    BY <1>1, <1>2 DEF MoveInv, PlayerRows, Move!Forms, Move!OneForm, OneRow

LEMMA StepsKeepRows ==
  ASSUME MoveInv, [Move!Next]_(Move!vars)
  PROVE  MoveInv' /\ KeepsRows
  <1>1. CASE Move!Joins
    <2>1. UNCHANGED <<players, uid>>
      BY <1>1 DEF Move!Joins
    <2> QED
      BY <1>1, <2>1, JoiningIsTyped, OthersKeepRows
  <1>2. CASE Move!WorkerPublishes
    BY <1>2, PublishKeepsRows DEF Move!WorkerPublishes, Move!Forms
  <1>3. ASSUME NEW d \in MovedDevices, Move!UploadCommits(d)
        PROVE  MoveInv' /\ KeepsRows
    BY <1>3, PublishKeepsRows DEF Move!UploadCommits, Move!Forms
  <1>4. CASE Move!TransitionCommits
    BY <1>4, RemappingKeepsRows DEF Move!TransitionCommits, Move!Forms
  <1>5. CASE Move!RollbackCommits
    <2>1. transition.players = Move!Ids
      BY <1>5 DEF Move!RollbackCommits, Move!MayRestore
    <2> QED
      BY <1>5, <2>1, RemappingKeepsRows DEF Move!RollbackCommits, Move!Forms
  <1>6. CASE UNCHANGED <<players, uid, save>>
    <2>1. save' \in [players : SUBSET Players, pals : SUBSET Pals]
      BY <1>6 DEF MoveInv
    <2> QED
      BY <1>6, <2>1, OthersKeepRows
  <1>7. ASSUME NEW d \in MovedDevices,
               \/ Move!UploadBegins(d) \/ Move!UploadLocks(d) \/ Move!UploadElsewhere(d)
               \/ Move!UploadLeaves(d) \/ Move!Revoke(d)
        PROVE  UNCHANGED <<players, uid, save>>
    BY <1>7 DEF Move!UploadBegins, Move!UploadLocks, Move!UploadElsewhere, Move!UploadLeaves, Move!Revoke
  <1>8. ASSUME \/ \E q \in Pals, value \in {"shared", "private"} : Move!ToggleLooks(q, value)
               \/ Move!ToggleWrites \/ Move!TransitionBegins \/ Move!TransitionEnds
               \/ Move!RollbackBegins \/ Move!RollbackLocks \/ Move!RollbackEnds \/ UNCHANGED Move!vars
        PROVE  UNCHANGED <<players, uid, save>>
    BY <1>8 DEF Move!ToggleLooks, Move!ToggleWrites, Move!TransitionBegins, Move!TransitionEnds,
                Move!RollbackBegins, Move!RollbackLocks, Move!RollbackEnds, Move!vars
  <1> QED
    BY <1>1, <1>2, <1>3, <1>4, <1>5, <1>6, <1>7, <1>8 DEF Move!Next

\* Whatever uploads and moves do at the same time, no player is left under a UID
\* of the form the world no longer has.
THEOREM PlayersMoveTogether == Move!Spec => []OneForm
  <1>1. MoveInv => OneForm
    BY DEF MoveInv, OneForm
  <1> QED
    BY MoveInvHoldsAtFirst, StepsKeepRows, <1>1, PTL DEF Move!Spec

\* A player keeps the row to which users are bound, and is never given another.
THEOREM PlayersKeepRow == Move!Spec => PlayersKeepTheirRow
  <1>1. KeepsRows => /\ \A row \in players : \E new \in players' : Move!Id(new) = Move!Id(row)
                     /\ \A row, other \in players' : row.player = other.player => row = other
    BY DEF KeepsRows, OneRow
  <1> QED
    BY MoveInvHoldsAtFirst, StepsKeepRows, <1>1, PTL
       DEF Move!Spec, PlayersKeepTheirRow, Move!PlayersKeepTheirRow

-----------------------------------------------------------------------------
(* What the owners of pals have chosen. *)

Preferences == [Move!Forms -> [Pals -> {"none", "shared", "private"}]]
Toggles == [pal : Pals, form : Move!Forms, value : {"shared", "private"}]

ChoiceTypeOK ==
  /\ uid \in Move!Forms
  /\ prefs \in Preferences
  /\ latest.form \in Move!Forms /\ latest.pals \subseteq Pals
  /\ toggle \in Toggles \cup {NoOne}
  /\ choice \in [Pals -> {"shared", "private"}]
  /\ transition \in [state : {"none", "transitioned", "rolled_back"},
                     players : SUBSET (Players \X Move!Forms), pals : SUBSET Pals]

\* The world has the redacted UID while it is moved.
UidTellsTheState == uid = "redacted" <=> transition.state = "transitioned"

\* Before the move nothing is stored under a redacted UID, nor about to be.
NothingRedactedYet ==
  transition.state = "none" =>
    /\ latest.form = "raw"
    /\ toggle # NoOne => toggle.form = "raw"
    /\ \A q \in Pals : prefs["redacted"][q] = "none"

\* What is stored under the world's UID is what the owner chose, whether or not
\* the latest snapshot has the pal.
Follows(q) ==
  \/ q \in strayed
  \/ transition.state = "rolled_back" /\ q \notin transition.pals
  \/ prefs[uid][q] = "private" <=> choice[q] = "private"

ChoiceInv ==
  /\ ChoiceTypeOK /\ UidTellsTheState /\ NothingRedactedYet
  /\ \A q \in Pals : Follows(q)

LEMMA ChoicesHoldAtFirst ==
  ASSUME Move!Init
  PROVE  ChoiceInv
  <1>1. PICK p \in Players, q \in Pals : save = [players |-> {p}, pals |-> {q}]
    BY DEF Move!Init
  <1> QED
    BY <1>1 DEF Move!Init, Move!Forms, ChoiceInv, ChoiceTypeOK, Preferences, UidTellsTheState,
                NothingRedactedYet, Follows

LEMMA OthersKeepChoices ==
  ASSUME ChoiceInv, UNCHANGED <<uid, prefs, latest, transition, choice, strayed>>,
         toggle' = toggle \/ /\ toggle' \in Toggles /\ toggle'.form = latest.form
  PROVE  ChoiceInv'
BY DEF ChoiceInv, ChoiceTypeOK, UidTellsTheState, NothingRedactedYet, Follows

\* A pal that is seen for the first time is shared, which is what its owner has
\* chosen so far.
LEMMA PublishKeepsChoices ==
  ASSUME ChoiceInv, MoveInv, NEW form \in Move!Forms, Move!Publish(form),
         UNCHANGED <<uid, transition, toggle, choice, strayed>>
  PROVE  ChoiceInv'
  <1>1. /\ uid = form /\ latest' = [form |-> form, pals |-> save.pals]
        /\ save.pals \subseteq Pals
    BY DEF Move!Publish, MoveInv
  <1>2. /\ prefs' \in Preferences
        /\ \A f \in Move!Forms \ {form} : prefs'[f] = prefs[f]
        /\ \A q \in Pals : prefs'[form][q] = "private" <=> prefs[form][q] = "private"
    BY DEF ChoiceInv, ChoiceTypeOK, Preferences, Move!Publish, Move!WithPrefs
  <1>3. ChoiceTypeOK'
    BY <1>1, <1>2 DEF ChoiceInv, ChoiceTypeOK
  <1>4. NothingRedactedYet'
    BY <1>1, <1>2 DEF ChoiceInv, ChoiceTypeOK, UidTellsTheState, NothingRedactedYet, Move!Forms
  <1>5. \A q \in Pals : Follows(q)'
    BY <1>1, <1>2 DEF ChoiceInv, Follows
  <1> QED
    BY <1>3, <1>4, <1>5 DEF ChoiceInv, UidTellsTheState

\* A choice made under the world's UID is the stored one; another has strayed.
LEMMA ToggleKeepsChoices ==
  ASSUME ChoiceInv, Move!ToggleWrites
  PROVE  ChoiceInv'
  <1> DEFINE p == toggle.pal
             f == toggle.form
  <1>1. /\ toggle # NoOne /\ toggle' = NoOne /\ UNCHANGED <<uid, latest, transition>>
        /\ prefs' = [prefs EXCEPT ![f][p] = toggle.value]
        /\ choice' = [choice EXCEPT ![p] = toggle.value]
        /\ strayed' = IF f = uid THEN strayed ELSE strayed \cup {p}
    BY DEF Move!ToggleWrites
  <1>2. p \in Pals /\ f \in Move!Forms /\ toggle.value \in {"shared", "private"}
    BY <1>1 DEF ChoiceInv, ChoiceTypeOK, Toggles
  <1>3. /\ prefs' \in Preferences
        /\ \A g \in Move!Forms, q \in Pals : g # f \/ q # p => prefs'[g][q] = prefs[g][q]
        /\ prefs'[f][p] = toggle.value
    BY <1>1, <1>2 DEF ChoiceInv, ChoiceTypeOK, Preferences
  <1>4. /\ choice' \in [Pals -> {"shared", "private"}] /\ choice'[p] = toggle.value
        /\ \A q \in Pals \ {p} : choice'[q] = choice[q]
    BY <1>1, <1>2 DEF ChoiceInv, ChoiceTypeOK
  <1>5. ChoiceTypeOK'
    BY <1>1, <1>3, <1>4 DEF ChoiceInv, ChoiceTypeOK
  <1>6. NothingRedactedYet'
    BY <1>1, <1>2, <1>3 DEF ChoiceInv, NothingRedactedYet, Move!Forms
  <1>7. ASSUME NEW q \in Pals
        PROVE  Follows(q)'
    <2>1. CASE q = p
      BY <2>1, <1>1, <1>2, <1>3, <1>4 DEF Follows
    <2>2. CASE q # p
      <3>1. prefs'[uid][q] = prefs[uid][q] /\ choice'[q] = choice[q]
        BY <2>2, <1>3, <1>4 DEF ChoiceInv, ChoiceTypeOK
      <3> QED
        BY <3>1, <1>1 DEF ChoiceInv, Follows
    <2> QED
      BY <2>1, <2>2
  <1> QED
    BY <1>1, <1>5, <1>6, <1>7 DEF ChoiceInv, UidTellsTheState

\* What a move makes of the stored preferences.
LEMMA MovedPreferences ==
  ASSUME ChoiceInv, NEW pals, NEW from \in Move!Forms, NEW to \in Move!Forms, from # to
  PROVE  /\ Move!Moved(pals, from, to) \in Preferences
         /\ \A q \in Pals : q \in pals => Move!Moved(pals, from, to)[to][q] = prefs[from][q]
         /\ \A q \in Pals : q \notin pals => Move!Moved(pals, from, to)[to][q] = prefs[to][q]
BY DEF Move!Moved, ChoiceInv, ChoiceTypeOK, Preferences

LEMMA TransitionKeepsChoices ==
  ASSUME ChoiceInv, MoveInv, Move!TransitionCommits
  PROVE  ChoiceInv'
  <1> DEFINE mapped == {q \in Pals : prefs["raw"][q] # "none"}
  <1>1. /\ transition.state = "none"
        /\ transition' = [state |-> "transitioned", players |-> Move!Ids, pals |-> mapped]
        /\ prefs' = Move!Moved(mapped, "raw", "redacted")
        /\ uid' = "redacted" /\ UNCHANGED <<latest, toggle, choice, strayed>>
    BY DEF Move!TransitionCommits
  <1>2. uid = "raw" /\ \A q \in Pals : prefs["redacted"][q] = "none"
    BY <1>1 DEF ChoiceInv, ChoiceTypeOK, Move!Forms, UidTellsTheState, NothingRedactedYet
  <1>3. /\ prefs' \in Preferences
        /\ \A q \in mapped : prefs'["redacted"][q] = prefs["raw"][q]
        /\ \A q \in Pals \ mapped : prefs'["redacted"][q] = "none"
    BY <1>1, <1>2, MovedPreferences DEF Move!Forms
  <1>4. Move!Ids \in SUBSET (Players \X Move!Forms)
    BY DEF MoveInv, PlayerRows, Move!Ids, Move!Id
  <1>5. ChoiceTypeOK'
    BY <1>1, <1>3, <1>4 DEF ChoiceInv, ChoiceTypeOK, Move!Forms
  <1>6. \A q \in Pals : Follows(q)'
    BY <1>1, <1>2, <1>3 DEF ChoiceInv, Follows
  <1> QED
    BY <1>1, <1>5, <1>6 DEF ChoiceInv, UidTellsTheState, NothingRedactedYet

\* A pal that was not recorded keeps its redacted UID, and its choice.
LEMMA RollbackKeepsChoices ==
  ASSUME ChoiceInv, Move!RollbackCommits
  PROVE  ChoiceInv'
  <1>1. /\ uid = "redacted" /\ uid' = "raw"
        /\ prefs' = Move!Moved(transition.pals, "redacted", "raw")
        /\ transition' = [transition EXCEPT !.state = "rolled_back"]
        /\ UNCHANGED <<latest, toggle, choice, strayed>>
    BY DEF Move!RollbackCommits, Move!MayRestore
  <1>2. /\ prefs' \in Preferences
        /\ \A q \in transition.pals \cap Pals : prefs'["raw"][q] = prefs["redacted"][q]
    BY <1>1, MovedPreferences DEF Move!Forms
  <1>3. transition'.state = "rolled_back" /\ transition'.pals = transition.pals
    BY <1>1 DEF ChoiceInv, ChoiceTypeOK
  <1>4. ChoiceTypeOK'
    BY <1>1, <1>2 DEF ChoiceInv, ChoiceTypeOK, Move!Forms
  <1>5. \A q \in Pals : Follows(q)'
    <2>1. transition.state # "rolled_back"
      BY <1>1 DEF ChoiceInv, UidTellsTheState
    <2> QED
      BY <2>1, <1>1, <1>2, <1>3 DEF ChoiceInv, Follows
  <1> QED
    BY <1>1, <1>3, <1>4, <1>5 DEF ChoiceInv, UidTellsTheState, NothingRedactedYet

LEMMA StepsKeepChoices ==
  ASSUME ChoiceInv, MoveInv, [Move!Next]_(Move!vars)
  PROVE  ChoiceInv'
  <1>1. CASE Move!WorkerPublishes
    BY <1>1, PublishKeepsChoices DEF Move!WorkerPublishes, Move!Forms
  <1>2. ASSUME NEW d \in MovedDevices, Move!UploadCommits(d)
        PROVE  ChoiceInv'
    BY <1>2, PublishKeepsChoices DEF Move!UploadCommits, Move!Forms
  <1>3. ASSUME NEW q \in Pals, NEW value \in {"shared", "private"}, Move!ToggleLooks(q, value)
        PROVE  ChoiceInv'
    <2>1. toggle' \in Toggles /\ toggle'.form = latest.form
      BY <1>3 DEF Move!ToggleLooks, ChoiceInv, ChoiceTypeOK, Toggles
    <2> QED
      BY <1>3, <2>1, OthersKeepChoices DEF Move!ToggleLooks
  <1>4. ASSUME NEW d \in MovedDevices,
               \/ Move!UploadBegins(d) \/ Move!UploadLocks(d) \/ Move!UploadElsewhere(d)
               \/ Move!UploadLeaves(d) \/ Move!Revoke(d)
        PROVE  UNCHANGED <<uid, prefs, latest, transition, toggle, choice, strayed>>
    BY <1>4 DEF Move!UploadBegins, Move!UploadLocks, Move!UploadElsewhere, Move!UploadLeaves,
                Move!Revoke
  <1>5. ASSUME \/ Move!Joins \/ Move!TransitionBegins \/ Move!TransitionEnds
               \/ Move!RollbackBegins \/ Move!RollbackLocks \/ Move!RollbackEnds
               \/ UNCHANGED Move!vars
        PROVE  UNCHANGED <<uid, prefs, latest, transition, toggle, choice, strayed>>
    BY <1>5 DEF Move!Joins, Move!TransitionBegins, Move!TransitionEnds, Move!RollbackBegins,
                Move!RollbackLocks, Move!RollbackEnds, Move!vars
  <1> QED
    BY <1>1, <1>2, <1>3, <1>4, <1>5, ToggleKeepsChoices, TransitionKeepsChoices,
       RollbackKeepsChoices, OthersKeepChoices DEF Move!Next

\* What the owner of a pal has chosen moves with the world, there and back, if it
\* was chosen under a UID of the world.
THEOREM ChoicesMoveToo == Move!Spec => []ChoicesComeAlong
  <1>1. Move!Init => MoveInv /\ ChoiceInv
    BY MoveInvHoldsAtFirst, ChoicesHoldAtFirst
  <1>2. MoveInv /\ ChoiceInv /\ [Move!Next]_(Move!vars) => (MoveInv /\ ChoiceInv)'
    BY StepsKeepRows, StepsKeepChoices
  <1>3. ChoiceInv => ChoicesComeAlong
    BY DEF ChoiceInv, ChoiceTypeOK, Follows, ChoicesComeAlong, Move!ChoicesComeAlong, Move!Shown
  <1> QED
    BY <1>1, <1>2, <1>3, PTL DEF Move!Spec

-----------------------------------------------------------------------------
(* The copy that the client takes of a save.                               *)

FileRows == [there : BOOLEAN, content : Nat, mtime : Nat, ino : Nat]
Looks == [mtime : Nat, ino : Nat]
CopyStates == {"idle", "list", "first", "second", "copy", "third", "complete", "written", "inspected"}

SnapshotTypeOK ==
  /\ now \in Nat /\ writes \in Nat
  /\ disk \in [Files -> FileRows]
  /\ at \in CopyStates
  /\ listed \in SUBSET Files /\ todo \in SUBSET Files
  /\ at # "list" => todo \in SUBSET listed
  /\ first \in [DOMAIN first -> Looks]
  /\ secondLook \in [DOMAIN secondLook -> Looks]
  /\ copy \in [DOMAIN copy -> Nat]
  /\ cut \in [DOMAIN cut -> Nat]
  /\ out \in [Snapshot!Outputs -> {"absent", "whole", "foreign"}]

\* Modification times are of the past, and inodes are used once.
DiskTrue == \A f \in Files : disk[f].mtime <= now /\ disk[f].ino <= writes

\* What the file is now can be told from what the second look saw, for ever.
Moved(f) ==
  ~disk[f].there \/ disk[f].ino # secondLook[f].ino \/ disk[f].mtime > secondLook[f].mtime

\* The first look was over a tick before the second began.
LooksTrue ==
  /\ at = "first" =>
       /\ DOMAIN first = listed \ todo /\ DOMAIN secondLook = {} /\ DOMAIN copy = {}
       /\ \A f \in DOMAIN first : first[f].mtime <= now /\ first[f].ino <= writes
  /\ at = "second" =>
       /\ DOMAIN first = listed /\ DOMAIN secondLook = listed \ todo /\ DOMAIN copy = {}
       /\ \A f \in DOMAIN first : first[f].mtime < now /\ first[f].ino <= writes
  /\ at \in {"copy", "third"} =>
       /\ DOMAIN secondLook = listed
       /\ \A f \in listed : secondLook[f].mtime < now /\ secondLook[f].ino <= writes

\* A file that has not moved since the second look is as it was at the cut, and
\* so is its copy; a file that the third look has passed is copied as it was.
CopyTrue ==
  /\ at \in {"copy", "third"} =>
       /\ DOMAIN copy = IF at = "copy" THEN listed \ todo ELSE listed
       /\ \A f \in listed : ~Moved(f) => f \in DOMAIN cut /\ disk[f].content = cut[f]
       /\ \A f \in DOMAIN copy : ~Moved(f) => copy[f] = cut[f]
  /\ at = "third" => \A f \in listed \ todo : f \in DOMAIN cut /\ copy[f] = cut[f]

\* What is there since the listing began is listed, or will be.
ListTrue ==
  /\ kept \subseteq {f \in Files : disk[f].there}
  /\ at = "list" => kept \subseteq listed \cup todo /\ DOMAIN first = {}
                      /\ DOMAIN secondLook = {} /\ DOMAIN copy = {}
  /\ at \in {"first", "second", "copy", "third"} => kept \subseteq listed

OutputsTrue ==
  at = "written" => out["canonical"] = "whole" /\ out["payload"] # "whole"

SnapshotEndsTrue ==
  OutputsTrue /\ Snapshot!ConsistentCut /\ Snapshot!LeftOutIsNew /\ Snapshot!BothOutputsOrNone

SnapshotInv ==
  SnapshotTypeOK /\ DiskTrue /\ ListTrue /\ LooksTrue /\ CopyTrue /\ SnapshotEndsTrue

\* The game's writes: a file gets another inode, is gone, or gets the time of now.
LEMMA WritesKeepSnapshot ==
  ASSUME SnapshotInv, NEW f \in Files, NEW row \in FileRows, Snapshot!Change(f, row),
         row.mtime <= now, row.ino <= writes + 1,
         \/ ~row.there
         \/ row.ino = writes + 1
         \/ disk[f].there /\ row.ino = disk[f].ino /\ row.mtime = now
  PROVE  SnapshotInv'
  <1>1. /\ writes' = writes + 1 /\ writes' \in Nat
        /\ disk' = [disk EXCEPT ![f] = row]
        /\ kept' = {g \in kept : disk'[g].there}
        /\ UNCHANGED <<now, at, listed, first, secondLook, todo, copy, cut, out>>
    BY DEF Snapshot!Change, SnapshotInv, SnapshotTypeOK
  <1>2. /\ disk' \in [Files -> FileRows] /\ disk'[f] = row
        /\ \A g \in Files : g # f => disk'[g] = disk[g]
    BY <1>1 DEF SnapshotInv, SnapshotTypeOK
  <1>3. SnapshotTypeOK'
    BY <1>1, <1>2 DEF SnapshotInv, SnapshotTypeOK
  <1>4. DiskTrue' /\ ListTrue'
    BY <1>1, <1>2 DEF SnapshotInv, SnapshotTypeOK, DiskTrue, ListTrue, FileRows
  <1>5. LooksTrue'
    BY <1>1 DEF SnapshotInv, SnapshotTypeOK, LooksTrue, Looks
  <1>6. ASSUME at \in {"copy", "third"}, NEW g \in listed
        PROVE  Moved(g) => Moved(g)'
    <2>1. CASE g # f
      BY <1>1, <1>2, <2>1, <1>6 DEF Moved, SnapshotInv, SnapshotTypeOK
    <2>2. CASE g = f
      <3>1. secondLook[f] \in Looks /\ secondLook[f].mtime < now /\ secondLook[f].ino <= writes
        BY <1>6, <2>2 DEF SnapshotInv, SnapshotTypeOK, LooksTrue
      <3> QED
        BY <1>1, <1>2, <2>2, <3>1 DEF Moved, SnapshotInv, SnapshotTypeOK, Looks, FileRows
    <2> QED
      BY <2>1, <2>2
  <1>7. ASSUME at \in {"copy", "third"}, f \in listed PROVE Moved(f)'
    <2>1. secondLook[f] \in Looks /\ secondLook[f].mtime < now /\ secondLook[f].ino <= writes
      BY <1>7 DEF SnapshotInv, SnapshotTypeOK, LooksTrue
    <2> QED
      BY <1>1, <1>2, <2>1 DEF Moved, SnapshotInv, SnapshotTypeOK, Looks, FileRows
  <1>8. CopyTrue'
    BY <1>1, <1>2, <1>6, <1>7 DEF SnapshotInv, SnapshotTypeOK, CopyTrue
  <1>9. SnapshotEndsTrue'
    BY <1>1 DEF SnapshotInv, SnapshotEndsTrue, OutputsTrue, Snapshot!ConsistentCut,
         Snapshot!LeftOutIsNew, Snapshot!BothOutputsOrNone
  <1> QED
    BY <1>3, <1>4, <1>5, <1>8, <1>9 DEF SnapshotInv

LEMMA GameKeepsSnapshot ==
  ASSUME SnapshotInv, NEW f \in Files,
         Snapshot!WriteInPlace(f) \/ Snapshot!Replace(f) \/ Snapshot!Delete(f)
  PROVE  SnapshotInv'
  <1>0. disk[f] \in FileRows /\ now \in Nat /\ writes \in Nat /\ disk[f].ino <= writes
    BY DEF SnapshotInv, SnapshotTypeOK, DiskTrue, ListTrue
  <1>1. CASE Snapshot!WriteInPlace(f)
    <2> DEFINE row == [disk[f] EXCEPT !.content = writes + 1, !.mtime = now]
    <2>1. row \in FileRows
      <3>1. writes + 1 \in Nat
        BY <1>0
      <3>2. disk[f] \in [there : BOOLEAN, content : Nat, mtime : Nat, ino : Nat]
        BY <1>0 DEF FileRows
      <3> QED
        BY <1>0, <3>1, <3>2 DEF FileRows
    <2>2. row.there = disk[f].there /\ row.ino = disk[f].ino /\ row.mtime = now
      BY <1>0 DEF FileRows
    <2>3. disk[f].there /\ Snapshot!Change(f, row) /\ now <= now /\ disk[f].ino <= writes + 1
      BY <1>0, <1>1 DEF Snapshot!WriteInPlace, FileRows
    <2> HIDE DEF row
    <2> QED
      BY <2>1, <2>2, <2>3, WritesKeepSnapshot
  <1>2. CASE Snapshot!Replace(f)
    <2> PICK t \in 0..now :
          Snapshot!Change(f, [there |-> TRUE, content |-> writes + 1, mtime |-> t,
                              ino |-> writes + 1])
      BY <1>2 DEF Snapshot!Replace
    <2> DEFINE row == [there |-> TRUE, content |-> writes + 1, mtime |-> t, ino |-> writes + 1]
    <2>1. row \in FileRows /\ row.mtime <= now /\ row.ino = writes + 1
      BY <1>0 DEF FileRows
    <2>2. Snapshot!Change(f, row) /\ writes + 1 <= writes + 1
      BY <1>0
    <2> HIDE DEF row
    <2> QED
      BY <2>1, <2>2, WritesKeepSnapshot
  <1>3. CASE Snapshot!Delete(f)
    <2>1. /\ Snapshot!Absent \in FileRows /\ ~Snapshot!Absent.there
          /\ Snapshot!Absent.mtime <= now /\ Snapshot!Absent.ino <= writes + 1
      BY <1>0 DEF Snapshot!Absent, FileRows
    <2> QED
      BY <1>3, <2>1, WritesKeepSnapshot DEF Snapshot!Delete
  <1> QED
    BY <1>1, <1>2, <1>3

\* Time passes, and nothing else happens.
LEMMA TickKeepsSnapshot ==
  ASSUME SnapshotInv, Snapshot!Tick
  PROVE  SnapshotInv'
  <1>1. /\ now' = now + 1
        /\ UNCHANGED <<disk, writes, at, listed, kept, first, secondLook, todo, copy, cut, out>>
    BY DEF Snapshot!Tick
  <1>2. SnapshotTypeOK' /\ DiskTrue' /\ ListTrue'
    BY <1>1 DEF SnapshotInv, SnapshotTypeOK, DiskTrue, ListTrue, FileRows
  <1>3. LooksTrue'
    BY <1>1 DEF SnapshotInv, SnapshotTypeOK, LooksTrue, Looks
  <1>4. CopyTrue'
    BY <1>1 DEF SnapshotInv, CopyTrue, Moved
  <1>5. SnapshotEndsTrue'
    BY <1>1 DEF SnapshotInv, SnapshotEndsTrue, OutputsTrue, Snapshot!ConsistentCut,
         Snapshot!LeftOutIsNew, Snapshot!BothOutputsOrNone
  <1> QED
    BY <1>2, <1>3, <1>4, <1>5 DEF SnapshotInv

\* The files are listed.
LEMMA ListingKeepsSnapshot ==
  ASSUME Snapshot!DelayAssumption, SnapshotInv,
         Snapshot!List \/ Snapshot!EndOfList \/ \E f \in Files : Snapshot!ListFile(f)
  PROVE  SnapshotInv'
  <1>1. CASE Snapshot!List
    <2>1. /\ at' = "list" /\ listed' = {Level} /\ todo' = Files \ {Level}
          /\ kept' = {f \in Files : disk[f].there}
          /\ copy' = Snapshot!NoLook /\ first' = Snapshot!NoLook
          /\ secondLook' = Snapshot!NoLook /\ cut' = Snapshot!NoLook
          /\ UNCHANGED <<now, disk, writes, out>> /\ at = "idle"
      BY <1>1 DEF Snapshot!List, Snapshot!game
    <2>2. /\ DOMAIN Snapshot!NoLook = {}
          /\ Snapshot!NoLook \in [{} -> Looks] /\ Snapshot!NoLook \in [{} -> Nat]
      BY DEF Snapshot!NoLook
    <2>3. SnapshotTypeOK' /\ DiskTrue' /\ ListTrue'
      BY <2>1, <2>2 DEF SnapshotInv, SnapshotTypeOK, DiskTrue, ListTrue, CopyStates,
         Snapshot!DelayAssumption
    <2>4. LooksTrue' /\ CopyTrue'
      BY <2>1, <2>2 DEF LooksTrue, CopyTrue
    <2>5. SnapshotEndsTrue'
      BY <2>1 DEF SnapshotInv, SnapshotEndsTrue, OutputsTrue, Snapshot!ConsistentCut,
         Snapshot!LeftOutIsNew, Snapshot!BothOutputsOrNone
    <2> QED
      BY <2>3, <2>4, <2>5 DEF SnapshotInv
  <1>2. ASSUME NEW f \in Files, Snapshot!ListFile(f) PROVE SnapshotInv'
    <2>1. /\ at = "list" /\ f \in todo /\ todo' = todo \ {f}
          /\ listed' = IF disk[f].there THEN listed \cup {f} ELSE listed
          /\ UNCHANGED <<now, disk, writes, at, kept, first, secondLook, copy, cut, out>>
      BY <1>2 DEF Snapshot!ListFile, Snapshot!game
    <2>2. SnapshotTypeOK' /\ DiskTrue' /\ ListTrue'
      BY <2>1 DEF SnapshotInv, SnapshotTypeOK, DiskTrue, ListTrue
    <2>3. LooksTrue' /\ CopyTrue' /\ SnapshotEndsTrue'
      BY <2>1 DEF SnapshotInv, LooksTrue, CopyTrue, SnapshotEndsTrue, OutputsTrue,
         Snapshot!ConsistentCut, Snapshot!LeftOutIsNew, Snapshot!BothOutputsOrNone
    <2> QED
      BY <2>2, <2>3 DEF SnapshotInv
  <1>3. CASE Snapshot!EndOfList
    <2>1. /\ at = "list" /\ todo = {} /\ at' = "first" /\ todo' = listed
          /\ UNCHANGED <<now, disk, writes, listed, kept, first, secondLook, copy, cut, out>>
      BY <1>3 DEF Snapshot!EndOfList, Snapshot!game
    <2>2. SnapshotTypeOK' /\ DiskTrue' /\ ListTrue'
      BY <2>1 DEF SnapshotInv, SnapshotTypeOK, DiskTrue, ListTrue, CopyStates
    <2>3. LooksTrue' /\ CopyTrue' /\ SnapshotEndsTrue'
      BY <2>1 DEF SnapshotInv, ListTrue, LooksTrue, CopyTrue, SnapshotEndsTrue, OutputsTrue,
         Snapshot!ConsistentCut, Snapshot!LeftOutIsNew, Snapshot!BothOutputsOrNone
    <2> QED
      BY <2>2, <2>3 DEF SnapshotInv
  <1> QED
    BY <1>1, <1>2, <1>3

\* The files are looked at for the first time.
LEMMA FirstLookKeepsSnapshot ==
  ASSUME SnapshotInv, NEW f \in Files, Snapshot!LookFirst(f)
  PROVE  SnapshotInv'
  <1>1. /\ at = "first" /\ f \in todo /\ todo' = todo \ {f}
        /\ first' = Snapshot!Extended(first, f, Snapshot!Stat(f))
        /\ UNCHANGED <<now, disk, writes, at, listed, kept, secondLook, copy, cut, out>>
    BY DEF Snapshot!LookFirst, Snapshot!game
  <1>2. /\ Snapshot!Stat(f) \in Looks
        /\ Snapshot!Stat(f).mtime <= now /\ Snapshot!Stat(f).ino <= writes
    BY DEF Snapshot!Stat, Looks, SnapshotInv, SnapshotTypeOK, DiskTrue, ListTrue, FileRows
  <1>3. /\ first' \in [DOMAIN first \cup {f} -> Looks] /\ first'[f] = Snapshot!Stat(f)
        /\ \A g \in DOMAIN first \ {f} : first'[g] = first[g]
    <2>1. first \in [DOMAIN first -> Looks]
      BY DEF SnapshotInv, SnapshotTypeOK
    <2>2. /\ Snapshot!Extended(first, f, Snapshot!Stat(f)) \in [DOMAIN first \cup {f} -> Looks]
          /\ Snapshot!Extended(first, f, Snapshot!Stat(f))[f] = Snapshot!Stat(f)
          /\ \A g \in DOMAIN first \ {f} :
               Snapshot!Extended(first, f, Snapshot!Stat(f))[g] = first[g]
      BY <1>2, <2>1 DEF Snapshot!Extended
    <2> QED
      BY <1>1, <2>2
  <1>4. DOMAIN first' = DOMAIN first \cup {f}
    BY <1>3
  <1>5. SnapshotTypeOK'
    <2>1. first' \in [DOMAIN first' -> Looks]
      BY <1>3, <1>4
    <2>2. todo' \in SUBSET listed
      BY <1>1 DEF SnapshotInv, SnapshotTypeOK
    <2> QED
      BY <1>1, <2>1, <2>2 DEF SnapshotInv, SnapshotTypeOK
  <1>8. DiskTrue' /\ ListTrue'
    BY <1>1 DEF SnapshotInv, DiskTrue, ListTrue
  <1>6. LooksTrue'
    BY <1>1, <1>2, <1>3, <1>4 DEF SnapshotInv, SnapshotTypeOK, LooksTrue
  <1>7. (CopyTrue /\ SnapshotEndsTrue)'
    BY <1>1 DEF SnapshotInv, CopyTrue, SnapshotEndsTrue, OutputsTrue, Snapshot!ConsistentCut,
       Snapshot!LeftOutIsNew, Snapshot!BothOutputsOrNone
  <1> QED
    BY <1>5, <1>6, <1>7, <1>8 DEF SnapshotInv

\* After the pause every modification time of the first look is of the past.
LEMMA SecondLookKeepsSnapshot ==
  ASSUME Snapshot!DelayAssumption, SnapshotInv, Snapshot!Pause \/ \E f \in Files : Snapshot!LookSecond(f)
  PROVE  SnapshotInv'
  <1>1. CASE Snapshot!Pause
    <2>1. /\ at = "first" /\ todo = {} /\ now' = now + Delay
          /\ at' = "second" /\ todo' = listed
          /\ UNCHANGED <<disk, writes, listed, kept, first, secondLook, copy, cut, out>>
      BY <1>1 DEF Snapshot!Pause
    <2>2. now' \in Nat /\ now' > now
      BY <2>1 DEF Snapshot!DelayAssumption, SnapshotInv, SnapshotTypeOK
    <2>3. SnapshotTypeOK' /\ DiskTrue' /\ ListTrue'
      BY <2>1, <2>2 DEF SnapshotInv, SnapshotTypeOK, DiskTrue, ListTrue, FileRows, CopyStates
    <2>4. LooksTrue'
      BY <2>1, <2>2 DEF SnapshotInv, SnapshotTypeOK, LooksTrue, Looks
    <2>5. (CopyTrue /\ SnapshotEndsTrue)'
      BY <2>1 DEF SnapshotInv, CopyTrue, SnapshotEndsTrue, OutputsTrue, Snapshot!ConsistentCut,
         Snapshot!LeftOutIsNew, Snapshot!BothOutputsOrNone
    <2> QED
      BY <2>3, <2>4, <2>5 DEF SnapshotInv
  <1>2. ASSUME NEW f \in Files, Snapshot!LookSecond(f) PROVE SnapshotInv'
    <2>1. /\ at = "second" /\ f \in todo /\ todo' = todo \ {f}
          /\ secondLook' = Snapshot!Extended(secondLook, f, Snapshot!Stat(f))
          /\ UNCHANGED <<now, disk, writes, at, listed, kept, first, copy, cut, out>>
      BY <1>2 DEF Snapshot!LookSecond, Snapshot!game
    <2>2. Snapshot!Stat(f) \in Looks
      BY DEF Snapshot!Stat, Looks, SnapshotInv, SnapshotTypeOK, FileRows
    <2>3. secondLook' \in [DOMAIN secondLook \cup {f} -> Looks]
      BY <2>1, <2>2 DEF Snapshot!Extended, SnapshotInv, SnapshotTypeOK
    <2>4. DOMAIN secondLook' = DOMAIN secondLook \cup {f}
      BY <2>3
    <2>5. SnapshotTypeOK' /\ DiskTrue' /\ ListTrue'
      BY <2>1, <2>3, <2>4 DEF SnapshotInv, SnapshotTypeOK, DiskTrue, ListTrue
    <2>6. LooksTrue'
      BY <2>1, <2>4 DEF SnapshotInv, SnapshotTypeOK, LooksTrue
    <2>7. (CopyTrue /\ SnapshotEndsTrue)'
      BY <2>1 DEF SnapshotInv, CopyTrue, SnapshotEndsTrue, OutputsTrue, Snapshot!ConsistentCut,
         Snapshot!LeftOutIsNew, Snapshot!BothOutputsOrNone
    <2> QED
      BY <2>5, <2>6, <2>7 DEF SnapshotInv
  <1> QED
    BY <1>1, <1>2

\* The save at the cut, and what is copied of it.
LEMMA CopyingKeepsSnapshot ==
  ASSUME SnapshotInv, Snapshot!Compare \/ \E f \in Files : Snapshot!Copy(f)
  PROVE  SnapshotInv'
  <1>1. CASE Snapshot!Compare
    <2>1. /\ at = "second" /\ todo = {} /\ first = secondLook
          /\ at' = "copy" /\ todo' = listed
          /\ cut' = [f \in {g \in Files : disk[g].there} |-> disk[f].content]
          /\ UNCHANGED <<now, disk, writes, listed, kept, first, secondLook, copy, out>>
      BY <1>1 DEF Snapshot!Compare, Snapshot!game
    <2>2. SnapshotTypeOK' /\ DiskTrue' /\ ListTrue'
      BY <2>1 DEF SnapshotInv, SnapshotTypeOK, DiskTrue, ListTrue, FileRows, CopyStates
    <2>3. LooksTrue'
      BY <2>1 DEF SnapshotInv, SnapshotTypeOK, LooksTrue
    <2>4. CopyTrue'
      BY <2>1 DEF SnapshotInv, SnapshotTypeOK, LooksTrue, CopyTrue, Moved
    <2>5. SnapshotEndsTrue'
      BY <2>1 DEF SnapshotInv, SnapshotEndsTrue, OutputsTrue, Snapshot!ConsistentCut,
         Snapshot!LeftOutIsNew, Snapshot!BothOutputsOrNone
    <2> QED
      BY <2>2, <2>3, <2>4, <2>5 DEF SnapshotInv
  <1>2. ASSUME NEW f \in Files, Snapshot!Copy(f) PROVE SnapshotInv'
    <2>1. /\ at = "copy" /\ f \in todo /\ f \in listed /\ todo' = todo \ {f}
          /\ copy' = Snapshot!Extended(copy, f, disk[f].content)
          /\ UNCHANGED <<now, disk, writes, at, listed, kept, first, secondLook, cut, out>>
      BY <1>2 DEF Snapshot!Copy, Snapshot!game, SnapshotInv, SnapshotTypeOK
    <2>2. disk[f].content \in Nat
      BY DEF SnapshotInv, SnapshotTypeOK, FileRows
    <2>3. /\ copy' \in [DOMAIN copy \cup {f} -> Nat] /\ copy'[f] = disk[f].content
          /\ \A g \in DOMAIN copy \ {f} : copy'[g] = copy[g]
      <3>1. copy \in [DOMAIN copy -> Nat]
        BY DEF SnapshotInv, SnapshotTypeOK
      <3>2. /\ Snapshot!Extended(copy, f, disk[f].content) \in [DOMAIN copy \cup {f} -> Nat]
            /\ Snapshot!Extended(copy, f, disk[f].content)[f] = disk[f].content
            /\ \A g \in DOMAIN copy \ {f} : Snapshot!Extended(copy, f, disk[f].content)[g] = copy[g]
        BY <2>2, <3>1 DEF Snapshot!Extended
      <3> QED
        BY <2>1, <3>2
    <2>4. DOMAIN copy' = DOMAIN copy \cup {f}
      BY <2>3
    <2>5. SnapshotTypeOK' /\ DiskTrue' /\ ListTrue'
      BY <2>1, <2>3, <2>4 DEF SnapshotInv, SnapshotTypeOK, DiskTrue, ListTrue
    <2>6. LooksTrue'
      BY <2>1 DEF SnapshotInv, LooksTrue
    <2>7. CopyTrue'
      <3>1. \A g \in listed : Moved(g)' <=> Moved(g)
        BY <2>1 DEF Moved
      <3>2. ~Moved(f) => f \in DOMAIN cut /\ disk[f].content = cut[f]
        BY <2>1 DEF SnapshotInv, CopyTrue
      <3> QED
        BY <2>1, <2>3, <2>4, <3>1, <3>2 DEF SnapshotInv, SnapshotTypeOK, CopyTrue
    <2>8. SnapshotEndsTrue'
      BY <2>1 DEF SnapshotInv, SnapshotEndsTrue, OutputsTrue, Snapshot!ConsistentCut,
         Snapshot!LeftOutIsNew, Snapshot!BothOutputsOrNone
    <2> QED
      BY <2>5, <2>6, <2>7, <2>8 DEF SnapshotInv
  <1> QED
    BY <1>1, <1>2

\* A file that still looks as it did in the second look was not written since.
LEMMA ThirdLookKeepsSnapshot ==
  ASSUME SnapshotInv,
         Snapshot!Recheck \/ Snapshot!Complete \/ \E f \in Files : Snapshot!LookThird(f)
  PROVE  SnapshotInv'
  <1>1. CASE Snapshot!Recheck
    <2>1. /\ at = "copy" /\ todo = {} /\ at' = "third" /\ todo' = listed
          /\ UNCHANGED <<now, disk, writes, listed, kept, first, secondLook, copy, cut, out>>
      BY <1>1 DEF Snapshot!Recheck, Snapshot!game
    <2>2. SnapshotTypeOK' /\ DiskTrue' /\ ListTrue'
      BY <2>1 DEF SnapshotInv, SnapshotTypeOK, DiskTrue, ListTrue, CopyStates
    <2>3. LooksTrue' /\ CopyTrue'
      BY <2>1 DEF SnapshotInv, LooksTrue, CopyTrue, Moved
    <2>4. SnapshotEndsTrue'
      BY <2>1 DEF SnapshotInv, SnapshotEndsTrue, OutputsTrue, Snapshot!ConsistentCut,
         Snapshot!LeftOutIsNew, Snapshot!BothOutputsOrNone
    <2> QED
      BY <2>2, <2>3, <2>4 DEF SnapshotInv
  <1>2. CASE Snapshot!Complete
    <2>1. /\ at = "third" /\ todo = {} /\ at' = "complete"
          /\ UNCHANGED <<now, disk, writes, listed, kept, first, secondLook, todo, copy, cut, out>>
      BY <1>2 DEF Snapshot!Complete, Snapshot!game
    <2>2. /\ \A f \in DOMAIN copy : f \in DOMAIN cut /\ copy[f] = cut[f]
          /\ kept \subseteq DOMAIN copy
      BY <2>1 DEF SnapshotInv, CopyTrue, ListTrue
    <2>3. SnapshotTypeOK' /\ DiskTrue' /\ ListTrue'
      BY <2>1 DEF SnapshotInv, SnapshotTypeOK, DiskTrue, ListTrue, CopyStates
    <2>4. LooksTrue' /\ CopyTrue'
      BY <2>1 DEF LooksTrue, CopyTrue
    <2>5. SnapshotEndsTrue'
      BY <2>1, <2>2 DEF SnapshotInv, SnapshotEndsTrue, OutputsTrue, Snapshot!ConsistentCut,
         Snapshot!LeftOutIsNew, Snapshot!BothOutputsOrNone
    <2> QED
      BY <2>3, <2>4, <2>5 DEF SnapshotInv
  <1>3. ASSUME NEW f \in Files, Snapshot!LookThird(f) PROVE SnapshotInv'
    <2>1. /\ at = "third" /\ f \in todo /\ f \in listed /\ todo' = todo \ {f}
          /\ disk[f].there /\ Snapshot!Stat(f) = secondLook[f]
          /\ UNCHANGED <<now, disk, writes, at, listed, kept, first, secondLook, copy, cut, out>>
      BY <1>3 DEF Snapshot!LookThird, Snapshot!game, SnapshotInv, SnapshotTypeOK
    <2>2. ~Moved(f)
      <3>1. secondLook[f].mtime = disk[f].mtime /\ secondLook[f].ino = disk[f].ino
        BY <2>1 DEF Snapshot!Stat
      <3> QED
        BY <2>1, <3>1 DEF Moved, SnapshotInv, SnapshotTypeOK, FileRows
    <2>3. f \in DOMAIN cut /\ copy[f] = cut[f]
      BY <2>1, <2>2 DEF SnapshotInv, CopyTrue
    <2>4. SnapshotTypeOK' /\ DiskTrue' /\ ListTrue'
      BY <2>1 DEF SnapshotInv, SnapshotTypeOK, DiskTrue, ListTrue
    <2>5. LooksTrue' /\ CopyTrue'
      BY <2>1, <2>3 DEF SnapshotInv, LooksTrue, CopyTrue, Moved
    <2>6. SnapshotEndsTrue'
      BY <2>1 DEF SnapshotInv, SnapshotEndsTrue, OutputsTrue, Snapshot!ConsistentCut,
         Snapshot!LeftOutIsNew, Snapshot!BothOutputsOrNone
    <2> QED
      BY <2>4, <2>5, <2>6 DEF SnapshotInv
  <1> QED
    BY <1>1, <1>2, <1>3

\* Giving up, the end of the copy, and what inspect does with it.
LEMMA OutputsKeepSnapshot ==
  ASSUME SnapshotInv, Snapshot!Fail \/ Snapshot!Cleanup \/ Snapshot!Inspect
  PROVE  /\ SnapshotInv'
         /\ \A o \in Snapshot!Outputs : out[o] = "foreign" => out'[o] = "foreign" \/ at = "idle"
  <1>1. /\ UNCHANGED <<now, disk, writes, listed, kept, first, secondLook, cut>>
        /\ todo' = todo \/ (todo' = {} /\ at' = "idle")
        /\ copy' = copy \/ (copy' = Snapshot!NoLook /\ at' = "idle")
        /\ at' \in CopyStates
        /\ at' = at \/ at' \in {"idle", "written", "inspected"}
        /\ at = "list" /\ at' # "list" => todo' = {}
    BY DEF Snapshot!Fail, Snapshot!Cleanup, Snapshot!Inspect, Snapshot!WriteCanonical,
         Snapshot!WritePayload, Snapshot!PayloadFails, Snapshot!Collect, Snapshot!Foreign,
         Snapshot!game, CopyStates, SnapshotInv, SnapshotTypeOK
  <1>2. /\ out' \in [Snapshot!Outputs -> {"absent", "whole", "foreign"}]
        /\ (OutputsTrue /\ Snapshot!BothOutputsOrNone)'
        /\ \A o \in Snapshot!Outputs : out[o] = "foreign" => out'[o] = "foreign" \/ at = "idle"
    <2> USE DEF SnapshotInv, SnapshotTypeOK, SnapshotEndsTrue, OutputsTrue, CopyStates,
                Snapshot!BothOutputsOrNone, Snapshot!Outputs
    <2>1. CASE Snapshot!Fail \/ Snapshot!Cleanup
      BY <2>1 DEF Snapshot!Fail, Snapshot!Cleanup
    <2>2. CASE Snapshot!WriteCanonical
      BY <2>2 DEF Snapshot!WriteCanonical
    <2>3. CASE Snapshot!WritePayload
      BY <2>3 DEF Snapshot!WritePayload
    <2>4. CASE Snapshot!PayloadFails
      BY <2>4 DEF Snapshot!PayloadFails
    <2>5. CASE Snapshot!Collect
      BY <2>5 DEF Snapshot!Collect
    <2>6. ASSUME NEW o \in Snapshot!Outputs, Snapshot!Foreign(o)
          PROVE  /\ out' \in [Snapshot!Outputs -> {"absent", "whole", "foreign"}]
                 /\ (OutputsTrue /\ Snapshot!BothOutputsOrNone)'
                 /\ \A p \in Snapshot!Outputs :
                      out[p] = "foreign" => out'[p] = "foreign" \/ at = "idle"
      BY <2>6 DEF Snapshot!Foreign
    <2> QED
      BY <2>1, <2>2, <2>3, <2>4, <2>5, <2>6 DEF Snapshot!Inspect
  <1>3. Snapshot!NoLook \in [DOMAIN Snapshot!NoLook -> Nat]
    BY DEF Snapshot!NoLook
  <1>4. SnapshotTypeOK'
    <2>1. UNCHANGED <<now, disk, writes, listed, first, secondLook, cut>>
      BY <1>1
    <2>2. copy' \in [DOMAIN copy' -> Nat]
      BY <1>1, <1>3 DEF SnapshotInv, SnapshotTypeOK
    <2>3. todo' \in SUBSET Files /\ (at' # "list" => todo' \in SUBSET listed)
      <3>1. at' # "list" => at # "list" \/ todo' = {}
        BY <1>1
      <3> QED
        BY <1>1, <3>1 DEF SnapshotInv, SnapshotTypeOK
    <2> QED
      BY <1>1, <1>2, <2>1, <2>2, <2>3 DEF SnapshotInv, SnapshotTypeOK
  <1>8. DiskTrue' /\ ListTrue'
    BY <1>1 DEF SnapshotInv, DiskTrue, ListTrue
  <1>5. LooksTrue'
    BY <1>1 DEF SnapshotInv, LooksTrue
  <1>6. CopyTrue'
    BY <1>1 DEF SnapshotInv, CopyTrue, Moved
  <1>7. (Snapshot!ConsistentCut /\ Snapshot!LeftOutIsNew)'
    BY <1>1 DEF SnapshotInv, SnapshotEndsTrue, Snapshot!ConsistentCut, Snapshot!LeftOutIsNew
  <1> QED
    BY <1>2, <1>4, <1>5, <1>6, <1>7, <1>8 DEF SnapshotInv, SnapshotEndsTrue

\* The looks and the copy are of files that were listed, and a complete copy is of
\* all of them.
DomainsTrue ==
  /\ DOMAIN first \subseteq listed /\ DOMAIN secondLook \subseteq listed
  /\ DOMAIN copy \subseteq listed
  /\ at \in {"complete", "written", "inspected"} => DOMAIN copy = listed

\* A file of somebody else at the path of an output stays.
ForeignKept ==
  \A o \in Snapshot!Outputs : out[o] = "foreign" => out'[o] = "foreign" \/ at = "idle"

LEMMA SnapshotHoldsAtFirst ==
  ASSUME Snapshot!Init
  PROVE  SnapshotInv /\ DomainsTrue
  <1>0. disk \in [Files -> FileRows] /\ \A f \in Files : disk[f].mtime = 0 /\ disk[f].ino = 0
    <2>1. PICK found \in SUBSET Files :
            disk = [f \in Files |-> [Snapshot!Absent EXCEPT !.there = f \in found]]
      BY DEF Snapshot!Init
    <2>2. ASSUME NEW f \in Files
          PROVE  disk[f] \in FileRows /\ disk[f].mtime = 0 /\ disk[f].ino = 0
      <3>1. disk[f] = [there |-> f \in found, content |-> 0, mtime |-> 0, ino |-> 0]
        BY <2>1 DEF Snapshot!Absent
      <3>2. (f \in found) \in BOOLEAN
        OBVIOUS
      <3> QED
        BY <3>1, <3>2 DEF FileRows
    <2> QED
      BY <2>1, <2>2
  <1>1. /\ DOMAIN Snapshot!NoLook = {}
        /\ Snapshot!NoLook \in [{} -> Looks] /\ Snapshot!NoLook \in [{} -> Nat]
    BY DEF Snapshot!NoLook
  <1> QED
    BY <1>0, <1>1 DEF Snapshot!Init, SnapshotInv, SnapshotTypeOK, DiskTrue, ListTrue, LooksTrue, CopyTrue,
       SnapshotEndsTrue, OutputsTrue, Snapshot!ConsistentCut,
         Snapshot!LeftOutIsNew, Snapshot!BothOutputsOrNone, CopyStates, FileRows,
       Snapshot!Outputs, DomainsTrue

LEMMA StepsKeepSnapshot ==
  ASSUME Snapshot!DelayAssumption, SnapshotInv, [Snapshot!Next]_(Snapshot!vars)
  PROVE  SnapshotInv' /\ [ForeignKept]_(Snapshot!vars)
  <1>1. CASE UNCHANGED Snapshot!vars
    BY <1>1 DEF Snapshot!vars, SnapshotInv, SnapshotTypeOK, DiskTrue, ListTrue, LooksTrue, CopyTrue,
         Moved, SnapshotEndsTrue, OutputsTrue, Snapshot!ConsistentCut,
         Snapshot!LeftOutIsNew, Snapshot!BothOutputsOrNone
  <1>2. CASE Snapshot!Fail \/ Snapshot!Cleanup \/ Snapshot!Inspect
    BY <1>2, OutputsKeepSnapshot DEF ForeignKept
  <1>3. ASSUME Snapshot!Next, ~(Snapshot!Fail \/ Snapshot!Cleanup \/ Snapshot!Inspect)
        PROVE  SnapshotInv' /\ UNCHANGED out
    <2>1. SnapshotInv'
      BY <1>3, TickKeepsSnapshot, GameKeepsSnapshot, ListingKeepsSnapshot, FirstLookKeepsSnapshot,
           SecondLookKeepsSnapshot, CopyingKeepsSnapshot, ThirdLookKeepsSnapshot DEF
           Snapshot!Next, Snapshot!Look
    <2>2. UNCHANGED out
      <3>1. CASE Snapshot!Tick \/ Snapshot!List \/ Snapshot!EndOfList \/ Snapshot!Pause
                   \/ Snapshot!Compare \/ Snapshot!Recheck \/ Snapshot!Complete
        BY <3>1 DEF Snapshot!Tick, Snapshot!List, Snapshot!EndOfList, Snapshot!Pause,
             Snapshot!Compare, Snapshot!Recheck, Snapshot!Complete
      <3>2. ASSUME NEW f \in Files,
                   Snapshot!WriteInPlace(f) \/ Snapshot!Replace(f) \/ Snapshot!Delete(f)
            PROVE  UNCHANGED out
        BY <3>2 DEF Snapshot!WriteInPlace, Snapshot!Replace, Snapshot!Delete, Snapshot!Change
      <3>3. CASE Snapshot!Look
        BY <3>3 DEF Snapshot!Look, Snapshot!ListFile, Snapshot!LookFirst, Snapshot!LookSecond,
             Snapshot!LookThird, Snapshot!Copy
      <3> QED
        BY <1>3, <3>1, <3>2, <3>3 DEF Snapshot!Next
    <2> QED
      BY <2>1, <2>2
  <1> QED
    BY <1>1, <1>2, <1>3 DEF ForeignKept

\* Whatever the game writes, replaces or deletes during the looks and the copying
\* (createReadOnlySnapshot), and whatever fails: what inspect is given is of the
\* save at one moment, and has every file that was there from the listing on (a
\* file that comes later is left out); inspect leaves both of its outputs or none,
\* and it touches no file of somebody else.
THEOREM SnapshotsAreWhole ==
  ASSUME Snapshot!DelayAssumption
  PROVE  Snapshot!Spec => SnapshotIsWhole
  <1> DEFINE Whole == Snapshot!ConsistentCut /\ Snapshot!LeftOutIsNew /\ Snapshot!BothOutputsOrNone
  <1>1. Snapshot!Init => SnapshotInv
    BY SnapshotHoldsAtFirst
  <1>2. SnapshotInv /\ [Snapshot!Next]_(Snapshot!vars) => SnapshotInv' /\ [ForeignKept]_(Snapshot!vars)
    BY StepsKeepSnapshot
  <1>3. SnapshotInv => Whole
    BY DEF SnapshotInv, SnapshotEndsTrue
  <1> HIDE DEF Whole
  <1>4. Snapshot!Spec => []Whole /\ [][ForeignKept]_(Snapshot!vars)
    BY <1>1, <1>2, <1>3, PTL DEF Snapshot!Spec
  <1> QED
    BY <1>4 DEF SnapshotIsWhole, Snapshot!SnapshotIsWhole, Snapshot!ForeignStays, Whole, ForeignKept

-----------------------------------------------------------------------------
(* The parser's process.                                                   *)

\* Who is ended writes and forks no more; who ended well has written everything.
ProcessTrue ==
  /\ exitCode # "none" => "parser" \notin alive
  /\ exitCode = "0" => output = "whole"
  /\ parserAt \in {"verify", "start"} => alive = {} /\ exitCode = "none"

\* The promise of executeParser is settled once it is, and with "ok" only by a
\* 'close' in time.
PromiseTrue ==
  /\ parserAt \in {"verify", "start", "running"} => settled = "none"
  /\ settled = "ok" => exitCode = "0" /\ ~Process!TimedOut /\ alive = {}
  /\ parserAt \in {"verify", "start", "running", "settled", "done"}
  /\ parserAt = "verify" => ~dir
  /\ result = "ok" => settled = "ok"

ParserInv == ProcessTrue /\ PromiseTrue /\ Process!OnlyWholeOutput /\ Process!DirectoryRemoved

LEMMA ParserStepsKeepProcess ==
  ASSUME ParserInv, Process!Parser
  PROVE  ParserInv' /\ UNCHANGED settled
BY DEF ParserInv, ProcessTrue, PromiseTrue, Process!OnlyWholeOutput, Process!DirectoryRemoved,
     Process!TimedOut, Process!Parser, Process!Fork, Process!WriteOutput, Process!ExitParser,
     Process!ExitHelper

LEMMA ClientStepsKeepProcess ==
  ASSUME ParserInv, Process!Client
  PROVE  ParserInv' /\ (settled # "none" => settled' = settled)
  <1> USE DEF ParserInv, ProcessTrue, PromiseTrue,
              Process!OnlyWholeOutput, Process!DirectoryRemoved, Process!TimedOut
  <1>1. CASE Process!Verify
    BY <1>1 DEF Process!Verify
  <1>2. CASE Process!Spawn
    BY <1>2 DEF Process!Spawn
  <1>3. CASE Process!Timeout
    BY <1>3 DEF Process!Timeout, Process!Killed
  <1>4. CASE Process!OnError
    BY <1>4 DEF Process!OnError, Process!Finish
  <1>5. CASE Process!OnClose
    <2>1. /\ parserAt = "running" /\ parserAt' = "settled" /\ settled' = Process!Closed
          /\ timer' = IF timer = "armed" THEN "cleared" ELSE timer
          /\ alive = {} /\ UNCHANGED <<alive, exitCode, output, dir, result>>
      BY <1>5 DEF Process!OnClose, Process!Finish
    <2>2. Process!Closed = "ok" => exitCode = "0" /\ timer # "fired"
      BY DEF Process!Closed
    <2> QED
      BY <2>1, <2>2
  <1>6. CASE Process!Read
    BY <1>6 DEF Process!Read
  <1> QED
    BY <1>1, <1>2, <1>3, <1>4, <1>5, <1>6 DEF Process!Client

\* parseSnapshot, with the timer, 'error' and 'close' in any order and a parser
\* that may crash, hang or leave a helper behind: it settles once, returns only the
\* whole output of a parser that ended well and in time, and removes its directory.
THEOREM ParserEndsClean == Process!Spec => ParserOutcome
  <1> DEFINE Clean == Process!OnlyWholeOutput /\ Process!DirectoryRemoved
             Once == settled # "none" => settled' = settled
  <1>1. Process!Init => ParserInv
    BY DEF Process!Init, ParserInv, ProcessTrue, PromiseTrue, Process!OnlyWholeOutput,
         Process!DirectoryRemoved, Process!TimedOut
  <1>2. ParserInv /\ [Process!Next]_(Process!vars) => ParserInv' /\ [Once]_(Process!vars)
    <2>1. ASSUME ParserInv, UNCHANGED Process!vars PROVE ParserInv'
      BY <2>1 DEF Process!vars, ParserInv, ProcessTrue, PromiseTrue, Process!OnlyWholeOutput,
           Process!DirectoryRemoved, Process!TimedOut
    <2> QED
      BY <2>1, ParserStepsKeepProcess, ClientStepsKeepProcess DEF Process!Next
  <1>3. ParserInv => Clean
    BY DEF ParserInv
  <1> HIDE DEF Clean, Once
  <1>4. Process!Spec => []Clean /\ [][Once]_(Process!vars)
    BY <1>1, <1>2, <1>3, PTL DEF Process!Spec
  <1> QED
    BY <1>4 DEF ParserOutcome, Process!ParserOutcome, Process!SettledOnce, Clean, Once

-----------------------------------------------------------------------------
(* What is uploaded.                                                       *)

SnapshotRows ==
  [guilds : SUBSET Guilds, named : SUBSET Guilds, playerGuild : Guilds \cup {None},
   baseGuild : Guilds \cup {None}, pal : Sent!PalInputs, stack : Sent!StackInputs]

\* What is published is made of a save.
PayloadInv == snapshot \in SnapshotRows /\ (payload # None => payload = Sent!Payload(snapshot))

LEMMA PayloadInvHolds == Sent!Spec => []PayloadInv
  <1>1. Sent!Init => PayloadInv
    <2> SUFFICES ASSUME Sent!Init PROVE snapshot \in SnapshotRows
      BY DEF Sent!Init, PayloadInv
    <2>0. PICK guilds \in SUBSET Guilds :
            \E named \in SUBSET guilds, g, h \in Guilds \cup {None},
               pair \in Sent!PalInputs \X Sent!StackInputs :
                 snapshot = [guilds |-> guilds, named |-> named, playerGuild |-> g, baseGuild |-> h,
                             pal |-> pair[1], stack |-> pair[2]]
      <3>1. Sent!SomePal \in Sent!PalInputs /\ Sent!SomeStack \in Sent!StackInputs
        BY DEF Sent!SomePal, Sent!SomeStack, Sent!PalInputs, Sent!StackInputs
      <3> QED
        BY <3>1 DEF Sent!Init
    <2>1. PICK named \in SUBSET guilds, g \in Guilds \cup {None}, h \in Guilds \cup {None},
               pair \in Sent!PalInputs \X Sent!StackInputs :
            snapshot = [guilds |-> guilds, named |-> named, playerGuild |-> g, baseGuild |-> h,
                        pal |-> pair[1], stack |-> pair[2]]
      BY <2>0
    <2>3. pair[1] \in Sent!PalInputs /\ pair[2] \in Sent!StackInputs
      OBVIOUS
    <2>4. named \in SUBSET Guilds
      OBVIOUS
    <2> QED
      BY <2>1, <2>3, <2>4 DEF SnapshotRows
  <1>2. PayloadInv /\ [Sent!Create]_(Sent!vars) => PayloadInv'
    BY DEF PayloadInv, Sent!Create, Sent!vars
  <1> QED
    BY <1>1, <1>2, PTL DEF Sent!Spec

LEMMA GuildIsPublished ==
  ASSUME NEW s \in SnapshotRows, NEW g, Sent!InGuilds(s, g)
  PROVE  Sent!Redacted(g) \in Sent!Payload(s).guilds
  BY DEF Sent!InGuilds, Sent!Payload

LEMMA RedactedIsSomething ==
  ASSUME Sent!UidsAssumption, NEW u \in Guilds \cup {Player, Stranger, Base, UnknownBase, Place}
  PROVE  Sent!Redacted(u) # None /\ Sent!IsRedacted(Sent!Redacted(u)) /\ u # None
  BY DEF Sent!UidsAssumption, Sent!IsRedacted

LEMMA GuildsAreKnown ==
  ASSUME NEW s \in SnapshotRows, NEW g, Sent!InGuilds(s, g)
  PROVE  g \in Guilds
  BY DEF Sent!InGuilds, Sent!NamedGuilds, SnapshotRows

LEMMA NothingIsNotRedacted == Sent!Redacted(None) = None
  BY DEF Sent!Redacted

\* createInventoryPublishPayload: what the client publishes is accepted by
\* assertPublicSyncPayload; a shared pal comes with its guild and owner, and an
\* unshared one with a reason; no player or pal is of a guild that is missing, and a
\* stack that counts as found is in a published base or chest.
THEOREM PayloadsAgree ==
  ASSUME Sent!UidsAssumption
  PROVE  Sent!Spec => []PayloadAgrees
  <1>1. ASSUME PayloadInv, Sent!Made
        PROVE  Sent!PayloadAgrees
    <2> DEFINE s == snapshot
               uids == Guilds \cup {Player, Stranger, Base, UnknownBase, Place}
    <2>0. s \in SnapshotRows /\ payload = Sent!Payload(s)
      BY <1>1 DEF PayloadInv, Sent!Made
    <2>1. /\ s.pal \in Sent!PalInputs /\ s.stack \in Sent!StackInputs
          /\ s.playerGuild \in Guilds \cup {None} /\ s.baseGuild \in Guilds \cup {None}
      BY <2>0 DEF SnapshotRows
    <2>2. /\ payload.pal = Sent!PublishedPal(s) /\ payload.stack = Sent!PublishedStack(s)
          /\ payload.guilds = {Sent!Redacted(g) : g \in Sent!NamedGuilds(s)}
          /\ payload.players =
               {[uid |-> Sent!Redacted(Player),
                 guild |-> IF Sent!InGuilds(s, s.playerGuild)
                           THEN Sent!Redacted(s.playerGuild) ELSE None]}
          /\ payload.bases = {[uid |-> Sent!Redacted(Base), guild |-> Sent!Redacted(s.baseGuild)]}
      BY <2>0 DEF Sent!Payload
    <2>3. /\ payload.pal.owner = Sent!Redacted(s.pal.owner)
          /\ payload.pal.guild =
               IF Sent!InGuilds(s, s.pal.guild) THEN Sent!Redacted(s.pal.guild) ELSE None
          /\ payload.pal.place = Sent!Redacted(s.pal.place)
          /\ payload.pal.location = s.pal.location /\ payload.pal.scope = s.pal.scope
          /\ payload.pal.shared =
               (Sent!OwnerResolved(s) /\ Sent!GuildResolved(s) /\ Sent!AccessResolved(s))
          /\ payload.pal.warnings = Sent!Warnings(s)
      BY <2>2 DEF Sent!PublishedPal
    <2>4. /\ payload.stack.base = Sent!Redacted(s.stack.base)
          /\ payload.stack.guild = Sent!Redacted(s.stack.guild)
          /\ payload.stack.container = s.stack.container
          /\ payload.stack.status =
               IF s.stack.status = "resolved" /\ ~Sent!BaseResolved(s) /\ ~Sent!ChestResolved(s)
               THEN "unresolved" ELSE s.stack.status
      BY <2>2 DEF Sent!PublishedStack
    <2>5. \A g : Sent!InGuilds(s, g) => Sent!Redacted(g) \in payload.guilds /\ g \in Guilds
      BY <2>0, GuildIsPublished, GuildsAreKnown
    <2>6. /\ s.pal.owner \in {None, Player, Stranger} /\ s.pal.place \in {None, Place}
          /\ s.pal.scope \in {"player", "guild", "unresolved"}
          /\ s.stack.base \in {None, Base, UnknownBase}
      BY <2>1 DEF Sent!PalInputs, Sent!StackInputs
    <2>7. Sent!SharedIsReachable
      <3> SUFFICES ASSUME payload.pal.shared
                   PROVE  /\ payload.pal.guild \in payload.guilds
                          /\ payload.pal.owner # None =>
                               [uid |-> payload.pal.owner, guild |-> payload.pal.guild]
                                 \in payload.players
                          /\ payload.pal.owner = None => payload.pal.location = "base"
                          /\ payload.pal.location = "dimensional_storage" =>
                               payload.pal.scope = "guild"
        BY DEF Sent!SharedIsReachable
      <3>1. Sent!OwnerResolved(s) /\ Sent!GuildResolved(s) /\ Sent!AccessResolved(s)
        BY <2>3
      <3>2. Sent!InGuilds(s, s.pal.guild) /\ payload.pal.guild = Sent!Redacted(s.pal.guild)
        BY <2>3, <3>1 DEF Sent!GuildResolved
      <3>3. CASE s.pal.owner = Player
        <4>1. s.playerGuild = s.pal.guild
          BY <3>1, <3>3 DEF Sent!GuildResolved
        <4>2. payload.pal.owner = Sent!Redacted(Player) /\ payload.pal.owner # None
          BY <2>3, <3>3, RedactedIsSomething
        <4> QED
          BY <2>2, <2>3, <2>5, <3>1, <3>2, <4>1, <4>2 DEF Sent!AccessResolved
      <3>4. CASE Sent!GuildOwned(s)
        BY <2>3, <2>5, <3>1, <3>2, <3>4, NothingIsNotRedacted DEF Sent!GuildOwned,
             Sent!AccessResolved
      <3> QED
        BY <3>1, <3>3, <3>4 DEF Sent!OwnerResolved
    <2>8. Sent!UnsharedIsExplained
      <3>1. ASSUME ~Sent!OwnerResolved(s) PROVE "OWNER_UNRESOLVED" \in Sent!Warnings(s)
        BY <3>1 DEF Sent!Warnings
      <3>2. ASSUME ~Sent!GuildResolved(s) PROVE "GUILD_UNRESOLVED" \in Sent!Warnings(s)
        BY <3>2 DEF Sent!Warnings
      <3>3. ASSUME ~Sent!AccessResolved(s), s.pal.scope = "unresolved"
            PROVE  "LOCATION_ACCESS_UNRESOLVED" \in Sent!Warnings(s)
        BY <3>3 DEF Sent!Warnings, Sent!AccessResolved
      <3>4. ASSUME ~payload.pal.shared
            PROVE  \/ payload.pal.warnings \ {"UNKNOWN_LOCATION"} # {}
                   \/ payload.pal.location = "dimensional_storage" /\ payload.pal.scope = "player"
        <4>1. \/ ~Sent!OwnerResolved(s) \/ ~Sent!GuildResolved(s) \/ ~Sent!AccessResolved(s)
          BY <2>3, <3>4
        <4>2. CASE ~Sent!OwnerResolved(s) \/ ~Sent!GuildResolved(s)
          BY <2>3, <3>1, <3>2, <4>2
        <4>3. CASE ~Sent!AccessResolved(s)
          BY <2>3, <2>6, <3>3, <4>3 DEF Sent!AccessResolved
        <4> QED
          BY <4>1, <4>2, <4>3
      <3> QED
        BY <3>4 DEF Sent!UnsharedIsExplained
    <2>9. Sent!NoDanglingGuild
      BY <2>2, <2>3, <2>5 DEF Sent!NoDanglingGuild
    <2>10. Sent!ResolvedStackIsFound
      <3> SUFFICES ASSUME payload.stack.status = "resolved"
                   PROVE  /\ payload.stack.guild \in payload.guilds
                          /\ \/ [uid |-> payload.stack.base, guild |-> payload.stack.guild]
                                  \in payload.bases
                             \/ /\ payload.stack.base = None
                                /\ payload.stack.container = "guild_chest"
        BY DEF Sent!ResolvedStackIsFound
      <3>1. Sent!BaseResolved(s) \/ Sent!ChestResolved(s)
        BY <2>4
      <3>2. CASE Sent!BaseResolved(s)
        BY <2>2, <2>4, <2>5, <3>2 DEF Sent!BaseResolved
      <3>3. CASE Sent!ChestResolved(s)
        BY <2>4, <2>5, <3>3, NothingIsNotRedacted DEF Sent!ChestResolved
      <3> QED
        BY <3>1, <3>2, <3>3
    <2>11. Sent!ClientIsAccepted
      <3>1. \A g \in payload.guilds : Sent!IsRedacted(g)
        <4>1. Sent!NamedGuilds(s) \subseteq Guilds
          BY <2>0 DEF Sent!NamedGuilds, SnapshotRows
        <4> QED
          BY <2>2, <4>1, RedactedIsSomething
      <3>2. \A q \in payload.players :
              Sent!IsRedacted(q.uid) /\ (q.guild # None => Sent!IsRedacted(q.guild))
        BY <2>2, <2>5, RedactedIsSomething
      <3>3. \A u \in {payload.pal.owner, payload.pal.guild, payload.pal.place} :
              u # None => Sent!IsRedacted(u)
        BY <2>3, <2>5, <2>6, RedactedIsSomething, NothingIsNotRedacted
      <3> QED
        BY <3>1, <3>2, <3>3 DEF Sent!ClientIsAccepted, Sent!Accepted
    <2> QED
      BY <2>7, <2>8, <2>9, <2>10, <2>11 DEF Sent!PayloadAgrees
  <1>2. ASSUME ~Sent!Made PROVE Sent!PayloadAgrees
    BY <1>2 DEF Sent!PayloadAgrees, Sent!SharedIsReachable, Sent!UnsharedIsExplained,
         Sent!NoDanglingGuild, Sent!ResolvedStackIsFound, Sent!ClientIsAccepted
  <1>3. PayloadInv => PayloadAgrees
    BY <1>1, <1>2 DEF PayloadAgrees
  <1> QED
    BY <1>3, PayloadInvHolds, PTL

-----------------------------------------------------------------------------
(* All of them together (MCSync): the types, and the locks.                *)

\* The locks of the move: an upload that may publish holds the world, and a
\* rollback that may restore holds both rows.
LocksTrue ==
  /\ second \in BOOLEAN
  /\ latest \in [form : Move!Forms, pals : SUBSET Pals]
  /\ movedDevice \in [MovedDevices -> [world : {"none", "main", "second"}, revoked : BOOLEAN]]
  /\ upload \in [MovedDevices -> {"idle", "begun", "holding"}]
  /\ movedWorldLock \in MovedDevices \cup {Move!Mover, Move!Mapper, NoOne}
  /\ rowLock \in {Move!Mapper, NoOne}
  /\ \A d \in MovedDevices : upload[d] = "holding" <=> movedWorldLock = d
  /\ movedWorldLock = Move!Mapper => rowLock = Move!Mapper
  /\ strayed \subseteq Pals

LEMMA LocksHoldAtFirst ==
  ASSUME Move!Init, MoveInv
  PROVE  LocksTrue
BY LocksAssumption DEF Move!Init, MoveInv, LocksTrue, Move!Forms, Move!LockAssumption

\* A step of an upload, which may take or leave the lock of the world.
LEMMA UploadsKeepLocks ==
  ASSUME LocksTrue, MoveInv, NEW d \in MovedDevices,
         \/ Move!UploadBegins(d) \/ Move!UploadLocks(d) \/ Move!UploadCommits(d)
         \/ Move!UploadElsewhere(d) \/ Move!UploadLeaves(d) \/ Move!Revoke(d)
  PROVE  LocksTrue'
  <1> USE LocksAssumption DEF LocksTrue, Move!LockAssumption, Move!Mover, Move!Mapper
  <1>1. CASE Move!UploadBegins(d)
    BY <1>1 DEF Move!UploadBegins
  <1>2. CASE Move!UploadLocks(d)
    BY <1>2 DEF Move!UploadLocks
  <1>3. CASE Move!UploadCommits(d)
    BY <1>3 DEF Move!UploadCommits, Move!Publish, MoveInv
  <1>4. CASE Move!UploadElsewhere(d)
    BY <1>4 DEF Move!UploadElsewhere
  <1>5. CASE Move!UploadLeaves(d)
    BY <1>5 DEF Move!UploadLeaves
  <1>6. CASE Move!Revoke(d)
    <2> DEFINE Rows == [world : {"none", "main", "second"}, revoked : BOOLEAN]
    <2>1. \A row \in Rows : [row EXCEPT !.revoked = TRUE] \in Rows
      OBVIOUS
    <2>2. movedDevice' = [movedDevice EXCEPT ![d] = [movedDevice[d] EXCEPT !.revoked = TRUE]]
      BY <1>6 DEF Move!Revoke
    <2>3. UNCHANGED <<second, latest, upload, movedWorldLock, rowLock, strayed>>
      BY <1>6 DEF Move!Revoke
    <2>4. movedDevice' \in [MovedDevices -> Rows]
      BY <2>1, <2>2
    <2> QED
      BY <2>3, <2>4
  <1> HIDE DEF LocksTrue, Move!LockAssumption, Move!Mover, Move!Mapper
  <1> QED
    BY <1>1, <1>2, <1>3, <1>4, <1>5, <1>6

LEMMA StepsKeepMoveLocks ==
  ASSUME LocksTrue, MoveInv, ChoiceInv, [Move!Next]_(Move!vars)
  PROVE  LocksTrue'
  <1> USE LocksAssumption DEF LocksTrue, Move!LockAssumption, Move!Mover, Move!Mapper
  <1>1. CASE Move!Joins
    BY <1>1 DEF Move!Joins
  <1>2. CASE Move!WorkerPublishes
    BY <1>2 DEF Move!WorkerPublishes, Move!Publish, MoveInv, Move!Forms
  <1>3. ASSUME NEW d \in MovedDevices,
               \/ Move!UploadBegins(d) \/ Move!UploadLocks(d) \/ Move!UploadCommits(d)
               \/ Move!UploadElsewhere(d) \/ Move!UploadLeaves(d) \/ Move!Revoke(d)
        PROVE  LocksTrue'
    BY <1>3, UploadsKeepLocks
  <1>4. ASSUME NEW q \in Pals, NEW value \in {"shared", "private"}, Move!ToggleLooks(q, value)
        PROVE  LocksTrue'
    BY <1>4 DEF Move!ToggleLooks
  <1>5. CASE Move!ToggleWrites
    <2>1. toggle.pal \in Pals
      BY <1>5 DEF Move!ToggleWrites, ChoiceInv, ChoiceTypeOK, Toggles
    <2> QED
      BY <1>5, <2>1 DEF Move!ToggleWrites
  <1>6. CASE Move!TransitionBegins
    BY <1>6 DEF Move!TransitionBegins
  <1>7. CASE Move!TransitionCommits
    BY <1>7 DEF Move!TransitionCommits
  <1>8. CASE Move!TransitionEnds
    BY <1>8 DEF Move!TransitionEnds
  <1>9. CASE Move!RollbackBegins
    BY <1>9 DEF Move!RollbackBegins
  <1>10. CASE Move!RollbackLocks
    BY <1>10 DEF Move!RollbackLocks
  <1>11. CASE Move!RollbackCommits
    BY <1>11 DEF Move!RollbackCommits
  <1>12. CASE Move!RollbackEnds
    BY <1>12 DEF Move!RollbackEnds
  <1>13. CASE UNCHANGED Move!vars
    BY <1>13 DEF Move!vars
  <1> QED
    BY <1>1, <1>2, <1>3, <1>4, <1>5, <1>6, <1>7, <1>8, <1>9, <1>10, <1>11, <1>12, <1>13
       DEF Move!Next

\* What is known of the move.
MoveHolds == MoveInv /\ ChoiceInv /\ LocksTrue

LEMMA MoveIsTyped ==
  ASSUME MoveHolds
  PROVE  Move!TypeOK
BY DEF MoveHolds, MoveInv, PlayerRows, ChoiceInv, ChoiceTypeOK, Preferences, LocksTrue, Move!TypeOK

LEMMA StepsKeepDomains ==
  ASSUME SnapshotInv, DomainsTrue, [Snapshot!Next]_(Snapshot!vars)
  PROVE  DomainsTrue'
  <1> USE DEF DomainsTrue
  <1>0. DOMAIN Snapshot!NoLook = {}
    BY DEF Snapshot!NoLook
  <1>1. /\ at # "list" => todo \subseteq listed
        /\ at = "third" => DOMAIN copy = listed
        /\ at = "list" => DOMAIN first = {} /\ DOMAIN secondLook = {} /\ DOMAIN copy = {}
    BY DEF SnapshotInv, SnapshotTypeOK, CopyTrue, ListTrue
  <1>2. ASSUME NEW f \in todo, NEW look, NEW row
        PROVE  DOMAIN Snapshot!Extended(look, f, row) = DOMAIN look \cup {f}
    BY DEF Snapshot!Extended
  <1>3. ASSUME NEW f \in Files,
               \/ Snapshot!ListFile(f) \/ Snapshot!LookFirst(f) \/ Snapshot!LookSecond(f)
               \/ Snapshot!LookThird(f) \/ Snapshot!Copy(f)
        PROVE  DomainsTrue'
    <2>1. CASE Snapshot!LookFirst(f)
      <3>1. DOMAIN first' = DOMAIN first \cup {f}
        BY <1>2, <2>1 DEF Snapshot!LookFirst
      <3> QED
        BY <1>1, <2>1, <3>1 DEF Snapshot!LookFirst
    <2>2. CASE Snapshot!LookSecond(f)
      <3>1. DOMAIN secondLook' = DOMAIN secondLook \cup {f}
        BY <1>2, <2>2 DEF Snapshot!LookSecond
      <3> QED
        BY <1>1, <2>2, <3>1 DEF Snapshot!LookSecond
    <2>3. CASE Snapshot!LookThird(f)
      BY <2>3 DEF Snapshot!LookThird
    <2>4. CASE Snapshot!Copy(f)
      <3>1. DOMAIN copy' = DOMAIN copy \cup {f}
        BY <1>2, <2>4 DEF Snapshot!Copy
      <3> QED
        BY <1>1, <2>4, <3>1 DEF Snapshot!Copy
    <2>5. CASE Snapshot!ListFile(f)
      BY <1>1, <2>5 DEF Snapshot!ListFile
    <2> QED
      BY <1>3, <2>1, <2>2, <2>3, <2>4, <2>5
  <1>4. CASE \/ Snapshot!List \/ Snapshot!EndOfList \/ Snapshot!Pause \/ Snapshot!Compare \/ Snapshot!Recheck
             \/ Snapshot!Complete \/ Snapshot!Fail \/ Snapshot!Cleanup
    BY <1>0, <1>1, <1>4 DEF Snapshot!List, Snapshot!EndOfList, Snapshot!Pause, Snapshot!Compare, Snapshot!Recheck,
       Snapshot!Complete, Snapshot!Fail, Snapshot!Cleanup
  <1>5. CASE Snapshot!Inspect
    BY <1>5 DEF Snapshot!Inspect, Snapshot!WriteCanonical, Snapshot!WritePayload,
       Snapshot!PayloadFails, Snapshot!Collect, Snapshot!Foreign
  <1>6. CASE UNCHANGED <<at, listed, first, secondLook, copy>>
    BY <1>6
  <1>7. Snapshot!Tick \/ UNCHANGED Snapshot!vars
          \/ (\E f \in Files : Snapshot!WriteInPlace(f) \/ Snapshot!Replace(f) \/ Snapshot!Delete(f))
          => UNCHANGED <<at, listed, first, secondLook, copy>>
    BY DEF Snapshot!Tick, Snapshot!vars, Snapshot!WriteInPlace, Snapshot!Replace,
       Snapshot!Delete, Snapshot!Change
  <1> QED
    BY <1>3, <1>4, <1>5, <1>6, <1>7 DEF Snapshot!Next, Snapshot!Look

LEMMA CopyIsTyped ==
  ASSUME SnapshotInv, DomainsTrue
  PROVE  Snapshot!TypeOK
  <1>1. \A f \in Files : DOMAIN disk[f] = DOMAIN Snapshot!Absent
    BY DEF SnapshotInv, SnapshotTypeOK, FileRows, Snapshot!Absent
  <1> QED
    BY <1>1 DEF SnapshotInv, SnapshotTypeOK, CopyStates, DomainsTrue, Snapshot!TypeOK

LEMMA StepsKeepProcessTyped ==
  ASSUME Process!TypeOK, [Process!Next]_(Process!vars)
  PROVE  Process!TypeOK'
  <1> USE DEF Process!TypeOK, Process!TimedOut, Process!Platforms
  <1>1. CASE Process!Parser
    BY <1>1 DEF Process!Parser, Process!Fork, Process!WriteOutput, Process!ExitParser,
       Process!ExitHelper
  <1>2. CASE Process!Verify \/ Process!Spawn
    BY <1>2 DEF Process!Verify, Process!Spawn
  <1>3. CASE Process!Timeout
    BY <1>3 DEF Process!Timeout, Process!Killed
  <1>4. CASE Process!OnError \/ Process!OnClose
    BY <1>4 DEF Process!OnError, Process!OnClose, Process!Finish
  <1>5. CASE Process!Read
    BY <1>5 DEF Process!Read
  <1>6. CASE UNCHANGED Process!vars
    BY <1>6 DEF Process!vars
  <1> QED
    BY <1>1, <1>2, <1>3, <1>4, <1>5, <1>6 DEF Process!Next, Process!Client

LEMMA ClientIsTyped ==
  ASSUME ClientInv, ServerInv
  PROVE  Client!ClientTypeOK
  <1>1. Client!ServerTypeOK
    BY DEF ServerInv, ServerTypeOK, Client!ServerTypeOK, Times, Client!Times
  <1>2. file \in Configs
    BY DEF ClientInv, FileOK
  <1>3. Configs = Client!Configs
    BY DEF Configs, Client!Configs, Saves, Times, Client!Times
  <1>4. ASSUME NEW p \in Processes
        PROVE  /\ proc[p].conf \in Configs
               /\ proc[p].attempt \in 0..Client!Attempts
               /\ proc[p].at = "call" => proc[p].attempt # 0
               /\ proc[p].cmd \in Commands /\ proc[p].at \in Places
    <2>1. proc[p] \in ProcessRows /\ (proc[p].at = "call" => proc[p].attempt # 0)
      BY DEF ClientInv, RowOK
    <2> QED
      BY <2>1 DEF ProcessRows, Client!Attempts
  <1> QED
    BY <1>1, <1>2, <1>3, <1>4 DEF Commands, Places, Client!ClientTypeOK

\* Each part keeps what is known of it, when it moves and when another does.
PartsInv ==
  /\ MoveHolds
  /\ SnapshotInv /\ DomainsTrue
  /\ Process!TypeOK
  /\ part = "server" => Inv
  /\ part = "client" => ClientInv /\ ServerInv

LEMMA AllIsAssumed == ClientAssumed /\ Assumed /\ Snapshot!DelayAssumption
BY ServerAssumption, ClientIsAssumed, CopyAssumption DEF ClientAssumed, Assumed

LEMMA PartsHoldAtFirst ==
  ASSUME MCInit
  PROVE  PartsInv
  <1>1. MoveHolds
    BY MoveInvHoldsAtFirst, ChoicesHoldAtFirst, LocksHoldAtFirst DEF MCInit, MoveHolds
  <1>2. SnapshotInv /\ DomainsTrue
    BY SnapshotHoldsAtFirst DEF MCInit
  <1>3. Process!TypeOK
    BY DEF MCInit, Process!Init, Process!TypeOK, Process!TimedOut
  <1>4. Inv
    BY AllIsAssumed, InvHoldsAtFirst DEF MCInit
  <1>5. ClientInv /\ ServerInv
    BY AllIsAssumed, ClientInvHoldsAtFirst, <1>4 DEF MCInit, Inv
  <1> QED
    BY <1>1, <1>2, <1>3, <1>4, <1>5 DEF PartsInv

\* The steps of the parts, with no word on the others.
LEMMA MoveKeepsAll ==
  ASSUME MoveHolds, [Move!Next]_(Move!vars)
  PROVE  MoveHolds'
BY StepsKeepRows, StepsKeepChoices, StepsKeepMoveLocks DEF MoveHolds

LEMMA CopyKeepsAll ==
  ASSUME SnapshotInv, DomainsTrue, [Snapshot!Next]_(Snapshot!vars)
  PROVE  (SnapshotInv /\ DomainsTrue)'
BY StepsKeepSnapshot, StepsKeepDomains, AllIsAssumed

LEMMA ClientKeepsAll ==
  ASSUME ClientInv, ServerInv, [Client!Next]_(Client!vars)
  PROVE  (ClientInv /\ ServerInv)'
BY ClientStepsAreRequests, RequestsKeepPromises, AllIsAssumed

LEMMA StepsKeepParts ==
  ASSUME PartsInv, [MCNext]_mcVars
  PROVE  PartsInv'
  <1>1. [Move!Next]_(Move!vars)
    BY DEF MCNext, mcVars, moveVars, Move!vars
  <1>2. [Snapshot!Next]_(Snapshot!vars)
    BY DEF MCNext, mcVars, copyVars, Snapshot!vars
  <1>3. [Process!Next]_(Process!vars)
    BY DEF MCNext, mcVars, parserVars, Process!vars
  <1>4. UNCHANGED part
    BY DEF MCNext, mcVars
  <1>5. part = "server" => [Next]_vars
    BY DEF MCNext, mcVars
  <1>6. part = "client" => [Client!Next]_(Client!vars)
    <2>1. ASSUME UNCHANGED <<vars, clientVars>> PROVE UNCHANGED Client!vars
      BY <2>1 DEF vars, clientVars, serverVars, Client!vars, Client!serverVars, Client!clientVars
    <2> QED
      BY <2>1 DEF MCNext, mcVars
  <1>7. MoveHolds' /\ (SnapshotInv /\ DomainsTrue)' /\ Process!TypeOK'
    BY <1>1, <1>2, <1>3, MoveKeepsAll, CopyKeepsAll, StepsKeepProcessTyped DEF PartsInv
  <1>8. part = "server" => Inv'
    BY <1>5, StepsAreRequests, AllIsAssumed DEF PartsInv
  <1>9. part = "client" => (ClientInv /\ ServerInv)'
    BY <1>6, ClientKeepsAll DEF PartsInv
  <1> QED
    BY <1>4, <1>7, <1>8, <1>9 DEF PartsInv

\* Every part of public sync keeps its types in every behaviour of theirs, and a
\* transaction of the server, an upload and a move of a world hold the rows that
\* they rely on.
THEOREM PartsAreSound == MCSpec => []PartsOK
  <1>1. ASSUME PartsInv PROVE PartsOK
    <2>1. Move!TypeOK /\ Snapshot!TypeOK /\ Process!TypeOK
      BY <1>1, MoveIsTyped, CopyIsTyped DEF PartsInv
    <2>2. part = "server" => TypeOK /\ LocksOK
      BY <1>1 DEF PartsInv, Inv, ServerInv, TypeOK, LocksOK
    <2>3. part = "client" => Client!ClientTypeOK
      BY <1>1, ClientIsTyped DEF PartsInv
    <2> QED
      BY <2>1, <2>2, <2>3 DEF PartsOK
  <1> QED
    BY PartsHoldAtFirst, StepsKeepParts, <1>1, PTL DEF MCSpec
==============================================================================
