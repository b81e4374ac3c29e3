-------------------------------- MODULE MCSync --------------------------------
(***************************************************************************)
(* The public synchronization for TLC: the server's functions and their    *)
(* transactions (PublicSync), the client with the same server (SyncClient),*)
(* the parts of the client's process (SaveSnapshot, ParserProcess and      *)
(* PublishPayload), and the move of a world to it (WorldTransition).       *)
(*                                                                         *)
(* A behaviour is of one of the Parts, and the others stay at their        *)
(* initial states.  The server of PublicSync and that of SyncClient are    *)
(* the same variables.                                                     *)
(***************************************************************************)
EXTENDS PublicSync, TLC

CONSTANTS Parts,
          Processes, TheWorld, MaxParser, MaxFaults,
          Players, Pals, MovedDevices, NoOne,
          Files, Level, Delay, MaxWrites,
          Guilds, Player, Stranger, Base, UnknownBase, Place

VARIABLES part,
          clientSave, parser, file, proc, strays, accepted, faults,
          save, uid, second, players, prefs, latest, transition, movedDevice, upload,
          movedWorldLock, rowLock, toggle, choice, strayed,
          now, disk, writes, at, listed, kept, first, secondLook, todo, copy, cut, out,
          platform, forks, parserAt, alive, exitCode, timer, output, dir, settled, result,
          snapshot, payload

Client == INSTANCE SyncClient WITH save <- clientSave
Move == INSTANCE WorldTransition WITH
  Devices <- MovedDevices, device <- movedDevice, worldLock <- movedWorldLock
Snapshot == INSTANCE SaveSnapshot WITH second <- secondLook
Process == INSTANCE ParserProcess WITH at <- parserAt, code <- exitCode
Sent == INSTANCE PublishPayload

ASSUME ServerAssumption == TimeAssumption /\ AbsentAssumption /\ RequestAssumption
ASSUME ClientIsAssumed == Client!ClientAssumption
ASSUME LocksAssumption == Move!LockAssumption
ASSUME CopyAssumption == Snapshot!DelayAssumption
ASSUME PayloadAssumption == Sent!UidsAssumption

clientVars == <<clientSave, parser, file, proc, strays, accepted, faults>>
moveVars == <<save, uid, second, players, prefs, latest, transition, movedDevice, upload,
              movedWorldLock, rowLock, toggle, choice, strayed>>
copyVars == <<now, disk, writes, at, listed, kept, first, secondLook, todo, copy, cut, out>>
parserVars == <<platform, forks, parserAt, alive, exitCode, timer, output, dir, settled, result>>
payloadVars == <<snapshot, payload>>
mcVars == <<part, vars, clientVars, moveVars, copyVars, parserVars, payloadVars>>

\* Where a part has several initial states, they matter only when it moves.
MCInit ==
  /\ part \in Parts
  /\ Init /\ Client!Init /\ Move!Init /\ Snapshot!Init /\ Process!Init /\ Sent!Init
  /\ part # "copy" => \A f \in Files : disk[f].there
  /\ part # "parser" => platform = "linux-x64" /\ ~forks
  /\ part # "redaction" =>
       snapshot = [guilds |-> {}, named |-> {}, playerGuild |-> None, baseGuild |-> None,
                   pal |-> Sent!SomePal, stack |-> Sent!SomeStack]

\* Bounds: a code is created only while there is a device left for it, ...
DeviceLeft == \A c \in Codes : code[c].state = "new" /\ code'[c].state # "new"
                                 => \E d \in Devices : device[d].state = "none"

\* ... and one user has all the codes of a client.
OneUser == Cardinality({code'[c].owner : c \in Codes} \ {None}) <= 1

MCNext ==
  \/ part = "transition" /\ Move!Next
       /\ UNCHANGED <<part, vars, clientVars, copyVars, parserVars, payloadVars>>
  \/ part = "server" /\ Next
       /\ UNCHANGED <<part, clientVars, moveVars, copyVars, parserVars, payloadVars>>
  \/ part = "client" /\ Client!Next /\ DeviceLeft /\ OneUser
       /\ UNCHANGED <<part, request, locks, moveVars, copyVars, parserVars, payloadVars>>
  \/ part = "copy" /\ Snapshot!Next
       /\ UNCHANGED <<part, vars, clientVars, moveVars, parserVars, payloadVars>>
  \/ part = "parser" /\ Process!Next
       /\ UNCHANGED <<part, vars, clientVars, moveVars, copyVars, payloadVars>>
  \/ part = "redaction" /\ Sent!Create
       /\ UNCHANGED <<part, vars, clientVars, moveVars, copyVars, parserVars>>

MCSpec == MCInit /\ [][MCNext]_mcVars

Symmetry == Permutations(Players) \cup Permutations(Pals) \cup Permutations(Devices)
              \cup Permutations(Guilds)

-----------------------------------------------------------------------------
\* Every part keeps its types; a transaction holds the rows it relies on.
PartsOK ==
  /\ Move!TypeOK /\ Snapshot!TypeOK /\ Process!TypeOK
  /\ part = "server" => TypeOK /\ LocksOK
  /\ part = "client" => Client!ClientTypeOK

\* What the client does not send again is what the server has: see SyncClient.
UnchangedIsTrue == Client!UnchangedIsTrue

\* "An existing valid configuration must not be overwritten silently": two
\* processes on one configuration do.  See SyncClient.
ConfigIsTheUsers == Client!ConfigIsTheUsers

\* The move of a world to public sync, and back: see WorldTransition.
OneForm == Move!OneForm
ChoicesComeAlong == Move!ChoicesComeAlong
PlayersKeepTheirRow == Move!PlayersKeepTheirRow

\* The copy of a save that is being written: see SaveSnapshot.
SnapshotIsWhole == Snapshot!SnapshotIsWhole

\* The parser's process, whatever becomes of it: see ParserProcess.
ParserOutcome == Process!ParserOutcome

\* What is uploaded: see PublishPayload.
PayloadAgrees == Sent!PayloadAgrees
=============================================================================
