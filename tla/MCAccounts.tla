------------------------------ MODULE MCAccounts ------------------------------
(***************************************************************************)
(* The players' accounts for TLC: bindings and invitations                 *)
(* (PlayerBindings), the card of the devices (DeviceCard), the sign-in     *)
(* with Steam (SteamSignIn) and the way into the application (Entrance).   *)
(*                                                                         *)
(* A behaviour is of one of the Parts, and the others stay at their        *)
(* initial states.  The bindings are two parts: the pages of an owner and  *)
(* of a guest without administrators, and the guest's page with            *)
(* administrators, while the device and the save stay.                     *)
(*                                                                         *)
(* The sets of interchangeable values are shared between the parts, which  *)
(* keeps the group of the symmetries small.                                *)
(***************************************************************************)
EXTENDS PlayerBindings, TLC

CONSTANTS Parts,
          owner, guest, w1, w2,
          Devices, CardPlayers, Slots, MaxCodes,
          Attempts, Browsers, SteamIds, NewUsers, PasswordUser, MaxFailures,
          Administrator, Newcomer, MaxSessions, MaxMisses

OnePageEach == w1 :> owner @@ w2 :> guest

VARIABLES part,
          active, gone, synced, bound, issued, lost, requests, page,
          users, email, profiles, identities, cookie, session, attempt, failures,
          started, via, left, unsure,
          holder, live, signedIn, newcomer, mail, passwords, window, failed

Card == INSTANCE DeviceCard WITH Players <- CardPlayers, revoked <- gone
Steam == INSTANCE SteamSignIn
Entry == INSTANCE Entrance WITH MaxFailures <- MaxMisses

ASSUME CardAssumption == Card!NobodyAssumption
ASSUME SteamUsersAssumption == Steam!UsersAssumption /\ Steam!SteamAssumption
ASSUME EntryAssumption == Entry!EntranceAssumption

cardVars == <<active, gone, synced, bound, issued, lost, requests, page>>
steamVars == <<users, email, profiles, identities, cookie, session, attempt, failures,
               started, via, left, unsure>>
entryVars == <<holder, live, signedIn, newcomer, mail, passwords, window, failed>>
mcVars == <<part, vars, cardVars, steamVars, entryVars>>

\* The password user may be signed in at a browser from the start.
MCInit ==
  /\ part \in Parts
  /\ Init /\ Card!Init /\ Steam!Init /\ Entry!Init
  /\ part # "steam" => \A b \in Browsers : session[b] = None
  /\ part # "entrance" => passwords

AdministratorsOnly ==
  /\ UNCHANGED <<members, revoked>> /\ tab'[w1] = tab[w1]
  /\ Cardinality({t \in Tokens : invitation'[t] # "new"}) <= 1

MCNext ==
  \/ part = "links" /\ Next /\ UNCHANGED <<part, seen, cardVars, steamVars, entryVars>>
  \/ part = "administrators" /\ Next /\ AdministratorsOnly
       /\ UNCHANGED <<part, cardVars, steamVars, entryVars>>
  \/ part = "card" /\ Card!Next /\ UNCHANGED <<part, vars, steamVars, entryVars>>
  \/ part = "steam" /\ Steam!Next /\ UNCHANGED <<part, vars, cardVars, entryVars>>
  \/ part = "entrance" /\ Entry!Next /\ UNCHANGED <<part, vars, cardVars, steamVars>>

MCSpec == MCInit /\ [][MCNext]_mcVars

Symmetry == Permutations(Players) \cup Permutations(Tokens) \cup Permutations(Admins)
              \cup Permutations(Slots)

-----------------------------------------------------------------------------
\* The card of the devices with replies out of order: see DeviceCard.
CardIsTrue == Card!CardIsTrue

\* The sign-in with Steam while calls fail: see SteamSignIn.
AccountsHold == Steam!AccountsHold

\* The way in, over redirects and forms: see Entrance.
EntranceHolds == Entry!EntranceHolds
=============================================================================
