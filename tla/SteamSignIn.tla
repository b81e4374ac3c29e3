---------------------------- MODULE SteamSignIn ----------------------------
(***************************************************************************)
(* Signing in with Steam, and linking a Steam account to a user who is     *)
(* signed in: the cookie that ties the callback to its start, the account  *)
(* that the first sign-in makes in three calls (auth user, profile,        *)
(* identity), and its removal when one of them fails.                      *)
(*                                                                         *)
(* Every call to the database is a step of its own: it is executed and     *)
(* answered, executed without an answer, or not executed; the code cannot  *)
(* tell the last two apart.  The process may die between two calls.  The   *)
(* failures of one behaviour are bounded by MaxFailures.                   *)
(***************************************************************************)
EXTENDS Integers, FiniteSets

CONSTANTS
  Attempts,      \* starts of the sign-in; also the state that each draws
  Browsers,
  SteamIds,
  NewUsers,      \* ids of users not yet created; none is drawn twice
  PasswordUser,  \* a user who registered with a password
  MaxFailures,
  None

UsersAssumption == PasswordUser \notin NewUsers /\ None \notin NewUsers \cup {PasswordUser}
SteamAssumption == None \notin SteamIds /\ None \notin Attempts

UserIds == NewUsers \cup {PasswordUser}
Intents == {"login", "link"}

VARIABLES
  users,       \* auth.users
  email,       \* the Steam account in the internal address of a user
  profiles,    \* the users with a profile
  identities,  \* steam_identities: the user of each Steam account
  cookie,      \* palbeacon_steam_state of each browser
  session,     \* the user signed in at each browser
  attempt,
  failures,    \* bound
  started,     \* auxiliary: the intent that each start had
  via,         \* auxiliary: the Steam account a session was opened with
  left,        \* auxiliary: users whose clean-up did not happen
  unsure       \* auxiliary: users whose identity was saved without an answer

database == <<users, email, profiles, identities>>
auxiliary == <<started, via, left, unsure>>
vars == <<database, cookie, session, attempt, failures, auxiliary>>

Idle == [pc |-> "idle", browser |-> None, intent |-> None, steam |-> None, user |-> None,
         created |-> FALSE, persisted |-> FALSE]

Init ==
  /\ users = {PasswordUser} /\ email = [u \in UserIds |-> None]
  /\ profiles = {PasswordUser} /\ identities = [s \in SteamIds |-> None]
  /\ cookie = [b \in Browsers |-> None]
  /\ session \in [Browsers -> {None, PasswordUser}]
  /\ attempt = [a \in Attempts |-> Idle]
  /\ failures = 0
  /\ started = [a \in Attempts |-> None] /\ via = [b \in Browsers |-> None]
  /\ left = {} /\ unsure = {}

At(a, pc) == attempt[a].pc = pc
Goto(a, pc) == attempt' = [attempt EXCEPT ![a].pc = pc]
Break == failures < MaxFailures /\ failures' = failures + 1

-----------------------------------------------------------------------------
(* The start and the callback. *)

\* createSteamState; linking requires a session.
Start(a, b, intent) ==
  /\ At(a, "idle")
  /\ intent = "link" => session[b] \in users
  /\ attempt' = [attempt EXCEPT ![a].pc = "steam", ![a].browser = b]
  /\ cookie' = [cookie EXCEPT ![b] = [state |-> a, intent |-> intent]]
  /\ started' = [started EXCEPT ![a] = intent]
  /\ UNCHANGED <<database, session, failures, via, left, unsure>>

\* The cookie is older than ten minutes.
Expire(b) ==
  /\ cookie[b] # None
  /\ cookie' = [cookie EXCEPT ![b] = None]
  /\ UNCHANGED <<database, session, attempt, failures, auxiliary>>

\* Mutation: the state of the callback is not compared.
AnyState(a) == cookie[attempt[a].browser] # None

\* validateSteamState
ValidState(a) ==
  LET held == cookie[attempt[a].browser]
  IN  held # None /\ held.state = a

\* Every response of the callback clears the cookie, also that of another start.
Respond(a, pc) ==
  /\ Goto(a, pc)
  /\ cookie' = [cookie EXCEPT ![attempt[a].browser] = None]

\* Steam sends the browser back; the assertion is verified.
Callback(a, s) ==
  /\ At(a, "steam")
  /\ IF ValidState(a)
       THEN LET b == attempt[a].browser
            IN  /\ attempt' = [attempt EXCEPT ![a].pc = "find",
                                              ![a].intent = cookie[b].intent,
                                              ![a].steam = s,
                                              ![a].user = IF cookie[b].intent = "link"
                                                            THEN session[b] ELSE None]
                /\ UNCHANGED cookie
       ELSE Respond(a, "failed")
  /\ UNCHANGED <<database, session, failures, auxiliary>>

\* A callback that Steam does not confirm, and every other call that only reads.
ReadFails(a) ==
  /\ \/ At(a, "steam") /\ ValidState(a)
     \/ At(a, "find") \/ At(a, "session")
  /\ Break
  /\ Respond(a, "failed")
  /\ UNCHANGED <<database, session, auxiliary>>
-----------------------------------------------------------------------------
(* The account. *)

\* What the handler of a failure does: a user that this login created is deleted
\* unless its identity is saved.  Mutation: even then.
AfterFailureAlways(a) ==
  IF attempt[a].created THEN Goto(a, "cleanup") /\ UNCHANGED cookie ELSE Respond(a, "failed")

\* Mutation: a user that was created stays.
AfterFailureNever(a) == Respond(a, "failed")

AfterFailure(a) ==
  IF attempt[a].created /\ ~attempt[a].persisted
    THEN Goto(a, "cleanup") /\ UNCHANGED cookie
    ELSE Respond(a, "failed")

\* findIdentity
Find(a) ==
  /\ At(a, "find")
  /\ LET found == identities[attempt[a].steam]
         user == attempt[a].user
     IN  CASE attempt[a].intent = "login" /\ found = None ->
                Goto(a, "create") /\ UNCHANGED cookie
           [] attempt[a].intent = "login" /\ found # None ->
                /\ attempt' = [attempt EXCEPT ![a].pc = "update", ![a].user = found,
                                              ![a].persisted = TRUE]
                /\ UNCHANGED cookie
           [] attempt[a].intent = "link" /\ user # None /\ found = None ->
                Goto(a, "save") /\ UNCHANGED cookie
           [] attempt[a].intent = "link" /\ user # None /\ found = user ->
                Goto(a, "update") /\ UNCHANGED cookie
           [] OTHER -> Respond(a, "failed")   \* signed out, or linked to another user
  /\ UNCHANGED <<database, session, failures, auxiliary>>

\* createAuthUser: the address is that of the Steam account, and unique.
Create(a) ==
  /\ At(a, "create")
  /\ IF \E u \in users : email[u] = attempt[a].steam
       THEN /\ Respond(a, "refused")
            /\ UNCHANGED <<database, failures, left>>
       ELSE \E u \in NewUsers :
              /\ u \notin users /\ email[u] = None
              /\ users' = users \cup {u}
              /\ email' = [email EXCEPT ![u] = attempt[a].steam]
              /\ \/ /\ attempt' = [attempt EXCEPT ![a].pc = "profile", ![a].user = u,
                                                  ![a].created = TRUE]
                    /\ UNCHANGED <<cookie, failures, left>>
                 \/ Break /\ Respond(a, "failed") /\ left' = left \cup {u}  \* no answer
              /\ UNCHANGED <<profiles, identities>>
  /\ UNCHANGED <<session, started, via, unsure>>

\* ensureProfile
Profile(a) ==
  /\ At(a, "profile")
  /\ LET u == attempt[a].user
     IN  \/ /\ u \in users
            /\ profiles' = profiles \cup {u}
            /\ \/ Goto(a, "save") /\ UNCHANGED <<cookie, failures>>
               \/ AfterFailure(a) /\ Break
         \/ /\ u \in users => Break
            /\ u \notin users => UNCHANGED failures
            /\ AfterFailure(a)
            /\ UNCHANGED profiles
  /\ UNCHANGED <<users, email, identities, session, auxiliary>>

\* steam_identities: user_id is the primary key, steam_id is unique.
Insertable(u, s) == u \in users /\ identities[s] = None /\ \A t \in SteamIds : identities[t] # u

Saved(a) ==
  IF attempt[a].intent = "login"
    THEN /\ attempt' = [attempt EXCEPT ![a].pc = "session", ![a].persisted = TRUE]
         /\ UNCHANGED cookie
    ELSE Respond(a, "done")

\* Mutation: the conflict with an identity that was saved meanwhile is taken for success.
SaveOverConflict(a) ==
  /\ At(a, "save")
  /\ LET u == attempt[a].user  s == attempt[a].steam
     IN  /\ identities' = IF Insertable(u, s) THEN [identities EXCEPT ![s] = u] ELSE identities
         /\ Saved(a)
  /\ UNCHANGED <<users, email, profiles, session, failures, auxiliary>>

\* saveIdentity
Save(a) ==
  /\ At(a, "save")
  /\ LET u == attempt[a].user  s == attempt[a].steam
     IN  \/ /\ Insertable(u, s)
            /\ identities' = [identities EXCEPT ![s] = u]
            /\ \/ Saved(a) /\ UNCHANGED <<failures, unsure>>
               \/ AfterFailure(a) /\ Break /\ unsure' = unsure \cup {u}   \* no answer
         \/ /\ Insertable(u, s) => Break
            /\ ~Insertable(u, s) => UNCHANGED failures
            /\ AfterFailure(a)
            /\ UNCHANGED <<identities, unsure>>
  /\ UNCHANGED <<users, email, profiles, session, started, via, left>>

\* updateIdentity: persona, avatar and profile address are left out; no row to
\* update is no error.
Update(a) ==
  /\ At(a, "update")
  /\ \/ Saved(a) /\ UNCHANGED failures
     \/ Break /\ Respond(a, "failed")
  /\ UNCHANGED <<database, session, auxiliary>>

\* getAuthUser, createMagicLinkToken and verifyMagicLinkToken
Session(a) ==
  /\ At(a, "session")
  /\ LET u == attempt[a].user  b == attempt[a].browser
     IN  \/ /\ u \in users
            /\ Respond(a, "done")
            /\ session' = [session EXCEPT ![b] = u]
            /\ via' = [via EXCEPT ![b] = attempt[a].steam]
            /\ UNCHANGED failures
         \/ /\ u \in users => Break
            /\ u \notin users => UNCHANGED failures
            /\ AfterFailure(a)
            /\ UNCHANGED <<session, via>>
  /\ UNCHANGED <<database, started, left, unsure>>

\* auth.users is the parent of profiles and steam_identities, on delete cascade.
Deleted(u) ==
  /\ users' = users \ {u}
  /\ profiles' = profiles \ {u}
  /\ identities' = [s \in SteamIds |-> IF identities[s] = u THEN None ELSE identities[s]]

\* deleteAuthUser; its failure is logged.
Cleanup(a) ==
  /\ At(a, "cleanup")
  /\ LET u == attempt[a].user
     IN  \/ Deleted(u) /\ UNCHANGED <<failures, left>>
         \/ Break /\ left' = left \cup {u} /\ UNCHANGED <<users, profiles, identities>>
  /\ Respond(a, "failed")
  /\ UNCHANGED <<email, session, started, via, unsure>>

Crash(a) ==
  /\ attempt[a].pc \notin {"idle", "steam", "done", "failed", "refused"}
  /\ Break
  /\ Goto(a, "failed")
  /\ left' = IF attempt[a].created /\ ~attempt[a].persisted
               THEN left \cup {attempt[a].user} ELSE left
  /\ UNCHANGED <<database, cookie, session, started, via, unsure>>
-----------------------------------------------------------------------------
Logout(b) ==
  /\ session[b] # None
  /\ session' = [session EXCEPT ![b] = None] /\ via' = [via EXCEPT ![b] = None]
  /\ UNCHANGED <<database, cookie, attempt, failures, started, left, unsure>>

Linked(u) == \E s \in SteamIds : identities[s] = u

\* steam-login-recovery.md: users without a profile and without an identity are
\* deleted by hand.
RemoveOrphan(u) ==
  /\ u \in users /\ email[u] # None /\ u \notin profiles /\ ~Linked(u)
  /\ u \in left
  /\ Deleted(u)
  /\ UNCHANGED <<email, cookie, session, attempt, failures, auxiliary>>

Next ==
  \/ \E a \in Attempts :
       \/ \E b \in Browsers, intent \in Intents : Start(a, b, intent)
       \/ \E s \in SteamIds : Callback(a, s)
       \/ ReadFails(a) \/ Find(a) \/ Create(a) \/ Profile(a) \/ Save(a) \/ Update(a)
       \/ Session(a) \/ Cleanup(a) \/ Crash(a)
  \/ \E b \in Browsers : Expire(b) \/ Logout(b)
  \/ \E u \in NewUsers : RemoveOrphan(u)

Spec == Init /\ [][Next]_vars
-----------------------------------------------------------------------------
\* Whoever was signed in with a Steam account is the user that the account names,
\* as long as that user exists, whatever was linked while the account was made.
SteamNamesTheUser ==
  \A b \in Browsers :
    via[b] # None /\ session[b] \in users => identities[via[b]] = session[b]

\* A user who is signed in is not deleted by the clean-up of another sign-in,
\* unless that one was left without the answer that the identity is saved.
SignedInIsKept == \A b \in Browsers : session[b] \in users \cup unsure \cup {None}

\* The user that a sign-in holds until it has an identity.
Holds(a, u) ==
  /\ attempt[a].pc \in {"profile", "save", "session", "cleanup"}
  /\ attempt[a].created /\ attempt[a].user = u

\* A user made for a Steam account has it, or is about to get it, unless the
\* process died, a call was not answered or the clean-up failed.
OrphanHasCause ==
  \A u \in users \cap NewUsers :
    Linked(u) \/ u \in left \/ \E a \in Attempts : Holds(a, u)

\* What the callback does is what its own start was for, whichever start of the
\* same browser wrote the cookie last.
IntentIsKept ==
  \A a \in Attempts : attempt[a].intent # None => attempt[a].intent = started[a]

\* Whatever fails and whoever else signs in or links meanwhile, a Steam account
\* leads to one user, who stays, and no user is left over without a cause.
AccountsHold == SteamNamesTheUser /\ SignedInIsKept /\ OrphanHasCause /\ IntentIsKept

\* docs/operations/steam-login-recovery.md:39: an account that has a profile or a
\* Steam identity is used again by the next sign-in.
ProfileIsReused ==
  \A a \in Attempts :
    At(a, "refused") =>
      \A u \in users : email[u] = attempt[a].steam => u \notin profiles \/ \E o \in Attempts : Holds(o, u)
=============================================================================
