--------------------------- MODULE PlayerBindings ---------------------------
(***************************************************************************)
(* Which account plays which player: the owner of a sync device claims a   *)
(* player of its world, anybody with the device's invitation link chooses  *)
(* one on the page the link opens, and administrators change or delete     *)
(* bindings whose version they have read.  Requests are transactions of    *)
(* several statements; a row lock that a statement waits for is a guard.   *)
(***************************************************************************)
EXTENDS Naturals, FiniteSets

CONSTANTS Users, Owner, Players, Tokens, Tabs, Admins, None,
          TabUser,     \* whose page a tab is
          MaxVersion   \* bound: versions of a binding

ASSUME TabsAssumption == TabUser \in [Tabs -> Users] /\ Owner \in Users

VARIABLES binding,    \* [Users -> player and concurrency_version]
          members,    \* the players in the latest save of the device's world
          revoked,    \* the device of the owner is revoked
          invitation, \* [Tokens -> "new", "found", "cleared", "live", "expired" or "withdrawn"]
          older,      \* the rows that the creation of each link has withdrawn, and keeps locked
          uses,       \* who was bound through each invitation
          tab,        \* a page, and the transaction of its request
          seen        \* what each administrator has read
vars == <<binding, members, revoked, invitation, older, uses, tab, seen>>

Unbound == [player |-> None, version |-> 0]
Closed == [step |-> "closed", token |-> None, player |-> None, shown |-> {}, own |-> Unbound]
NothingSeen == [user |-> None, binding |-> Unbound, free |-> {}, cut |-> FALSE]

Init ==
  /\ binding = [u \in Users |-> Unbound]
  /\ members = Players /\ revoked = FALSE
  /\ invitation = [t \in Tokens |-> "new"] /\ older = [t \in Tokens |-> {}]
  /\ uses = [t \in Tokens |-> {}]
  /\ tab = [w \in Tabs |-> Closed] /\ seen = [a \in Admins |-> NothingSeen]

Free(p) == \A u \in Users : binding[u].player # p

\* A locked row, until the transaction ends: the device's by the creation of a
\* link, an invitation's by who accepts it or withdraws it.
DeviceLocked == \E t \in Tokens : invitation[t] \in {"found", "cleared"}

InvitationLocked(t) ==
  \/ \E w \in Tabs : tab[w].token = t /\ tab[w].step \in {"find", "write"}
  \/ \E u \in Tokens : t \in older[u]

\* ... and on the binding of a user, if there is one.
BindingLocked(u) ==
  \E w \in Tabs : TabUser[w] = u /\ tab[w].step = "write" /\ tab[w].own # Unbound

-----------------------------------------------------------------------------
\* Mutation: the device is read without FOR UPDATE.
FindDeviceUnlocked(t) ==
  /\ invitation[t] = "new" /\ ~revoked
  /\ invitation' = [invitation EXCEPT ![t] = "found"]
  /\ UNCHANGED <<binding, members, revoked, older, uses, tab, seen>>

\* create_player_binding_invitation, whose statements other requests of the
\* owner can come between: the device is read and locked, ...
FindDevice(t) ==
  /\ invitation[t] = "new" /\ ~revoked /\ ~DeviceLocked
  /\ invitation' = [invitation EXCEPT ![t] = "found"]
  /\ UNCHANGED <<binding, members, revoked, older, uses, tab, seen>>

Outstanding == {t \in Tokens : invitation[t] \in {"live", "expired"}}

\* Mutation: rows that somebody holds are not waited for.
WithdrawOlderUnlocked(t) ==
  /\ invitation[t] = "found"
  /\ invitation' = [invitation EXCEPT ![t] = "cleared"]
  /\ older' = [older EXCEPT ![t] = Outstanding]
  /\ UNCHANGED <<binding, members, revoked, uses, tab, seen>>

\* ... every older link of the device is withdrawn, which waits for its row, ...
WithdrawOlder(t) ==
  /\ invitation[t] = "found" /\ \A u \in Outstanding : ~InvitationLocked(u)
  /\ invitation' = [invitation EXCEPT ![t] = "cleared"]
  /\ older' = [older EXCEPT ![t] = Outstanding]
  /\ UNCHANGED <<binding, members, revoked, uses, tab, seen>>

\* ... and the new row is inserted; now others see all of it.
InsertInvitation(t) ==
  /\ invitation[t] = "cleared"
  /\ invitation' = [u \in Tokens |-> IF u = t THEN "live"
                                    ELSE IF u \in older[t] THEN "withdrawn" ELSE invitation[u]]
  /\ older' = [older EXCEPT ![t] = {}]
  /\ UNCHANGED <<binding, members, revoked, uses, tab, seen>>

Expire(t) ==
  /\ invitation[t] = "live" /\ invitation' = [invitation EXCEPT ![t] = "expired"]
  /\ UNCHANGED <<binding, members, revoked, older, uses, tab, seen>>

RevokeDevice ==
  /\ ~revoked /\ ~DeviceLocked /\ revoked' = TRUE
  /\ UNCHANGED <<binding, members, invitation, older, uses, tab, seen>>

PublishSave ==
  /\ ~revoked /\ ~DeviceLocked /\ members' \in SUBSET Players /\ members' # members
  /\ UNCHANGED <<binding, revoked, invitation, older, uses, tab, seen>>

-----------------------------------------------------------------------------
Step(w, step) == tab' = [tab EXCEPT ![w].step = step]

Rest == <<binding, members, revoked, invitation, older, uses, seen>>

\* The page of an invitation: it opens with a preview, or with an error.
OpenLink(w, t) ==
  /\ tab[w].step = "closed" /\ invitation[t] \in {"live", "expired", "withdrawn"}
  /\ tab' = [tab EXCEPT ![w] =
       IF revoked \/ invitation[t] # "live" THEN [Closed EXCEPT !.step = "error", !.token = t]
       ELSE [Closed EXCEPT !.step = "review", !.token = t, !.shown = {p \in members : Free(p)}]]
  /\ UNCHANGED Rest

\* A player is chosen and confirmed.
Accept(w) ==
  /\ tab[w].step = "review"
  /\ \E p \in tab[w].shown : tab' = [tab EXCEPT ![w].step = "check", ![w].player = p]
  /\ UNCHANGED Rest

\* "This is me" on the card of the owner.
Claim(w) ==
  /\ tab[w].step = "closed" /\ TabUser[w] = Owner
  /\ \E p \in Players : tab' = [tab EXCEPT ![w] = [Closed EXCEPT !.step = "check", !.player = p]]
  /\ UNCHANGED Rest

\* accept_player_binding_invitation locks the invitation and looks at the
\* device and the latest save.
CheckInvitation(w) ==
  /\ tab[w].step = "check" /\ tab[w].token # None
  /\ ~InvitationLocked(tab[w].token)
  /\ Step(w, IF invitation[tab[w].token] = "live" /\ ~revoked /\ tab[w].player \in members
             THEN "find" ELSE "refused")
  /\ UNCHANGED Rest

\* claim_synced_player.
CheckClaim(w) ==
  /\ tab[w].step = "check" /\ tab[w].token = None
  /\ Step(w, IF ~revoked /\ tab[w].player \in members THEN "find" ELSE "refused")
  /\ UNCHANGED Rest

\* bind_synced_player: the user's own binding is locked, if there is one, and
\* the player must be free.
FindPlayer(w) ==
  LET u == TabUser[w] p == tab[w].player IN
    /\ tab[w].step = "find" /\ ~BindingLocked(u)
    /\ tab' = [tab EXCEPT
         ![w].step = IF \E v \in Users \ {u} : binding[v].player = p THEN "refused"
                     ELSE IF binding[u].player = p THEN "bound" ELSE "write",
         ![w].own = binding[u]]
    /\ UNCHANGED Rest

\* Mutation: without the unique index of player_bindings.player_id.
WriteBindingTwice(w) ==
  LET u == TabUser[w] p == tab[w].player
      fails == tab[w].own = Unbound /\ binding[u] # Unbound IN
    /\ tab[w].step = "write" /\ binding[u].version < MaxVersion
    /\ Step(w, IF fails THEN "refused" ELSE "bound")
    /\ binding' = IF fails THEN binding
                  ELSE [binding EXCEPT ![u] = [player |-> p, version |-> @.version + 1]]
    /\ uses' = IF fails \/ tab[w].token = None THEN uses ELSE [uses EXCEPT ![tab[w].token] = @ \cup {u}]
    /\ UNCHANGED <<members, revoked, invitation, older, seen>>

\* The unique indexes of both columns have the last word.
WriteBinding(w) ==
  LET u == TabUser[w] p == tab[w].player
      fails == (tab[w].own = Unbound /\ binding[u] # Unbound) \/ ~Free(p) IN
    /\ tab[w].step = "write" /\ binding[u].version < MaxVersion
    /\ Step(w, IF fails THEN "refused" ELSE "bound")
    /\ binding' = IF fails THEN binding
                  ELSE [binding EXCEPT ![u] = [player |-> p, version |-> @.version + 1]]
    /\ uses' = IF fails \/ tab[w].token = None THEN uses ELSE [uses EXCEPT ![tab[w].token] = @ \cup {u}]
    /\ UNCHANGED <<members, revoked, invitation, older, seen>>

\* The reply, or its loss.  An error has no way back but to open the page again.
Reply(w) ==
  /\ \/ tab[w].step = "bound" /\ Step(w, "accepted")
     \/ tab[w].step \in {"bound", "refused"} /\ Step(w, "error")
  /\ UNCHANGED Rest

Close(w) ==
  /\ tab[w].step \in {"accepted", "error", "review"}
  /\ tab' = [tab EXCEPT ![w] = Closed]
  /\ UNCHANGED Rest

-----------------------------------------------------------------------------
\* One load of the page: the bindings, and the players nobody is bound to.
LoadBindings(u) == [user |-> u, binding |-> binding[u], free |-> {p \in Players : Free(p)}, cut |-> FALSE]

AdminReads(a) ==
  /\ \E u \in Users : seen' = [seen EXCEPT ![a] = LoadBindings(u)]
  /\ UNCHANGED <<binding, members, revoked, invitation, older, uses, tab>>

\* The players the forms of the page offer.
CreateChoices(a) == IF seen[a].user # None /\ seen[a].binding = Unbound THEN seen[a].free ELSE {}

UpdateChoices(a) ==
  IF seen[a].binding = Unbound THEN {} ELSE seen[a].free \cup {seen[a].binding.player}

\* The user may have been bound, or the player taken, since the page was loaded.
AdminCreates(a) ==
  /\ \E p \in CreateChoices(a) :
       /\ binding[seen[a].user] = Unbound /\ Free(p)
       /\ binding' = [binding EXCEPT ![seen[a].user] = [player |-> p, version |-> 1]]
  /\ seen' = [seen EXCEPT ![a] = NothingSeen]
  /\ UNCHANGED <<members, revoked, invitation, older, uses, tab>>

\* Mutation: the version is not compared.
FreshAnyway(a) ==
  LET u == seen[a].user IN u # None /\ ~BindingLocked(u) /\ binding[u] # Unbound

\* expected_version, with the row locked.
Fresh(a) ==
  LET u == seen[a].user IN
    u # None /\ ~BindingLocked(u) /\ binding[u] # Unbound
             /\ binding[u].version = seen[a].binding.version

AdminUpdates(a) ==
  /\ Fresh(a)
  /\ LET u == seen[a].user IN
       \E p \in UpdateChoices(a) : Free(p) /\ binding[u].version < MaxVersion
         /\ binding' = [binding EXCEPT ![u] = [player |-> p, version |-> @.version + 1]]
  /\ seen' = [seen EXCEPT ![a] = NothingSeen]
  /\ UNCHANGED <<members, revoked, invitation, older, uses, tab>>

\* The next binding of the user starts with version 1 again.
AdminDeletes(a) ==
  /\ Fresh(a)
  /\ binding' = [binding EXCEPT ![seen[a].user] = Unbound]
  /\ seen' = [b \in Admins |-> IF b = a THEN NothingSeen ELSE
                [seen[b] EXCEPT !.cut = @ \/ seen[b].user = seen[a].user]]
  /\ UNCHANGED <<members, revoked, invitation, older, uses, tab>>

PageStep(w) ==
  \/ \E t \in Tokens : OpenLink(w, t)
  \/ Accept(w) \/ Claim(w) \/ CheckInvitation(w) \/ CheckClaim(w)
  \/ FindPlayer(w) \/ WriteBinding(w) \/ Reply(w) \/ Close(w)

Next ==
  \/ \E t \in Tokens : FindDevice(t) \/ WithdrawOlder(t) \/ InsertInvitation(t) \/ Expire(t)
  \/ RevokeDevice \/ PublishSave
  \/ \E w \in Tabs : PageStep(w)
  \/ \E a \in Admins : AdminReads(a) \/ AdminCreates(a) \/ AdminUpdates(a) \/ AdminDeletes(a)

Spec == Init /\ [][Next]_vars

-----------------------------------------------------------------------------
TypeOK ==
  /\ binding \in [Users -> [player : Players \cup {None}, version : 0..MaxVersion]]
  /\ members \subseteq Players /\ revoked \in BOOLEAN
  /\ invitation \in [Tokens -> {"new", "found", "cleared", "live", "expired", "withdrawn"}]
  /\ older \in [Tokens -> SUBSET Tokens]
  /\ \A u \in Users : binding[u].player = None <=> binding[u].version = 0

\* Two accounts that want one player at the same time, from two pages: one wins.
PlayerHasOneUser ==
  \A u, v \in Users : u # v /\ binding[u].player # None => binding[u].player # binding[v].player

\* One link of the device is good at a time, although the owner may ask for two
\* at once: no creation comes between another's look and its insert.
OneLiveInvitation == Cardinality(Outstanding) <= 1

Binds(w) == tab[w].step = "write" /\ tab'[w].step = "bound"

\* Nobody is bound through a link after a newer one was handed out, although
\* the link was looked at some statements before.
WithdrawnBindsNobody ==
  [][\A w \in Tabs : Binds(w) /\ tab[w].token # None => invitation[tab[w].token] # "withdrawn"]_vars

AdminChanges(a) == seen[a].user # None /\ binding'[seen[a].user] # binding[seen[a].user]
                   /\ tab' = tab

\* An administrator changes a binding only as he has read it, unless it was
\* deleted since.
UncutAdminIsFresh ==
  [][\A a \in Admins : AdminChanges(a) /\ seen'[a] = NothingSeen /\ ~seen[a].cut
       => binding[seen[a].user] = seen[a].binding]_vars

\* What the tests say: stale versions are rejected.  The version of a binding
\* that was deleted and made again may be one that was read before.
AdminIsFresh ==
  [][\A a \in Admins : AdminChanges(a) /\ seen'[a] = NothingSeen
       => binding[seen[a].user] = seen[a].binding]_vars

\* The design: the device is locked and checked again when a link is accepted.
RevokedBindsNobody == [][\A w \in Tabs : Binds(w) /\ tab[w].token # None => ~revoked]_vars

\* The design: a link is no longer valid once it was used.
LinkIsUsedOnce == \A t \in Tokens : Cardinality(uses[t]) <= 1
=============================================================================
