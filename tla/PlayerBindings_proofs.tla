------------------------- MODULE PlayerBindings_proofs -------------------------
(***************************************************************************)
(* For any numbers of users, players, links, pages and administrators: a   *)
(* player has one user, one link of a device is good at a time, a link     *)
(* that was withdrawn binds nobody, and an administrator changes a binding *)
(* as he has read it.  And for any numbers of browsers, starts, accounts   *)
(* and failures: whoever signs in with Steam is the user the account names *)
(* (SteamSignIn).  And the card of the account page tells what the server  *)
(* holds (DeviceCard).                                                     *)
(***************************************************************************)
EXTENDS MCAccounts, FiniteSetTheorems, TLAPS

Bindings == [player : Players \cup {None}, version : Nat]
Steps == {"closed", "review", "check", "find", "write", "bound", "refused", "accepted", "error"}
Pages == [step : Steps, token : Tokens \cup {None}, player : Players \cup {None},
          shown : SUBSET Players, own : Bindings]
Reads == [user : Users \cup {None}, binding : Bindings, free : SUBSET Players, cut : BOOLEAN]

Typing ==
  /\ binding \in [Users -> Bindings]
  /\ members \in SUBSET Players
  /\ tab \in [Tabs -> Pages]
  /\ seen \in [Admins -> Reads]
  /\ invitation \in [Tokens -> {"new", "found", "cleared", "live", "expired", "withdrawn"}]
  /\ older \in [Tokens -> SUBSET Tokens]

\* A page that has looked at its link holds it: it is not withdrawn, and no
\* transaction is about to.
LinkHeld(p) ==
  p.step \in {"find", "write"} /\ p.token # None =>
    /\ invitation[p.token] \in {"live", "expired"}
    /\ \A t \in Tokens : p.token \notin older[t]

\* A version is counted from the first binding on.
BoundOnce == \A u \in Users : binding[u].version = 0 <=> binding[u] = Unbound

\* Unless the binding was deleted since, its version has not gone back.
ReadEarlier(s, u, b) ==
  s.user = u /\ ~s.cut => s.binding.version <= b.version
                          /\ (s.binding.version = b.version => s.binding = b)

Inv ==
  /\ Typing /\ PlayerHasOneUser /\ BoundOnce
  /\ \A w \in Tabs : LinkHeld(tab[w])
  /\ \A a \in Admins, u \in Users : ReadEarlier(seen[a], u, binding[u])

-----------------------------------------------------------------------------
LEMMA UnboundIsTyped == Unbound \in Bindings /\ Unbound.player = None /\ Unbound.version = 0
BY DEF Unbound, Bindings

LEMMA InvHoldsAtFirst ==
  ASSUME Init
  PROVE  Inv
  <1>1. Closed \in Pages /\ Closed.step = "closed"
    BY UnboundIsTyped DEF Closed, Pages, Steps
  <1>2. NothingSeen \in Reads /\ NothingSeen.user = None /\ NothingSeen.binding = Unbound
    BY UnboundIsTyped DEF NothingSeen, Reads
  <1>3. Typing
    BY UnboundIsTyped, <1>1, <1>2 DEF Init, Typing
  <1>4. PlayerHasOneUser
    BY UnboundIsTyped DEF Init, PlayerHasOneUser
  <1>5. \A w \in Tabs : LinkHeld(tab[w])
    BY <1>1 DEF Init, LinkHeld
  <1>6. \A a \in Admins, u \in Users : ReadEarlier(seen[a], u, binding[u])
    BY UnboundIsTyped, <1>2 DEF Init, ReadEarlier, Bindings
  <1>7. BoundOnce
    BY UnboundIsTyped DEF Init, BoundOnce
  <1> QED
    BY <1>3, <1>4, <1>5, <1>6, <1>7 DEF Inv

-----------------------------------------------------------------------------
(* One lemma for each way in which a step changes the state. *)

\* A page moves on, and the links it holds are as they were.
LEMMA PageMoves ==
  ASSUME Inv, NEW w \in Tabs, NEW p \in Pages, LinkHeld(p), tab' = [tab EXCEPT ![w] = p],
         UNCHANGED <<binding, members, invitation, older, seen>>
  PROVE  Inv'
  <1>1. tab' \in [Tabs -> Pages] /\ \A x \in Tabs : tab'[x] = tab[x] \/ tab'[x] = p
    BY DEF Inv, Typing
  <1> QED
    BY <1>1 DEF Inv, Typing, PlayerHasOneUser, BoundOnce, LinkHeld, ReadEarlier

\* A free player is bound to a user.
LEMMA PlayerIsBound ==
  ASSUME Inv, NEW u \in Users, NEW p \in Players \cup {None}, Free(p),
         binding' = [binding EXCEPT ![u] = [player |-> p, version |-> binding[u].version + 1]],
         UNCHANGED <<invitation, older>>
  PROVE  /\ binding' \in [Users -> Bindings]
         /\ PlayerHasOneUser' /\ BoundOnce'
         /\ \A v \in Users, s \in Reads :
              ReadEarlier(s, v, binding[v]) => ReadEarlier(s, v, binding'[v])
  <1> DEFINE b == [player |-> p, version |-> binding[u].version + 1]
  <1>1. binding[u] \in Bindings /\ binding[u].version \in Nat
    BY DEF Inv, Typing, Bindings
  <1>2. b \in Bindings /\ b.player = p /\ b.version = binding[u].version + 1
    BY <1>1 DEF Bindings
  <1>3. binding' = [binding EXCEPT ![u] = b]
    OBVIOUS
  <1> HIDE DEF b
  <1>4. /\ binding' \in [Users -> Bindings]
        /\ binding'[u] = b /\ \A v \in Users \ {u} : binding'[v] = binding[v]
    BY <1>2, <1>3 DEF Inv, Typing
  <1>5. PlayerHasOneUser'
    BY <1>2, <1>4 DEF Inv, PlayerHasOneUser, Free
  <1>6. ASSUME NEW v \in Users, NEW s \in Reads, ReadEarlier(s, v, binding[v])
        PROVE  ReadEarlier(s, v, binding'[v])
    <2>1. s.binding.version \in Nat
      BY DEF Reads, Bindings
    <2> QED
      BY <1>1, <1>2, <1>4, <1>6, <2>1 DEF ReadEarlier
  <1>7. BoundOnce'
    BY <1>1, <1>2, <1>4, UnboundIsTyped DEF Inv, BoundOnce
  <1> QED
    BY <1>4, <1>5, <1>6, <1>7

-----------------------------------------------------------------------------
\* A link that a page holds stays out of the hands of the others.
LEMMA LinksAreKept ==
  ASSUME Inv, NEW t \in Tokens,
         FindDevice(t) \/ WithdrawOlder(t) \/ InsertInvitation(t) \/ Expire(t),
         NEW w \in Tabs, tab[w].step \in {"find", "write"}, tab[w].token # None
  PROVE  /\ invitation'[tab[w].token] \in {"live", "expired"}
         /\ \A u \in Tokens : tab[w].token \notin older'[u]
  <1>1. /\ tab[w].token \in Tokens /\ invitation[tab[w].token] \in {"live", "expired"}
        /\ \A u \in Tokens : tab[w].token \notin older[u]
    BY DEF Inv, Typing, Pages, LinkHeld
  <1>2. CASE FindDevice(t) \/ Expire(t)
    BY <1>1, <1>2 DEF FindDevice, Expire, Inv, Typing
  <1>3. CASE WithdrawOlder(t)
    <2>1. InvitationLocked(tab[w].token)
      BY DEF InvitationLocked
    <2>2. tab[w].token \in Outstanding
      BY <1>1 DEF Outstanding
    <2> QED
      BY <1>3, <2>1, <2>2 DEF WithdrawOlder
  <1>4. CASE InsertInvitation(t)
    BY <1>1, <1>4 DEF InsertInvitation, Inv, Typing
  <1> QED
    BY <1>2, <1>3, <1>4

LEMMA LinksKeepInv ==
  ASSUME Inv, NEW t \in Tokens,
         FindDevice(t) \/ WithdrawOlder(t) \/ InsertInvitation(t) \/ Expire(t)
  PROVE  Inv'
  <1>1. invitation' \in [Tokens -> {"new", "found", "cleared", "live", "expired", "withdrawn"}]
    BY DEF Inv, Typing, FindDevice, WithdrawOlder, InsertInvitation, Expire
  <1>2. older' \in [Tokens -> SUBSET Tokens]
    BY DEF Inv, Typing, FindDevice, WithdrawOlder, InsertInvitation, Expire, Outstanding
  <1>3. UNCHANGED <<binding, members, tab, seen>>
    BY DEF FindDevice, WithdrawOlder, InsertInvitation, Expire
  <1>4. (\A w \in Tabs : LinkHeld(tab[w]))'
    BY <1>3, LinksAreKept DEF LinkHeld
  <1> QED
    BY <1>1, <1>2, <1>3, <1>4 DEF Inv, Typing, PlayerHasOneUser, BoundOnce, ReadEarlier

LEMMA WorldKeepsInv ==
  ASSUME Inv, RevokeDevice \/ PublishSave
  PROVE  Inv'
BY DEF RevokeDevice, PublishSave, Inv, Typing, PlayerHasOneUser, BoundOnce, LinkHeld, ReadEarlier

\* A page's step that changes nothing but the page.
LEMMA StepIsTyped ==
  ASSUME Inv, NEW w \in Tabs, NEW step \in Steps, Step(w, step)
  PROVE  \E p \in Pages : /\ p.step = step /\ p.token = tab[w].token
                          /\ tab' = [tab EXCEPT ![w] = p]
  <1> DEFINE p == [tab[w] EXCEPT !.step = step]
  <1>1. tab[w] \in Pages
    BY DEF Inv, Typing
  <1>2. p \in Pages /\ p.step = step /\ p.token = tab[w].token
    BY <1>1 DEF Pages
  <1>3. tab' = [tab EXCEPT ![w] = p]
    BY DEF Step
  <1> QED
    BY <1>2, <1>3

LEMMA OpeningKeepsInv ==
  ASSUME Inv, NEW w \in Tabs,
         (\E t \in Tokens : OpenLink(w, t)) \/ Claim(w) \/ Close(w)
  PROVE  Inv'
  <1>1. CASE \E t \in Tokens : OpenLink(w, t)
    <2>1. PICK t \in Tokens : OpenLink(w, t)
      BY <1>1
    <2> DEFINE p == IF revoked \/ invitation[t] # "live" THEN [Closed EXCEPT !.step = "error", !.token = t]
                    ELSE [Closed EXCEPT !.step = "review", !.token = t, !.shown = {q \in members : Free(q)}]
    <2>2. p \in Pages /\ p.step \notin {"find", "write"}
      BY UnboundIsTyped DEF Closed, Pages, Steps, Inv, Typing
    <2>3. tab' = [tab EXCEPT ![w] = p] /\ UNCHANGED Rest
      BY <2>1 DEF OpenLink
    <2> HIDE DEF p
    <2> QED
      BY <2>2, <2>3, PageMoves DEF LinkHeld, Rest
  <1>2. CASE Claim(w)
    <2>1. PICK q \in Players : tab' = [tab EXCEPT ![w] = [Closed EXCEPT !.step = "check", !.player = q]]
      BY <1>2 DEF Claim
    <2> DEFINE p == [Closed EXCEPT !.step = "check", !.player = q]
    <2>2. p \in Pages /\ p.step = "check"
      BY UnboundIsTyped DEF Closed, Pages, Steps
    <2> HIDE DEF p
    <2>3. tab' = [tab EXCEPT ![w] = p]
      BY <2>1 DEF p
    <2> QED
      BY <1>2, <2>2, <2>3, PageMoves DEF Claim, LinkHeld, Rest
  <1>3. CASE Close(w)
    <2>1. Closed \in Pages /\ Closed.step = "closed"
      BY UnboundIsTyped DEF Closed, Pages, Steps
    <2> QED
      BY <1>3, <2>1, PageMoves DEF Close, LinkHeld, Rest
  <1> QED
    BY <1>1, <1>2, <1>3

LEMMA CheckingKeepsInv ==
  ASSUME Inv, NEW w \in Tabs,
         Accept(w) \/ CheckInvitation(w) \/ CheckClaim(w) \/ FindPlayer(w) \/ Reply(w)
  PROVE  Inv'
  <1>0. tab[w] \in Pages
    BY DEF Inv, Typing
  <1>1. CASE Accept(w)
    <2>1. PICK q \in tab[w].shown : tab' = [tab EXCEPT ![w].step = "check", ![w].player = q]
      BY <1>1 DEF Accept
    <2> DEFINE p == [tab[w] EXCEPT !.step = "check", !.player = q]
    <2>2. p \in Pages /\ p.step = "check"
      BY <1>0 DEF Pages, Steps
    <2>3. tab' = [tab EXCEPT ![w] = p]
      BY <2>1 DEF Inv, Typing
    <2> HIDE DEF p
    <2> QED
      BY <1>1, <2>2, <2>3, PageMoves DEF Accept, LinkHeld, Rest
  <1>2. CASE CheckInvitation(w)
    <2>1. PICK step \in {"find", "refused"} :
            /\ Step(w, step)
            /\ step = "find" => invitation[tab[w].token] = "live"
      BY <1>2 DEF CheckInvitation
    <2>3. \A t \in Tokens : tab[w].token \notin older[t]
      BY <1>2 DEF CheckInvitation, InvitationLocked
    <2>2. PICK p \in Pages : p.step = step /\ p.token = tab[w].token /\ tab' = [tab EXCEPT ![w] = p]
      BY <2>1, StepIsTyped DEF Steps
    <2> QED
      BY <1>2, <2>1, <2>2, <2>3, PageMoves DEF CheckInvitation, LinkHeld, Rest
  <1>3. CASE CheckClaim(w)
    <2>1. PICK step \in {"find", "refused"} : Step(w, step)
      BY <1>3 DEF CheckClaim
    <2>2. PICK p \in Pages : p.step = step /\ p.token = tab[w].token /\ tab' = [tab EXCEPT ![w] = p]
      BY <2>1, StepIsTyped DEF Steps
    <2> QED
      BY <1>3, <2>1, <2>2, PageMoves DEF CheckClaim, LinkHeld, Rest
  <1>4. CASE FindPlayer(w)
    <2>1. PICK step \in {"refused", "bound", "write"} :
            tab' = [tab EXCEPT ![w].step = step, ![w].own = binding[TabUser[w]]]
      BY <1>4 DEF FindPlayer
    <2> DEFINE p == [tab[w] EXCEPT !.step = step, !.own = binding[TabUser[w]]]
    <2>2. binding[TabUser[w]] \in Bindings
      BY TabsAssumption DEF Inv, Typing
    <2>3. p \in Pages /\ p.step = step /\ p.token = tab[w].token
      BY <1>0, <2>2 DEF Pages, Steps
    <2>4. tab' = [tab EXCEPT ![w] = p]
      BY <2>1 DEF Inv, Typing
    <2> HIDE DEF p
    <2>5. LinkHeld(p)
      BY <1>4, <2>3 DEF FindPlayer, LinkHeld, Inv
    <2> QED
      BY <1>4, <2>3, <2>4, <2>5, PageMoves DEF FindPlayer, Rest
  <1>5. CASE Reply(w)
    <2>1. PICK step \in {"accepted", "error"} : Step(w, step)
      BY <1>5 DEF Reply
    <2>2. PICK p \in Pages : p.step = step /\ p.token = tab[w].token /\ tab' = [tab EXCEPT ![w] = p]
      BY <2>1, StepIsTyped DEF Steps
    <2> QED
      BY <1>5, <2>1, <2>2, PageMoves DEF Reply, LinkHeld, Rest
  <1> QED
    BY <1>1, <1>2, <1>3, <1>4, <1>5

LEMMA WritingKeepsInv ==
  ASSUME Inv, NEW w \in Tabs, WriteBinding(w)
  PROVE  Inv'
  <1> DEFINE u == TabUser[w]
             q == tab[w].player
  <1>0. u \in Users /\ q \in Players \cup {None}
    BY TabsAssumption DEF Inv, Typing, Pages
  <1>1. PICK step \in {"refused", "bound"} : Step(w, step)
    BY DEF WriteBinding
  <1>2. PICK p \in Pages : p.step = step /\ p.token = tab[w].token /\ tab' = [tab EXCEPT ![w] = p]
    BY <1>1, StepIsTyped DEF Steps
  <1>3. tab' \in [Tabs -> Pages] /\ \A x \in Tabs : LinkHeld(tab[x])'
    <2>1. tab' \in [Tabs -> Pages] /\ \A x \in Tabs : tab'[x] = tab[x] \/ tab'[x] = p
      BY <1>2 DEF Inv, Typing
    <2> QED
      BY <1>1, <1>2, <2>1 DEF Inv, LinkHeld, WriteBinding
  <1>4. UNCHANGED <<members, invitation, older, seen>>
    BY DEF WriteBinding
  <1>5. CASE binding' = binding
    BY <1>3, <1>4, <1>5 DEF Inv, Typing, PlayerHasOneUser, BoundOnce, ReadEarlier
  <1>6. CASE binding' # binding
    <2>1. Free(q) /\ binding' = [binding EXCEPT ![u] = [player |-> q, version |-> binding[u].version + 1]]
      BY <1>6 DEF WriteBinding
    <2>2. /\ binding' \in [Users -> Bindings] /\ PlayerHasOneUser' /\ BoundOnce'
          /\ \A v \in Users, s \in Reads : ReadEarlier(s, v, binding[v]) => ReadEarlier(s, v, binding'[v])
      BY <1>0, <1>4, <2>1, PlayerIsBound
    <2>3. \A a \in Admins, v \in Users : ReadEarlier(seen[a], v, binding'[v])
      BY <2>2 DEF Inv, Typing
    <2> QED
      BY <1>3, <1>4, <2>2, <2>3 DEF Inv, Typing
  <1> QED
    BY <1>5, <1>6

-----------------------------------------------------------------------------
LEMMA NothingIsRead ==
  /\ NothingSeen \in Reads /\ NothingSeen.user = None
  /\ NothingSeen.binding = Unbound /\ NothingSeen.cut = FALSE
BY UnboundIsTyped DEF NothingSeen, Reads

\* Having read nothing agrees with every binding.
LEMMA NothingIsEarlier ==
  ASSUME NEW u \in Users, NEW b \in Bindings, b.version = 0 => b = Unbound
  PROVE  ReadEarlier(NothingSeen, u, b)
  <1>1. b.version \in Nat
    BY DEF Bindings
  <1> QED
    BY <1>1, NothingIsRead, UnboundIsTyped DEF ReadEarlier

LEMMA ReadingKeepsInv ==
  ASSUME Inv, NEW a \in Admins, AdminReads(a)
  PROVE  Inv'
  <1>1. PICK u \in Users : seen' = [seen EXCEPT ![a] = LoadBindings(u)]
    BY DEF AdminReads
  <1> DEFINE r == LoadBindings(u)
  <1>2. binding[u] \in Bindings /\ binding[u].version \in Nat
    BY DEF Inv, Typing, Bindings
  <1>3. r \in Reads /\ r.user = u /\ r.binding = binding[u]
    BY <1>2 DEF LoadBindings, Reads
  <1>4. \A v \in Users : ReadEarlier(r, v, binding[v])
    BY <1>2, <1>3 DEF ReadEarlier
  <1> HIDE DEF r
  <1>5. seen' \in [Admins -> Reads] /\ \A c \in Admins : seen'[c] = seen[c] \/ seen'[c] = r
    BY <1>1, <1>3 DEF Inv, Typing, r
  <1>6. UNCHANGED <<binding, members, invitation, older, tab>>
    BY DEF AdminReads
  <1>7. \A c \in Admins, v \in Users : ReadEarlier(seen'[c], v, binding[v])
    BY <1>4, <1>5 DEF Inv
  <1>8. (\A c \in Admins, v \in Users : ReadEarlier(seen[c], v, binding[v]))'
    BY <1>6, <1>7 DEF ReadEarlier
  <1> QED
    BY <1>5, <1>6, <1>8 DEF Inv, Typing, PlayerHasOneUser, BoundOnce, LinkHeld

LEMMA BindingByAdminKeepsInv ==
  ASSUME Inv, NEW a \in Admins, AdminCreates(a) \/ AdminUpdates(a)
  PROVE  Inv'
  <1>1. UNCHANGED <<members, invitation, older, tab>> /\ seen' = [seen EXCEPT ![a] = NothingSeen]
    BY DEF AdminCreates, AdminUpdates
  <1>2. seen[a] \in Reads /\ seen[a].user # None
    BY DEF Inv, Typing, AdminCreates, AdminUpdates, CreateChoices, Fresh
  <1>3. PICK u \in Users : u = seen[a].user
    BY <1>2 DEF Reads
  <1>4. PICK p \in Players \cup {None} :
          Free(p) /\ binding' = [binding EXCEPT ![u] = [player |-> p, version |-> binding[u].version + 1]]
    <2>1. CASE AdminCreates(a)
      <3>1. PICK p \in CreateChoices(a) :
              /\ binding[u] = Unbound /\ Free(p)
              /\ binding' = [binding EXCEPT ![u] = [player |-> p, version |-> 1]]
        BY <1>3, <2>1 DEF AdminCreates
      <3>2. p \in Players \cup {None}
        BY <1>2 DEF CreateChoices, Reads
      <3>3. binding[u].version + 1 = 1
        BY <3>1, UnboundIsTyped
      <3> QED
        BY <3>1, <3>2, <3>3
    <2>2. CASE AdminUpdates(a)
      <3>1. PICK p \in UpdateChoices(a) :
              Free(p) /\ binding' = [binding EXCEPT ![u] = [player |-> p, version |-> @.version + 1]]
        BY <1>3, <2>2 DEF AdminUpdates
      <3>2. p \in Players \cup {None}
        BY <1>2 DEF UpdateChoices, Reads, Bindings
      <3>3. binding' = [binding EXCEPT ![u] = [player |-> p, version |-> binding[u].version + 1]]
        BY <3>1 DEF Inv, Typing
      <3> QED
        BY <3>1, <3>2, <3>3
    <2> QED
      BY <2>1, <2>2
  <1>5. /\ binding' \in [Users -> Bindings] /\ PlayerHasOneUser' /\ BoundOnce'
        /\ \A v \in Users, s \in Reads : ReadEarlier(s, v, binding[v]) => ReadEarlier(s, v, binding'[v])
    BY <1>1, <1>4, PlayerIsBound
  <1>6. seen' \in [Admins -> Reads] /\ \A c \in Admins : seen'[c] = seen[c] \/ seen'[c] = NothingSeen
    BY <1>1, NothingIsRead DEF Inv, Typing
  <1>7. \A c \in Admins, v \in Users : ReadEarlier(seen'[c], v, binding'[v])
    <2>1. \A v \in Users : ReadEarlier(NothingSeen, v, binding'[v])
      BY <1>5, NothingIsEarlier DEF BoundOnce
    <2> QED
      BY <1>5, <1>6, <2>1 DEF Inv, Typing
  <1>8. (\A w \in Tabs : LinkHeld(tab[w]))'
    BY <1>1 DEF Inv, LinkHeld
  <1> QED
    BY <1>1, <1>5, <1>6, <1>7, <1>8 DEF Inv, Typing

LEMMA DeletingKeepsInv ==
  ASSUME Inv, NEW a \in Admins, AdminDeletes(a)
  PROVE  Inv'
  <1>1. UNCHANGED <<members, invitation, older, tab>>
    BY DEF AdminDeletes
  <1>2. PICK u \in Users : u = seen[a].user
    BY DEF AdminDeletes, Fresh, Inv, Typing, Reads
  <1>3. /\ binding' \in [Users -> Bindings]
        /\ binding'[u] = Unbound /\ \A v \in Users \ {u} : binding'[v] = binding[v]
    BY <1>2, UnboundIsTyped DEF AdminDeletes, Inv, Typing
  <1>4. PlayerHasOneUser' /\ BoundOnce'
    BY <1>3, UnboundIsTyped DEF Inv, PlayerHasOneUser, BoundOnce
  <1>5. \A c \in Admins : \/ seen'[c] = NothingSeen
                           \/ seen'[c] = [seen[c] EXCEPT !.cut = @ \/ seen[c].user = u]
    BY <1>2 DEF AdminDeletes
  <1>6. \A c \in Admins : \/ seen'[c] = NothingSeen
                           \/ /\ seen'[c] \in Reads /\ seen'[c].user = seen[c].user
                              /\ seen'[c].binding = seen[c].binding
                              /\ ~seen'[c].cut => ~seen[c].cut /\ seen[c].user # u
    <2>1. TAKE c \in Admins
    <2>2. seen[c] \in Reads
      BY DEF Inv, Typing
    <2> DEFINE now == seen[c].cut \/ seen[c].user = u
               r == [seen[c] EXCEPT !.cut = now]
    <2>3. now \in BOOLEAN /\ (~now => ~seen[c].cut /\ seen[c].user # u)
      OBVIOUS
    <2>4. seen'[c] = NothingSeen \/ seen'[c] = r
      BY <1>5
    <2> HIDE DEF now
    <2>5. r \in Reads /\ r.user = seen[c].user /\ r.binding = seen[c].binding /\ r.cut = now
      BY <2>2, <2>3 DEF Reads
    <2> HIDE DEF r
    <2> QED
      BY <2>3, <2>4, <2>5
  <1>7. seen' \in [Admins -> Reads]
    BY <1>6, NothingIsRead DEF AdminDeletes
  <1>8. \A c \in Admins, v \in Users : ReadEarlier(seen'[c], v, binding'[v])
    <2>1. TAKE c \in Admins, v \in Users
    <2>2. CASE seen'[c] = NothingSeen
      BY <1>3, <1>4, <2>2, NothingIsEarlier DEF BoundOnce
    <2>3. CASE seen'[c] # NothingSeen
      BY <1>3, <1>6, <2>3 DEF Inv, ReadEarlier
    <2> QED
      BY <2>2, <2>3
  <1>9. (\A w \in Tabs : LinkHeld(tab[w]))'
    BY <1>1 DEF Inv, LinkHeld
  <1> QED
    BY <1>1, <1>3, <1>4, <1>7, <1>8, <1>9 DEF Inv, Typing

LEMMA StepsKeepInv ==
  ASSUME Inv, [Next]_vars
  PROVE  Inv'
  <1>1. CASE UNCHANGED vars
    BY <1>1 DEF vars, Inv, Typing, PlayerHasOneUser, BoundOnce, LinkHeld, ReadEarlier
  <1>2. CASE \E t \in Tokens :
              FindDevice(t) \/ WithdrawOlder(t) \/ InsertInvitation(t) \/ Expire(t)
    BY <1>2, LinksKeepInv
  <1>3. CASE RevokeDevice \/ PublishSave
    BY <1>3, WorldKeepsInv
  <1>4. CASE \E w \in Tabs : PageStep(w)
    BY <1>4, OpeningKeepsInv, CheckingKeepsInv, WritingKeepsInv DEF PageStep
  <1>5. CASE \E a \in Admins : AdminReads(a) \/ AdminCreates(a) \/ AdminUpdates(a) \/ AdminDeletes(a)
    BY <1>5, ReadingKeepsInv, BindingByAdminKeepsInv, DeletingKeepsInv
  <1> QED
    BY <1>1, <1>2, <1>3, <1>4, <1>5 DEF Next

LEMMA InvAlways == Spec => []Inv
  <1>1. Init => Inv
    BY InvHoldsAtFirst
  <1>2. Inv /\ [Next]_vars => Inv'
    BY StepsKeepInv
  <1> QED
    BY <1>1, <1>2, PTL DEF Spec

-----------------------------------------------------------------------------
\* bind_synced_player and the forms of the administrators: whatever requests
\* are under way at the same time, a player has one user.
THEOREM PlayersHaveOneUser == Spec => []PlayerHasOneUser
  <1>1. Inv => PlayerHasOneUser
    BY DEF Inv
  <1> QED
    BY <1>1, InvAlways, PTL

\* accept_player_binding_invitation keeps its lock on the link to the end of
\* its transaction: a link is not withdrawn between the check and the binding.
THEOREM WithdrawnLinksBindNobody == Spec => WithdrawnBindsNobody
  <1> DEFINE Holds == \A w \in Tabs : Binds(w) /\ tab[w].token # None => invitation[tab[w].token] # "withdrawn"
  <1>1. Inv => Holds
    BY DEF Inv, LinkHeld, Binds
  <1>2. Inv /\ [Next]_vars => [Holds]_vars
    BY <1>1
  <1> HIDE DEF Holds
  <1>3. Spec => [][Holds]_vars
    BY <1>2, InvAlways, PTL DEF Spec
  <1> QED
    BY <1>3 DEF WithdrawnBindsNobody, Holds

\* expected_version of the administrators' forms: as long as the binding they
\* have read was not deleted, they change it as they have read it.
THEOREM AdministratorsAreFresh == Spec => UncutAdminIsFresh
  <1> DEFINE Holds == \A a \in Admins : AdminChanges(a) /\ seen'[a] = NothingSeen /\ ~seen[a].cut
                       => binding[seen[a].user] = seen[a].binding
  <1>1. Inv /\ [Next]_vars => [Holds]_vars
    <2> SUFFICES ASSUME Inv, Next, NEW a \in Admins,
                        AdminChanges(a), seen'[a] = NothingSeen, ~seen[a].cut
                 PROVE  binding[seen[a].user] = seen[a].binding
      OBVIOUS
    <2>1. PICK u \in Users : u = seen[a].user
      BY DEF AdminChanges, Inv, Typing, Reads
    <2>2. seen[a] # NothingSeen
      BY NothingIsRead DEF AdminChanges
    <2>3. seen' # seen
      BY <2>2
    <2>4. PICK c \in Admins : AdminReads(c) \/ AdminCreates(c) \/ AdminUpdates(c) \/ AdminDeletes(c)
      BY <2>3 DEF Next, PageStep, FindDevice, WithdrawOlder, InsertInvitation, Expire,
                  RevokeDevice, PublishSave, OpenLink, Accept, Claim, CheckInvitation, CheckClaim, FindPlayer, WriteBinding, Reply, Close, Rest
    <2>5. c = a
      <3>1. SUFFICES ASSUME c # a PROVE FALSE
        OBVIOUS
      <3>2. CASE AdminDeletes(c)
        <4>1. seen'[a] = [seen[a] EXCEPT !.cut = @ \/ seen[a].user = seen[c].user]
          BY <3>1, <3>2 DEF AdminDeletes
        <4>2. seen'[a].user = seen[a].user
          BY <4>1 DEF Inv, Typing, Reads
        <4> QED
          BY <4>2, NothingIsRead DEF AdminChanges
      <3>3. CASE ~AdminDeletes(c)
        <4>1. seen'[a] = seen[a]
          BY <2>4, <3>1, <3>3 DEF AdminReads, AdminCreates, AdminUpdates, Inv, Typing
        <4> QED
          BY <2>2, <4>1
      <3> QED
        BY <3>2, <3>3
    <2> QED
      BY <2>1, <2>4, <2>5 DEF AdminChanges, AdminReads, AdminCreates, CreateChoices, AdminUpdates,
           AdminDeletes, Fresh, Inv, ReadEarlier
  <1> HIDE DEF Holds
  <1>2. Spec => [][Holds]_vars
    BY <1>1, InvAlways, PTL DEF Spec
  <1> QED
    BY <1>2 DEF UncutAdminIsFresh, Holds

-----------------------------------------------------------------------------
(* The links of the device. *)

OneIsGood == \A s, t \in Outstanding : s = t

\* Who has the device is alone, and what is good is what it has withdrawn.
OneCreator ==
  /\ \A s, t \in Tokens :
       invitation[s] \in {"found", "cleared"} /\ invitation[t] \in {"found", "cleared"} => s = t
  /\ \A t \in Tokens : invitation[t] = "cleared" => Outstanding \subseteq older[t]

LEMMA LinksStayOne ==
  ASSUME Inv, OneIsGood, OneCreator, [Next]_vars
  PROVE  OneIsGood' /\ OneCreator'
  <1>1. /\ invitation \in [Tokens -> {"new", "found", "cleared", "live", "expired", "withdrawn"}]
        /\ older \in [Tokens -> SUBSET Tokens]
    BY DEF Inv, Typing
  <1>2. CASE UNCHANGED <<invitation, older>>
    BY <1>2 DEF OneIsGood, OneCreator, Outstanding
  <1>3. ASSUME NEW t \in Tokens, FindDevice(t)
        PROVE  OneIsGood' /\ OneCreator'
    <2>1. Outstanding' = Outstanding /\ UNCHANGED older
      BY <1>1, <1>3 DEF FindDevice, Outstanding
    <2> QED
      BY <1>1, <1>3, <2>1 DEF FindDevice, DeviceLocked, OneIsGood, OneCreator
  <1>4. ASSUME NEW t \in Tokens, WithdrawOlder(t)
        PROVE  OneIsGood' /\ OneCreator'
    <2>1. Outstanding' = Outstanding
      BY <1>1, <1>4 DEF WithdrawOlder, Outstanding
    <2> QED
      BY <1>1, <1>4, <2>1 DEF WithdrawOlder, OneIsGood, OneCreator
  <1>5. ASSUME NEW t \in Tokens, InsertInvitation(t)
        PROVE  OneIsGood' /\ OneCreator'
    <2>1. Outstanding' = {t}
      BY <1>1, <1>5 DEF InsertInvitation, OneCreator, Outstanding
    <2>2. \A s \in Tokens : invitation'[s] \in {"found", "cleared"}
                            => s # t /\ invitation[s] \in {"found", "cleared"}
      BY <1>1, <1>5 DEF InsertInvitation
    <2>3. \A s \in Tokens : invitation'[s] \notin {"found", "cleared"}
      BY <1>5, <2>2 DEF InsertInvitation, OneCreator
    <2> QED
      BY <2>1, <2>3 DEF OneIsGood, OneCreator
  <1>6. ASSUME NEW t \in Tokens, Expire(t)
        PROVE  OneIsGood' /\ OneCreator'
    <2>1. Outstanding' = Outstanding /\ UNCHANGED older
      BY <1>1, <1>6 DEF Expire, Outstanding
    <2> QED
      BY <1>1, <1>6, <2>1 DEF Expire, OneIsGood, OneCreator
  <1> QED
    BY <1>2, <1>3, <1>4, <1>5, <1>6 DEF Next, PageStep, RevokeDevice, PublishSave, OpenLink, Accept,
       Claim, CheckInvitation, CheckClaim, FindPlayer, WriteBinding, Reply, Close, Rest, AdminReads,
       AdminCreates, AdminUpdates, AdminDeletes, vars

\* create_player_binding_invitation locks the device before it withdraws the older
\* links: whatever other creations are under way, at most one link can be used.
THEOREM OneLinkIsGood == Spec => []OneLiveInvitation
  <1>1. Init => OneIsGood /\ OneCreator
    BY DEF Init, OneIsGood, OneCreator, Outstanding
  <1>2. Inv /\ OneIsGood /\ OneCreator /\ [Next]_vars => OneIsGood' /\ OneCreator'
    BY LinksStayOne
  <1>3. OneIsGood => OneLiveInvitation
    <2> DEFINE good == Outstanding
    <2> SUFFICES ASSUME OneIsGood
                 PROVE  Cardinality(good) <= 1
      BY DEF OneLiveInvitation
    <2>1. CASE good = {}
      BY <2>1, FS_EmptySet
    <2>2. ASSUME NEW t \in good
          PROVE  Cardinality(good) <= 1
      <3>1. good = {t}
        BY DEF OneIsGood
      <3>2. Cardinality({t}) = 1
        BY FS_Singleton
      <3> HIDE DEF good
      <3> QED
        BY <3>1, <3>2
    <2> QED
      BY <2>1, <2>2
  <1> QED
    BY <1>1, <1>2, <1>3, InvAlways, PTL DEF Spec

-----------------------------------------------------------------------------
(* Signing in with Steam: what every step keeps, and who is whose. *)

SteamAssumed == Steam!UsersAssumption /\ Steam!SteamAssumption

Pcs == {"idle", "steam", "find", "create", "profile", "save", "update", "session", "cleanup",
        "done", "failed", "refused"}
AttemptRows == [pc : Pcs, browser : Browsers \cup {None}, intent : Steam!Intents \cup {None},
                steam : SteamIds \cup {None}, user : Steam!UserIds \cup {None},
                created : BOOLEAN, persisted : BOOLEAN]
Cookies == [state : Attempts, intent : Steam!Intents]

AccountTypeOK ==
  /\ users \subseteq Steam!UserIds
  /\ email \in [Steam!UserIds -> SteamIds \cup {None}]
  /\ identities \in [SteamIds -> Steam!UserIds \cup {None}]
  /\ cookie \in [Browsers -> Cookies \cup {None}]
  /\ session \in [Browsers -> Steam!UserIds \cup {None}]
  /\ via \in [Browsers -> SteamIds \cup {None}]
  /\ attempt \in [Attempts -> AttemptRows]
  /\ started \in [Attempts -> Steam!Intents \cup {None}]

\* The cookie of a browser has the intent of the start that wrote it.
CookieTrue(b) ==
  cookie[b] # None => /\ cookie[b].intent = started[cookie[b].state]
                      /\ attempt[cookie[b].state].pc # "idle"

\* A user who is there, or was signed in, or is known to an attempt, was drawn:
\* nobody else is ever made with the same id.
Drawn(u) == u \in NewUsers => email[u] # None

BeforeAccount == {"idle", "steam", "find", "create"}
BeforeIdentity == {"profile", "save", "cleanup"}

\* What an attempt knows, by where it is.
AttemptTrue(a) ==
  LET row == attempt[a] IN
  /\ Drawn(row.user)
  /\ row.pc \in {"idle", "steam"} => row.user = None
  /\ row.pc \in BeforeAccount => ~row.created /\ ~row.persisted
  /\ row.pc = "idle" => row.intent = None
  /\ row.pc \in {"find", "create", "profile", "save", "update", "session"} => row.steam \in SteamIds
  /\ row.pc \notin {"idle", "failed", "done", "refused"} => row.browser \in Browsers
  /\ row.pc = "create" => row.intent = "login"
  /\ row.pc \in {"profile", "cleanup"} => row.created
  /\ row.pc = "save" => row.created \/ row.intent = "link"
  /\ row.pc \in BeforeIdentity => ~row.persisted
  /\ row.pc = "session" => row.persisted
  /\ row.created => row.user \in NewUsers
  /\ row.pc = "session" \/ (row.pc = "update" /\ row.intent = "login") =>
       (row.user \in users => identities[row.steam] = row.user)
  \* A user whose sign-in is to be linked has signed in with Steam before, unless
  \* it is the password user.
  /\ row.intent = "link" /\ row.user \in users \cap NewUsers => Steam!Linked(row.user)
  \* Until its identity is saved, the user is nobody's but this attempt's.
  /\ row.pc \in BeforeIdentity /\ row.created /\ Steam!Linked(row.user) => row.user \in unsure

OneMaker ==
  \A a, c \in Attempts :
    attempt[a].created /\ attempt[c].created /\ attempt[a].user = attempt[c].user => a = c

UsersTrue ==
  /\ \A u \in users : Drawn(u)
  /\ \A s \in SteamIds : identities[s] # None => identities[s] \in users

SessionTrue(b) == Drawn(session[b]) /\ (session[b] \in NewUsers => via[b] \in SteamIds)

SteamInv ==
  /\ AccountTypeOK /\ UsersTrue /\ OneMaker
  /\ \A b \in Browsers : CookieTrue(b) /\ SessionTrue(b)
  /\ \A a \in Attempts : AttemptTrue(a)
  /\ Steam!AccountsHold

-----------------------------------------------------------------------------
LEMMA SteamInvHoldsAtFirst ==
  ASSUME SteamAssumed, Steam!Init
  PROVE  SteamInv
  <1>1. AccountTypeOK
    BY DEF Steam!Init, AccountTypeOK, Steam!UserIds, AttemptRows, Pcs, Steam!Idle
  <1>2. \A a \in Attempts : AttemptTrue(a)
    BY DEF Steam!Init, Steam!Idle, AttemptTrue, Drawn, Steam!Linked, BeforeAccount,
         BeforeIdentity, SteamAssumed, Steam!UsersAssumption, Steam!SteamAssumption, Steam!UserIds
  <1>3. UsersTrue /\ OneMaker
    BY DEF Steam!Init, Steam!Idle, UsersTrue, Drawn, OneMaker, SteamAssumed, Steam!UsersAssumption
  <1>4. \A b \in Browsers : CookieTrue(b) /\ SessionTrue(b)
    BY DEF Steam!Init, CookieTrue, SessionTrue, Drawn, SteamAssumed, Steam!UsersAssumption
  <1>5. Steam!AccountsHold
    BY DEF Steam!Init, Steam!Idle, Steam!AccountsHold, Steam!SteamNamesTheUser,
         Steam!SignedInIsKept, Steam!OrphanHasCause, Steam!IntentIsKept, SteamAssumed,
         Steam!UsersAssumption
  <1> QED
    BY <1>1, <1>2, <1>3, <1>4, <1>5 DEF SteamInv

\* What an attempt knows stays true while others act, if its user's identity is
\* not taken from a user who stays, nor given to one that it has made.
LEMMA AttemptStays ==
  ASSUME SteamInv, NEW x \in Attempts, attempt'[x] = attempt[x],
         \A u \in Steam!UserIds : email[u] # None => email'[u] # None,
         attempt[x].user \in users' => attempt[x].user \in users,
         attempt[x].user \in users' =>
           \A s \in SteamIds : identities[s] = attempt[x].user => identities'[s] = attempt[x].user,
         unsure \subseteq unsure',
         attempt[x].created /\ attempt[x].pc \in BeforeIdentity =>
           \A s \in SteamIds : identities'[s] = attempt[x].user =>
             identities[s] = attempt[x].user \/ attempt[x].user \in unsure'
  PROVE  AttemptTrue(x)'
  <1>1. AttemptTrue(x) /\ attempt[x].user \in Steam!UserIds \cup {None}
    BY DEF SteamInv, AccountTypeOK, AttemptRows
  <1>2. Drawn(attempt[x].user)'
    BY <1>1 DEF AttemptTrue, Drawn, Steam!UserIds
  <1>3. attempt[x].pc = "session" \/ (attempt[x].pc = "update" /\ attempt[x].intent = "login") =>
          (attempt[x].user \in users' => identities'[attempt[x].steam] = attempt[x].user)
    BY <1>1 DEF AttemptTrue
  <1>4. attempt[x].intent = "link" /\ attempt[x].user \in users' \cap NewUsers
          => \E s \in SteamIds : identities'[s] = attempt[x].user
    BY <1>1 DEF AttemptTrue, Steam!Linked
  <1>5. /\ attempt[x].pc \in BeforeIdentity /\ attempt[x].created
        /\ \E s \in SteamIds : identities'[s] = attempt[x].user
        => attempt[x].user \in unsure'
    BY <1>1 DEF AttemptTrue, Steam!Linked
  <1> QED
    BY <1>1, <1>2, <1>3, <1>4, <1>5 DEF AttemptTrue, Steam!Linked

\* A step of an attempt that leaves the accounts and the sessions alone.
LEMMA QuietStepKeepsSteam ==
  ASSUME SteamAssumed, SteamInv, NEW a \in Attempts,
         attempt' \in [Attempts -> AttemptRows], \A x \in Attempts \ {a} : attempt'[x] = attempt[x],
         AttemptTrue(a)', attempt'[a].pc # "idle",
         attempt'[a].intent # None => attempt'[a].intent = started[a],
         attempt'[a].created => attempt[a].created /\ attempt'[a].user = attempt[a].user,
         \A u \in users \cap NewUsers :
           Steam!Holds(a, u) => Steam!Linked(u) \/ u \in left' \/ Steam!Holds(a, u)',
         left \subseteq left',
         cookie' \in [Browsers -> Cookies \cup {None}],
         \A b \in Browsers : cookie'[b] \in {cookie[b], None},
         UNCHANGED <<users, email, identities, session, via, unsure, started>>
  PROVE  SteamInv'
  <1>1. AccountTypeOK'
    BY DEF SteamInv, AccountTypeOK
  <1>2. UsersTrue'
    BY DEF SteamInv, UsersTrue, Drawn
  <1>3. OneMaker'
    BY DEF SteamInv, OneMaker
  <1>4. ASSUME NEW x \in Attempts
        PROVE  AttemptTrue(x)'
    <2>1. CASE x = a
      BY <2>1
    <2>2. CASE x # a
      BY <2>2, AttemptStays
    <2> QED
      BY <2>1, <2>2
  <1>5. ASSUME NEW b \in Browsers
        PROVE  (CookieTrue(b) /\ SessionTrue(b))'
    <2>1. SessionTrue(b)'
      BY DEF SteamInv, SessionTrue, Drawn
    <2>2. CookieTrue(b)'
      BY DEF SteamInv, AccountTypeOK, Cookies, CookieTrue
    <2> QED
      BY <2>1, <2>2
  <1>6. (Steam!SteamNamesTheUser /\ Steam!SignedInIsKept)'
    BY DEF SteamInv, Steam!AccountsHold, Steam!SteamNamesTheUser, Steam!SignedInIsKept
  <1>7. Steam!OrphanHasCause'
    <2> SUFFICES ASSUME NEW u \in users \cap NewUsers
                 PROVE  Steam!Linked(u) \/ u \in left' \/ \E x \in Attempts : Steam!Holds(x, u)'
      BY DEF Steam!OrphanHasCause, Steam!Linked
    <2>1. CASE Steam!Linked(u) \/ u \in left
      BY <2>1
    <2>2. ASSUME NEW x \in Attempts, Steam!Holds(x, u)
          PROVE  Steam!Linked(u) \/ u \in left' \/ \E y \in Attempts : Steam!Holds(y, u)'
      <3>1. CASE x = a
        BY <2>2, <3>1
      <3>2. CASE x # a
        BY <2>2, <3>2 DEF Steam!Holds
      <3> QED
        BY <3>1, <3>2
    <2> QED
      BY <2>1, <2>2 DEF SteamInv, Steam!AccountsHold, Steam!OrphanHasCause
  <1>8. Steam!IntentIsKept'
    BY DEF SteamInv, Steam!AccountsHold, Steam!IntentIsKept
  <1> QED
    BY <1>1, <1>2, <1>3, <1>4, <1>5, <1>6, <1>7, <1>8 DEF SteamInv, Steam!AccountsHold

-----------------------------------------------------------------------------
(* Each step of an attempt. *)

\* The handler answers: the attempt has ended.
LEMMA ResponseKeepsTrue ==
  ASSUME SteamAssumed, SteamInv, NEW a \in Attempts, attempt[a].pc # "idle",
         NEW pc \in {"failed", "done", "refused"}, Steam!Respond(a, pc),
         UNCHANGED <<users, email, identities>>
  PROVE  /\ attempt' \in [Attempts -> AttemptRows]
         /\ \A x \in Attempts \ {a} : attempt'[x] = attempt[x]
         /\ attempt'[a] = [attempt[a] EXCEPT !.pc = pc]
         /\ AttemptTrue(a)' /\ attempt'[a].pc = pc
         /\ attempt'[a].intent = attempt[a].intent /\ attempt'[a].user = attempt[a].user
         /\ attempt'[a].created = attempt[a].created
         /\ cookie' \in [Browsers -> Cookies \cup {None}]
         /\ \A b \in Browsers : cookie'[b] \in {cookie[b], None}
  <1>1. attempt \in [Attempts -> AttemptRows] /\ cookie \in [Browsers -> Cookies \cup {None}]
        /\ AttemptTrue(a)
    BY DEF SteamInv, AccountTypeOK
  <1>2. /\ attempt' = [attempt EXCEPT ![a].pc = pc]
        /\ cookie' = [cookie EXCEPT ![attempt[a].browser] = None]
    BY DEF Steam!Respond, Steam!Goto
  <1>3. pc \in Pcs
    BY DEF Pcs
  <1>4. attempt' \in [Attempts -> AttemptRows]
    BY <1>1, <1>2, <1>3 DEF AttemptRows
  <1>5. /\ attempt'[a].pc = pc /\ attempt'[a].intent = attempt[a].intent
        /\ attempt'[a].user = attempt[a].user /\ attempt'[a].created = attempt[a].created
    BY <1>1, <1>2 DEF AttemptRows
  <1>6. AttemptTrue(a)'
    BY <1>1, <1>5 DEF AttemptTrue, Drawn, Steam!Linked, BeforeAccount, BeforeIdentity
  <1>7. /\ cookie' \in [Browsers -> Cookies \cup {None}]
        /\ \A b \in Browsers : cookie'[b] \in {cookie[b], None}
    BY <1>1, <1>2
  <1>8. /\ \A x \in Attempts \ {a} : attempt'[x] = attempt[x]
        /\ attempt'[a] = [attempt[a] EXCEPT !.pc = pc]
    BY <1>1, <1>2
  <1> QED
    BY <1>4, <1>5, <1>6, <1>7, <1>8

\* It goes on to another call.
LEMMA GoingOnKeepsTypes ==
  ASSUME SteamInv, NEW a \in Attempts, NEW pc \in Pcs, Steam!Goto(a, pc)
  PROVE  /\ attempt' \in [Attempts -> AttemptRows]
         /\ \A x \in Attempts \ {a} : attempt'[x] = attempt[x]
         /\ attempt'[a].pc = pc /\ attempt'[a].intent = attempt[a].intent
         /\ attempt'[a].user = attempt[a].user /\ attempt'[a].steam = attempt[a].steam
         /\ attempt'[a].browser = attempt[a].browser /\ attempt'[a].created = attempt[a].created
         /\ attempt'[a].persisted = attempt[a].persisted
BY DEF SteamInv, AccountTypeOK, AttemptRows, Steam!Goto

LEMMA CallbackKeepsSteam ==
  ASSUME SteamAssumed, SteamInv, NEW a \in Attempts, NEW s \in SteamIds, Steam!Callback(a, s)
  PROVE  SteamInv'
  <1> DEFINE b == attempt[a].browser
  <1>1. /\ attempt[a].pc = "steam" /\ AttemptTrue(a) /\ attempt[a] \in AttemptRows
        /\ attempt[a].user = None /\ ~attempt[a].created /\ ~attempt[a].persisted /\ b \in Browsers
        /\ UNCHANGED <<users, email, identities, session, via, unsure, started, left>>
    BY DEF Steam!Callback, Steam!At, SteamInv, AccountTypeOK, AttemptTrue, BeforeAccount,
         Steam!database, Steam!auxiliary
  <1>2. /\ attempt \in [Attempts -> AttemptRows] /\ cookie \in [Browsers -> Cookies \cup {None}]

        /\ session \in [Browsers -> Steam!UserIds \cup {None}]
    BY DEF SteamInv, AccountTypeOK
  <1>3. ASSUME NEW u
        PROVE  ~Steam!Holds(a, u)
    BY <1>1 DEF Steam!Holds
  <1>4. CASE Steam!ValidState(a)
    <2> DEFINE intent == cookie[b].intent
               user == IF intent = "link" THEN session[b] ELSE None
    <2>1. attempt' = [attempt EXCEPT ![a].pc = "find", ![a].intent = intent, ![a].steam = s,
                                     ![a].user = user]
      BY <1>4 DEF Steam!Callback
    <2>2. UNCHANGED cookie
      BY <1>4 DEF Steam!Callback
    <2>3. cookie[b] \in Cookies /\ cookie[b].state = a
      BY <1>1, <1>2, <1>4 DEF Steam!ValidState
    <2>4. intent \in Steam!Intents /\ intent = started[a]
      BY <1>1, <1>4, <2>3 DEF Cookies, SteamInv, CookieTrue, Steam!ValidState
    <2>5. user \in Steam!UserIds \cup {None}
      BY <1>1, <1>2
    <2>6. Drawn(user) /\ (intent = "link" /\ user \in users \cap NewUsers => Steam!Linked(user))
      <3>1. Drawn(None)
        BY DEF Drawn, SteamAssumed, Steam!UsersAssumption
      <3>2. SessionTrue(b) /\ Steam!SteamNamesTheUser
        BY <1>1 DEF SteamInv, Steam!AccountsHold
      <3>3. session[b] \in users \cap NewUsers => Steam!Linked(session[b])
        BY <1>1, <3>2 DEF SessionTrue, Steam!SteamNamesTheUser, Steam!Linked, SteamAssumed,
             Steam!SteamAssumption
      <3>4. CASE intent = "link"
        <4>1. user = session[b]
          BY <3>4
        <4> HIDE DEF user
        <4> QED
          BY <3>2, <3>3, <4>1 DEF SessionTrue
      <3>5. CASE intent # "link"
        <4>1. user = None
          BY <3>5
        <4> HIDE DEF user
        <4> QED
          BY <3>1, <3>5, <4>1
      <3> QED
        BY <3>4, <3>5
    <2> HIDE DEF intent, user
    <2>7. attempt' \in [Attempts -> AttemptRows]
      <3>1. "find" \in Pcs
        BY DEF Pcs
      <3>2. [attempt[a] EXCEPT !.pc = "find", !.intent = intent, !.steam = s, !.user = user]
              \in AttemptRows
        BY <1>1, <2>4, <2>5, <3>1 DEF AttemptRows
      <3> QED
        BY <1>2, <2>1, <3>2
    <2>8. /\ \A x \in Attempts \ {a} : attempt'[x] = attempt[x]
          /\ attempt'[a].pc = "find" /\ attempt'[a].intent = intent /\ attempt'[a].user = user
          /\ attempt'[a].steam = s /\ attempt'[a].browser = b /\ ~attempt'[a].created
          /\ ~attempt'[a].persisted
      BY <1>1, <1>2, <2>1 DEF AttemptRows
    <2>9. AttemptTrue(a)'
      BY <1>1, <2>6, <2>8 DEF AttemptTrue, Drawn, Steam!Linked, BeforeAccount, BeforeIdentity
    <2> QED
      BY <1>1, <1>2, <1>3, <2>2, <2>4, <2>7, <2>8, <2>9, QuietStepKeepsSteam
  <1>5. CASE ~Steam!ValidState(a)
    <2>1. Steam!Respond(a, "failed")
      BY <1>5 DEF Steam!Callback
    <2> QED
      BY <1>1, <1>3, <2>1, ResponseKeepsTrue, QuietStepKeepsSteam DEF SteamInv,
           Steam!AccountsHold, Steam!IntentIsKept
  <1> QED
    BY <1>4, <1>5

LEMMA ReadFailsKeepsSteam ==
  ASSUME SteamAssumed, SteamInv, NEW a \in Attempts, Steam!ReadFails(a)
  PROVE  SteamInv'
  <1>1. /\ attempt[a].pc \in {"steam", "find", "session"}
        /\ Steam!Respond(a, "failed") /\ AttemptTrue(a)
        /\ UNCHANGED <<users, email, identities, session, via, unsure, started, left>>
    BY DEF Steam!ReadFails, Steam!At, SteamInv, Steam!database, Steam!auxiliary
  <1>2. \A u \in users : Steam!Holds(a, u) => Steam!Linked(u)
    BY <1>1 DEF Steam!Holds, AttemptTrue, Steam!Linked
  <1> QED
    BY <1>1, <1>2, ResponseKeepsTrue, QuietStepKeepsSteam DEF SteamInv, Steam!AccountsHold,
         Steam!IntentIsKept

LEMMA FindKeepsSteam ==
  ASSUME SteamAssumed, SteamInv, NEW a \in Attempts, Steam!Find(a)
  PROVE  SteamInv'
  <1> DEFINE found == identities[attempt[a].steam]
             user == attempt[a].user
  <1>1. /\ attempt[a].pc = "find" /\ AttemptTrue(a) /\ attempt[a] \in AttemptRows
        /\ attempt \in [Attempts -> AttemptRows] /\ attempt[a].steam \in SteamIds
        /\ ~attempt[a].created /\ ~attempt[a].persisted /\ attempt[a].browser \in Browsers
        /\ cookie \in [Browsers -> Cookies \cup {None}]
        /\ UNCHANGED <<users, email, identities, session, via, unsure, started, left>>
    BY DEF Steam!Find, Steam!At, SteamInv, AccountTypeOK, AttemptTrue, BeforeAccount,
         Steam!database, Steam!auxiliary
  <1>2. ASSUME NEW u
        PROVE  ~Steam!Holds(a, u)
    BY <1>1 DEF Steam!Holds
  <1>3. attempt[a].intent # None => attempt[a].intent = started[a]
    BY DEF SteamInv, Steam!AccountsHold, Steam!IntentIsKept
  <1>4. CASE attempt[a].intent = "login" /\ found = None
    <2>1. Steam!Goto(a, "create") /\ UNCHANGED cookie /\ "create" \in Pcs
      BY <1>4 DEF Steam!Find, Pcs
    <2>2. AttemptTrue(a)'
      BY <1>1, <1>4, <2>1, GoingOnKeepsTypes DEF AttemptTrue, Drawn, Steam!Linked, BeforeAccount,
           BeforeIdentity
    <2> QED
      BY <1>1, <1>2, <1>3, <2>1, <2>2, GoingOnKeepsTypes, QuietStepKeepsSteam
  <1>5. CASE attempt[a].intent = "login" /\ found # None
    <2>1. /\ attempt' = [attempt EXCEPT ![a].pc = "update", ![a].user = found,
                                        ![a].persisted = TRUE]
          /\ UNCHANGED cookie
      BY <1>5 DEF Steam!Find
    <2>2. found \in users /\ found \in Steam!UserIds \cup {None} /\ Drawn(found)
      BY <1>1, <1>5 DEF SteamInv, UsersTrue, AccountTypeOK
    <2> HIDE DEF found
    <2>3. attempt' \in [Attempts -> AttemptRows]
      <3>1. "update" \in Pcs
        BY DEF Pcs
      <3>2. [attempt[a] EXCEPT !.pc = "update", !.user = found, !.persisted = TRUE] \in AttemptRows
        BY <1>1, <2>2, <3>1 DEF AttemptRows
      <3> QED
        BY <1>1, <2>1, <3>2
    <2>4. /\ \A x \in Attempts \ {a} : attempt'[x] = attempt[x]
          /\ attempt'[a].pc = "update" /\ attempt'[a].intent = "login" /\ attempt'[a].user = found
          /\ attempt'[a].steam = attempt[a].steam /\ attempt'[a].browser = attempt[a].browser
          /\ ~attempt'[a].created
      BY <1>1, <1>5, <2>1 DEF AttemptRows
    <2>5. AttemptTrue(a)'
      BY <1>1, <2>2, <2>4 DEF AttemptTrue, Drawn, Steam!Linked, BeforeAccount, BeforeIdentity,
           found
    <2> QED
      BY <1>1, <1>2, <1>3, <1>5, <2>1, <2>3, <2>4, <2>5, QuietStepKeepsSteam
  <1>6. CASE attempt[a].intent = "link" /\ user # None /\ found \in {None, user}
    <2>1. PICK pc \in {"save", "update"} : Steam!Goto(a, pc) /\ UNCHANGED cookie
      BY <1>6 DEF Steam!Find
    <2>2. pc \in Pcs
      BY DEF Pcs
    <2>3. AttemptTrue(a)'
      BY <1>1, <1>6, <2>1, <2>2, GoingOnKeepsTypes DEF AttemptTrue, Drawn, Steam!Linked,
           BeforeAccount, BeforeIdentity
    <2> QED
      BY <1>1, <1>2, <1>3, <2>1, <2>2, <2>3, GoingOnKeepsTypes, QuietStepKeepsSteam
  <1>7. CASE /\ attempt[a].intent # "login"
             /\ ~(attempt[a].intent = "link" /\ user # None /\ found \in {None, user})
    <2>1. Steam!Respond(a, "failed")
      BY <1>7 DEF Steam!Find
    <2> QED
      BY <1>1, <1>2, <1>3, <2>1, ResponseKeepsTrue, QuietStepKeepsSteam
  <1> QED
    BY <1>4, <1>5, <1>6, <1>7

\* What an attempt answers or goes on to when a call has failed.
LEMMA FailureKeepsSteam ==
  ASSUME SteamAssumed, SteamInv, NEW a \in Attempts, Steam!AfterFailure(a),
         attempt[a].pc \in {"profile", "save", "session"},
         UNCHANGED <<users, email, identities, session, via, unsure, started, left>>
  PROVE  SteamInv'
  <1>1. /\ AttemptTrue(a) /\ cookie \in [Browsers -> Cookies \cup {None}]
        /\ attempt[a].intent # None => attempt[a].intent = started[a]
    BY DEF SteamInv, AccountTypeOK, Steam!AccountsHold, Steam!IntentIsKept
  <1>2. CASE attempt[a].created /\ ~attempt[a].persisted
    <2>1. Steam!Goto(a, "cleanup") /\ UNCHANGED cookie /\ "cleanup" \in Pcs
      BY <1>2 DEF Steam!AfterFailure, Pcs
    <2>2. AttemptTrue(a)'
      BY <1>1, <1>2, <2>1, GoingOnKeepsTypes DEF AttemptTrue, Drawn, Steam!Linked, BeforeAccount,
           BeforeIdentity
    <2>3. \A u \in users : Steam!Holds(a, u) => Steam!Holds(a, u)'
      BY <2>1, GoingOnKeepsTypes DEF Steam!Holds
    <2> QED
      BY <1>1, <2>1, <2>2, <2>3, GoingOnKeepsTypes, QuietStepKeepsSteam
  <1>3. CASE ~(attempt[a].created /\ ~attempt[a].persisted)
    <2>1. Steam!Respond(a, "failed")
      BY <1>3 DEF Steam!AfterFailure
    <2>2. \A u \in users : Steam!Holds(a, u) => Steam!Linked(u)
      BY <1>1, <1>3 DEF Steam!Holds, AttemptTrue, Steam!Linked, BeforeIdentity
    <2> QED
      BY <1>1, <2>1, <2>2, ResponseKeepsTrue, QuietStepKeepsSteam
  <1> QED
    BY <1>2, <1>3

LEMMA ProfileKeepsSteam ==
  ASSUME SteamAssumed, SteamInv, NEW a \in Attempts, Steam!Profile(a)
  PROVE  SteamInv'
  <1>1. /\ attempt[a].pc = "profile" /\ AttemptTrue(a) /\ attempt[a].created
        /\ cookie \in [Browsers -> Cookies \cup {None}]
        /\ attempt[a].intent # None => attempt[a].intent = started[a]
        /\ UNCHANGED <<users, email, identities, session, via, unsure, started, left>>
    BY DEF Steam!Profile, Steam!At, SteamInv, AccountTypeOK, AttemptTrue, Steam!AccountsHold,
         Steam!IntentIsKept, Steam!auxiliary
  <1>2. CASE Steam!AfterFailure(a)
    BY <1>1, <1>2, FailureKeepsSteam
  <1>3. CASE Steam!Goto(a, "save") /\ UNCHANGED cookie
    <2>1. "save" \in Pcs
      BY DEF Pcs
    <2>2. AttemptTrue(a)'
      BY <1>1, <1>3, <2>1, GoingOnKeepsTypes DEF AttemptTrue, Drawn, Steam!Linked, BeforeAccount,
           BeforeIdentity
    <2>3. \A u \in users : Steam!Holds(a, u) => Steam!Holds(a, u)'
      BY <1>3, <2>1, GoingOnKeepsTypes DEF Steam!Holds
    <2> QED
      BY <1>1, <1>3, <2>1, <2>2, <2>3, GoingOnKeepsTypes, QuietStepKeepsSteam
  <1> QED
    BY <1>2, <1>3 DEF Steam!Profile

LEMMA CrashKeepsSteam ==
  ASSUME SteamAssumed, SteamInv, NEW a \in Attempts, Steam!Crash(a)
  PROVE  SteamInv'
  <1>1. /\ Steam!Goto(a, "failed") /\ UNCHANGED cookie /\ AttemptTrue(a) /\ "failed" \in Pcs
        /\ cookie \in [Browsers -> Cookies \cup {None}] /\ left \subseteq left'
        /\ attempt[a].intent # None => attempt[a].intent = started[a]
        /\ UNCHANGED <<users, email, identities, session, via, unsure, started>>
    BY DEF Steam!Crash, SteamInv, AccountTypeOK, Steam!AccountsHold, Steam!IntentIsKept,
         Steam!database, Pcs
  <1>2. AttemptTrue(a)'
    BY <1>1, GoingOnKeepsTypes DEF AttemptTrue, Drawn, Steam!Linked, BeforeAccount, BeforeIdentity
  <1>3. \A u \in users : Steam!Holds(a, u) => Steam!Linked(u) \/ u \in left'
    BY <1>1 DEF Steam!Crash, Steam!Holds, AttemptTrue, Steam!Linked, BeforeIdentity
  <1> QED
    BY <1>1, <1>2, <1>3, GoingOnKeepsTypes, QuietStepKeepsSteam

\* createAuthUser has made a user for this attempt, answered or not.
LEMMA NewUserKeepsSteam ==
  ASSUME SteamAssumed, SteamInv, NEW a \in Attempts, attempt[a].pc = "create",
         NEW u \in NewUsers, u \notin users, email[u] = None, users' = users \cup {u},
         email' = [email EXCEPT ![u] = attempt[a].steam],
         UNCHANGED <<identities, session, started, via, unsure>>,
         attempt' \in [Attempts -> AttemptRows], \A x \in Attempts \ {a} : attempt'[x] = attempt[x],
         AttemptTrue(a)', attempt'[a].pc # "idle", attempt'[a].intent = attempt[a].intent,
         attempt'[a].created => attempt'[a].user = u,
         Steam!Holds(a, u)' \/ u \in left', left \subseteq left',
         cookie' \in [Browsers -> Cookies \cup {None}],
         \A b \in Browsers : cookie'[b] \in {cookie[b], None}
  PROVE  SteamInv'
  <1>1. /\ AttemptTrue(a) /\ ~attempt[a].created /\ attempt[a].steam \in SteamIds
        /\ email \in [Steam!UserIds -> SteamIds \cup {None}] /\ u \in Steam!UserIds
    BY DEF SteamInv, AttemptTrue, BeforeAccount, AccountTypeOK, Steam!UserIds
  <1>2. /\ email'[u] # None
        /\ \A v \in Steam!UserIds : email[v] # None => email'[v] # None
    BY <1>1 DEF SteamAssumed, Steam!SteamAssumption
  <1>3. \A v : Drawn(v) => v # u /\ Drawn(v)'
    BY <1>2 DEF Drawn, Steam!UserIds
  <1>4. AccountTypeOK'
    BY <1>1 DEF SteamInv, AccountTypeOK
  <1>5. UsersTrue'
    BY <1>2, <1>3 DEF SteamInv, UsersTrue, Drawn
  <1>6. OneMaker'
    BY <1>1, <1>3 DEF SteamInv, OneMaker, AttemptTrue
  <1>7. ASSUME NEW x \in Attempts
        PROVE  AttemptTrue(x)'
    <2>1. CASE x = a
      BY <2>1
    <2>2. CASE x # a
      <3>1. attempt[x].user # u
        BY <1>3 DEF SteamInv, AttemptTrue
      <3> QED
        BY <1>2, <2>2, <3>1, AttemptStays
    <2> QED
      BY <2>1, <2>2
  <1>8. ASSUME NEW b \in Browsers
        PROVE  (CookieTrue(b) /\ SessionTrue(b))'
    <2>1. SessionTrue(b)'
      BY <1>3 DEF SteamInv, SessionTrue
    <2>2. CookieTrue(b)'
      BY DEF SteamInv, AccountTypeOK, Cookies, CookieTrue
    <2> QED
      BY <2>1, <2>2
  <1>9. (Steam!SteamNamesTheUser /\ Steam!SignedInIsKept)'
    BY <1>3 DEF SteamInv, SessionTrue, Steam!AccountsHold, Steam!SteamNamesTheUser,
         Steam!SignedInIsKept
  <1>10. Steam!OrphanHasCause'
    <2> SUFFICES ASSUME NEW v \in users' \cap NewUsers
                 PROVE  Steam!Linked(v) \/ v \in left' \/ \E x \in Attempts : Steam!Holds(x, v)'
      BY DEF Steam!OrphanHasCause, Steam!Linked
    <2>1. CASE v = u
      BY <2>1
    <2>2. CASE v # u
      <3>1. Steam!Linked(v) \/ v \in left \/ \E x \in Attempts : Steam!Holds(x, v)
        BY <2>2 DEF SteamInv, Steam!AccountsHold, Steam!OrphanHasCause
      <3>2. \A x \in Attempts : Steam!Holds(x, v) => Steam!Holds(x, v)'
        BY <1>1 DEF Steam!Holds
      <3> QED
        BY <3>1, <3>2
    <2> QED
      BY <2>1, <2>2
  <1>11. Steam!IntentIsKept'
    BY DEF SteamInv, Steam!AccountsHold, Steam!IntentIsKept
  <1> QED
    BY <1>4, <1>5, <1>6, <1>7, <1>8, <1>9, <1>10, <1>11 DEF SteamInv, Steam!AccountsHold

LEMMA CreateKeepsSteam ==
  ASSUME SteamAssumed, SteamInv, NEW a \in Attempts, Steam!Create(a)
  PROVE  SteamInv'
  <1>1. /\ attempt[a].pc = "create" /\ AttemptTrue(a) /\ attempt[a] \in AttemptRows
        /\ attempt \in [Attempts -> AttemptRows] /\ attempt[a].steam \in SteamIds
        /\ ~attempt[a].created /\ ~attempt[a].persisted /\ attempt[a].browser \in Browsers
        /\ cookie \in [Browsers -> Cookies \cup {None}] /\ attempt[a].intent = "login"
        /\ attempt[a].intent # None => attempt[a].intent = started[a]
        /\ UNCHANGED <<session, started, via, unsure>>
    BY DEF Steam!Create, Steam!At, SteamInv, AccountTypeOK, Steam!AccountsHold,
         Steam!IntentIsKept, AttemptTrue, BeforeAccount
  <1>2. ASSUME NEW u
        PROVE  ~Steam!Holds(a, u)
    BY <1>1 DEF Steam!Holds
  <1>3. CASE \E u \in users : email[u] = attempt[a].steam
    <2>1. Steam!Respond(a, "refused") /\ UNCHANGED <<users, email, identities, left>>
      BY <1>3 DEF Steam!Create, Steam!database
    <2> QED
      BY <1>1, <1>2, <2>1, ResponseKeepsTrue, QuietStepKeepsSteam
  <1>4. CASE ~\E u \in users : email[u] = attempt[a].steam
    <2>1. PICK u \in NewUsers :
            /\ u \notin users /\ email[u] = None /\ users' = users \cup {u}
            /\ email' = [email EXCEPT ![u] = attempt[a].steam]
            /\ \/ /\ attempt' = [attempt EXCEPT ![a].pc = "profile", ![a].user = u,
                                                ![a].created = TRUE]
                  /\ UNCHANGED <<cookie, left>>
               \/ Steam!Respond(a, "failed") /\ left' = left \cup {u}
            /\ UNCHANGED identities
      BY <1>4 DEF Steam!Create
    <2>2. /\ u \in Steam!UserIds /\ ~Steam!Linked(u) /\ email'[u] # None
          /\ \A v \in Steam!UserIds : email[v] # None => email'[v] # None
      <3>1. u \in Steam!UserIds /\ u # None
        BY DEF Steam!UserIds, SteamAssumed, Steam!UsersAssumption
      <3>2. ~Steam!Linked(u)
        BY <2>1, <3>1 DEF SteamInv, UsersTrue, Steam!Linked
      <3>3. email \in [Steam!UserIds -> SteamIds \cup {None}]
        BY DEF SteamInv, AccountTypeOK
      <3> QED
        BY <1>1, <2>1, <3>1, <3>2, <3>3 DEF SteamAssumed, Steam!SteamAssumption
    <2>3. CASE /\ attempt' = [attempt EXCEPT ![a].pc = "profile", ![a].user = u,
                                             ![a].created = TRUE]
               /\ UNCHANGED <<cookie, left>>
      <3>1. attempt' \in [Attempts -> AttemptRows]
        <4>1. "profile" \in Pcs
          BY DEF Pcs
        <4>2. [attempt[a] EXCEPT !.pc = "profile", !.user = u, !.created = TRUE] \in AttemptRows
          BY <1>1, <2>2, <4>1 DEF AttemptRows
        <4> QED
          BY <1>1, <2>3, <4>2
      <3>2. /\ \A x \in Attempts \ {a} : attempt'[x] = attempt[x]
            /\ attempt'[a].pc = "profile" /\ attempt'[a].user = u /\ attempt'[a].created
            /\ attempt'[a].intent = attempt[a].intent /\ attempt'[a].steam = attempt[a].steam
            /\ attempt'[a].browser = attempt[a].browser /\ ~attempt'[a].persisted
        BY <1>1, <2>3 DEF AttemptRows
      <3>3. AttemptTrue(a)'
        BY <1>1, <2>1, <2>2, <3>2 DEF AttemptTrue, Drawn, Steam!Linked, BeforeAccount,
             BeforeIdentity
      <3>4. Steam!Holds(a, u)'
        BY <3>2 DEF Steam!Holds
      <3> QED
        BY <1>1, <2>1, <2>3, <3>1, <3>2, <3>3, <3>4, NewUserKeepsSteam
    <2>4. CASE Steam!Respond(a, "failed") /\ left' = left \cup {u}
      <3>1. Steam!Goto(a, "failed") /\ "failed" \in Pcs
        BY <2>4 DEF Steam!Respond, Pcs
      <3>2. AttemptTrue(a)'
        BY <1>1, <2>1, <2>2, <3>1, GoingOnKeepsTypes DEF AttemptTrue, Drawn, Steam!Linked,
             BeforeAccount, BeforeIdentity
      <3>3. /\ cookie' \in [Browsers -> Cookies \cup {None}]
            /\ \A b \in Browsers : cookie'[b] \in {cookie[b], None}
        BY <1>1, <2>4 DEF Steam!Respond
      <3> QED
        BY <1>1, <2>1, <2>4, <3>1, <3>2, <3>3, GoingOnKeepsTypes, NewUserKeepsSteam
    <2> QED
      BY <2>1, <2>3, <2>4
  <1> QED
    BY <1>3, <1>4

\* saveIdentity has inserted the row, answered or not.
LEMMA IdentityKeepsSteam ==
  ASSUME SteamAssumed, SteamInv, NEW a \in Attempts, attempt[a].pc = "save",
         Steam!Insertable(attempt[a].user, attempt[a].steam),
         identities' = [identities EXCEPT ![attempt[a].steam] = attempt[a].user],
         UNCHANGED <<users, email, session, started, via, left>>,
         unsure \subseteq unsure',
         attempt' \in [Attempts -> AttemptRows], \A x \in Attempts \ {a} : attempt'[x] = attempt[x],
         AttemptTrue(a)', attempt'[a].pc # "idle", attempt'[a].intent = attempt[a].intent,
         attempt'[a].created => attempt[a].created /\ attempt'[a].user = attempt[a].user,
         cookie' \in [Browsers -> Cookies \cup {None}],
         \A b \in Browsers : cookie'[b] \in {cookie[b], None}
  PROVE  SteamInv'
  <1> DEFINE u == attempt[a].user
             s == attempt[a].steam
  <1>1. /\ AttemptTrue(a) /\ s \in SteamIds /\ u \in users /\ users \subseteq Steam!UserIds
        /\ identities[s] = None /\ \A t \in SteamIds : identities[t] # u
        /\ identities \in [SteamIds -> Steam!UserIds \cup {None}]
    BY DEF SteamInv, AttemptTrue, AccountTypeOK, Steam!Insertable
  <1>2. None \notin users /\ u \in Steam!UserIds
    BY <1>1 DEF SteamAssumed, Steam!UsersAssumption, Steam!UserIds
  <1>3. /\ identities' \in [SteamIds -> Steam!UserIds \cup {None}] /\ identities'[s] = u
        /\ \A t \in SteamIds : t # s => identities'[t] = identities[t]
    BY <1>1, <1>2
  <1>4. \A v \in users, t \in SteamIds : identities[t] = v => identities'[t] = v
    BY <1>1, <1>2, <1>3
  <1> HIDE DEF u, s
  <1>5. AccountTypeOK'
    BY <1>3 DEF SteamInv, AccountTypeOK
  <1>6. UsersTrue'
    BY <1>1, <1>3 DEF SteamInv, UsersTrue, Drawn
  <1>7. OneMaker'
    BY DEF SteamInv, OneMaker
  <1>8. ASSUME NEW x \in Attempts
        PROVE  AttemptTrue(x)'
    <2>1. CASE x = a
      BY <2>1
    <2>2. CASE x # a
      <3>1. attempt[x].created => attempt[x].user # u
        <4>1. SUFFICES ASSUME attempt[x].created, attempt[x].user = u PROVE FALSE
          OBVIOUS
        <4>2. u \in NewUsers
          BY <4>1 DEF SteamInv, AttemptTrue
        <4>3. ~attempt[a].created
          BY <2>2, <4>1 DEF SteamInv, OneMaker, u
        <4>4. attempt[a].intent = "link"
          BY <1>1, <4>3 DEF AttemptTrue
        <4>5. Steam!Linked(u)
          BY <1>1, <4>2, <4>4 DEF AttemptTrue, u
        <4> QED
          BY <1>1, <4>5 DEF Steam!Linked
      <3>2. attempt[x].created =>
              \A t \in SteamIds :
                identities'[t] = attempt[x].user => identities[t] = attempt[x].user
        BY <1>3, <3>1
      <3> QED
        BY <1>4, <2>2, <3>2, AttemptStays
    <2> QED
      BY <2>1, <2>2
  <1>9. ASSUME NEW b \in Browsers
        PROVE  (CookieTrue(b) /\ SessionTrue(b))'
    <2>1. SessionTrue(b)'
      BY DEF SteamInv, SessionTrue, Drawn
    <2>2. CookieTrue(b)'
      BY DEF SteamInv, AccountTypeOK, Cookies, CookieTrue
    <2> QED
      BY <2>1, <2>2
  <1>10. Steam!SteamNamesTheUser'
    <2> SUFFICES ASSUME NEW b \in Browsers, via[b] # None, session[b] \in users
                 PROVE  identities'[via[b]] = session[b]
      BY DEF Steam!SteamNamesTheUser
    <2>1. via[b] \in SteamIds /\ identities[via[b]] = session[b]
      BY DEF SteamInv, AccountTypeOK, Steam!AccountsHold, Steam!SteamNamesTheUser
    <2> QED
      BY <1>4, <2>1
  <1>11. Steam!SignedInIsKept'
    BY DEF SteamInv, Steam!AccountsHold, Steam!SignedInIsKept
  <1>12. Steam!OrphanHasCause'
    <2> SUFFICES ASSUME NEW v \in users \cap NewUsers
                 PROVE  (\E t \in SteamIds : identities'[t] = v) \/ v \in left
                        \/ \E x \in Attempts : Steam!Holds(x, v)'
      BY DEF Steam!OrphanHasCause, Steam!Linked
    <2>1. CASE v = u
      BY <1>1, <1>3, <2>1
    <2>2. CASE v # u
      <3>1. Steam!Linked(v) \/ v \in left \/ \E x \in Attempts : Steam!Holds(x, v)
        BY DEF SteamInv, Steam!AccountsHold, Steam!OrphanHasCause
      <3>2. \A x \in Attempts : Steam!Holds(x, v) => Steam!Holds(x, v)'
        BY <2>2 DEF Steam!Holds, u
      <3>3. Steam!Linked(v) => \E t \in SteamIds : identities'[t] = v
        BY <1>4 DEF Steam!Linked
      <3> QED
        BY <3>1, <3>2, <3>3
    <2> QED
      BY <2>1, <2>2
  <1>13. Steam!IntentIsKept'
    BY DEF SteamInv, Steam!AccountsHold, Steam!IntentIsKept
  <1> QED
    BY <1>5, <1>6, <1>7, <1>8, <1>9, <1>10, <1>11, <1>12, <1>13 DEF SteamInv, Steam!AccountsHold

LEMMA SaveKeepsSteam ==
  ASSUME SteamAssumed, SteamInv, NEW a \in Attempts, Steam!Save(a)
  PROVE  SteamInv'
  <1> DEFINE u == attempt[a].user
             s == attempt[a].steam
  <1>1. /\ attempt[a].pc = "save" /\ AttemptTrue(a) /\ attempt[a] \in AttemptRows
        /\ attempt \in [Attempts -> AttemptRows] /\ s \in SteamIds
        /\ ~attempt[a].persisted /\ attempt[a].browser \in Browsers
        /\ cookie \in [Browsers -> Cookies \cup {None}]
        /\ identities \in [SteamIds -> Steam!UserIds \cup {None}]
        /\ UNCHANGED <<users, email, session, started, via, left>>
    BY DEF Steam!Save, Steam!At, SteamInv, AccountTypeOK, AttemptTrue, BeforeIdentity
  <1>2. CASE Steam!AfterFailure(a) /\ UNCHANGED <<identities, unsure>>
    BY <1>1, <1>2, FailureKeepsSteam
  <1>3. CASE Steam!Insertable(u, s) /\ identities' = [identities EXCEPT ![s] = u]
             /\ \/ Steam!Saved(a) /\ UNCHANGED unsure
                \/ Steam!AfterFailure(a) /\ unsure' = unsure \cup {u}
    <2>1. u \in users /\ identities'[s] = u
      BY <1>1, <1>3 DEF Steam!Insertable
    <2>2. CASE Steam!Saved(a) /\ attempt[a].intent = "login" /\ UNCHANGED unsure
      <3>1. /\ attempt' = [attempt EXCEPT ![a].pc = "session", ![a].persisted = TRUE]
            /\ UNCHANGED cookie
        BY <2>2 DEF Steam!Saved
      <3>2. attempt' \in [Attempts -> AttemptRows]
        <4>1. "session" \in Pcs
          BY DEF Pcs
        <4>2. [attempt[a] EXCEPT !.pc = "session", !.persisted = TRUE] \in AttemptRows
          BY <1>1, <4>1 DEF AttemptRows
        <4> QED
          BY <1>1, <3>1, <4>2
      <3>3. /\ \A x \in Attempts \ {a} : attempt'[x] = attempt[x]
            /\ attempt'[a].pc = "session" /\ attempt'[a].user = u /\ attempt'[a].persisted
            /\ attempt'[a].intent = "login" /\ attempt'[a].steam = s
            /\ attempt'[a].browser = attempt[a].browser /\ attempt'[a].created = attempt[a].created
        BY <1>1, <2>2, <3>1 DEF AttemptRows
      <3>4. AttemptTrue(a)'
        BY <1>1, <2>1, <3>3 DEF AttemptTrue, Drawn, Steam!Linked, BeforeAccount, BeforeIdentity
      <3> QED
        BY <1>1, <1>3, <2>2, <3>1, <3>2, <3>3, <3>4, IdentityKeepsSteam
    <2>3. ASSUME NEW pc \in {"done", "failed"}, Steam!Respond(a, pc), unsure \subseteq unsure'
          PROVE  SteamInv'
      <3>1. Steam!Goto(a, pc) /\ pc \in Pcs
        BY <2>3 DEF Steam!Respond, Pcs
      <3>2. AttemptTrue(a)'
        BY <1>1, <2>1, <2>3, <3>1, GoingOnKeepsTypes DEF AttemptTrue, Drawn, Steam!Linked,
             BeforeAccount, BeforeIdentity
      <3>3. /\ cookie' \in [Browsers -> Cookies \cup {None}]
            /\ \A b \in Browsers : cookie'[b] \in {cookie[b], None}
        BY <1>1, <2>3 DEF Steam!Respond
      <3> QED
        BY <1>1, <1>3, <2>3, <3>1, <3>2, <3>3, GoingOnKeepsTypes, IdentityKeepsSteam
    <2>4. CASE Steam!AfterFailure(a) /\ attempt[a].created /\ unsure' = unsure \cup {u}
      <3>1. Steam!Goto(a, "cleanup") /\ UNCHANGED cookie /\ "cleanup" \in Pcs
        BY <1>1, <2>4 DEF Steam!AfterFailure, Pcs
      <3>2. AttemptTrue(a)'
        BY <1>1, <2>1, <2>4, <3>1, GoingOnKeepsTypes DEF AttemptTrue, Drawn, Steam!Linked,
             BeforeAccount, BeforeIdentity
      <3> QED
        BY <1>1, <1>3, <2>4, <3>1, <3>2, GoingOnKeepsTypes, IdentityKeepsSteam
    <2> QED
      BY <1>3, <2>2, <2>3, <2>4 DEF Steam!Saved, Steam!AfterFailure
  <1>4. \/ Steam!AfterFailure(a) /\ UNCHANGED <<identities, unsure>>
        \/ /\ Steam!Insertable(u, s) /\ identities' = [identities EXCEPT ![s] = u]
           /\ \/ Steam!Saved(a) /\ UNCHANGED unsure
              \/ Steam!AfterFailure(a) /\ unsure' = unsure \cup {u}
    BY Zenon DEF Steam!Save
  <1> QED
    BY <1>2, <1>3, <1>4

LEMMA UpdateKeepsSteam ==
  ASSUME SteamAssumed, SteamInv, NEW a \in Attempts, Steam!Update(a)
  PROVE  SteamInv'
  <1>1. /\ attempt[a].pc = "update" /\ AttemptTrue(a) /\ attempt[a] \in AttemptRows
        /\ attempt \in [Attempts -> AttemptRows]
        /\ cookie \in [Browsers -> Cookies \cup {None}]
        /\ attempt[a].intent # None => attempt[a].intent = started[a]
        /\ UNCHANGED <<users, email, identities, session, via, unsure, started, left>>
    BY DEF Steam!Update, Steam!At, SteamInv, AccountTypeOK, AttemptTrue, Steam!AccountsHold,
         Steam!IntentIsKept, Steam!database, Steam!auxiliary
  <1>2. ASSUME NEW u
        PROVE  ~Steam!Holds(a, u)
    BY <1>1 DEF Steam!Holds
  <1>3. CASE \E pc \in {"done", "failed"} : Steam!Respond(a, pc)
    BY <1>1, <1>2, <1>3, ResponseKeepsTrue, QuietStepKeepsSteam
  <1>4. CASE attempt[a].intent = "login" /\ Steam!Saved(a)
    <2>1. /\ attempt' = [attempt EXCEPT ![a].pc = "session", ![a].persisted = TRUE]
          /\ UNCHANGED cookie
      BY <1>4 DEF Steam!Saved
    <2>2. attempt' \in [Attempts -> AttemptRows]
      <3>1. "session" \in Pcs
        BY DEF Pcs
      <3>2. [attempt[a] EXCEPT !.pc = "session", !.persisted = TRUE] \in AttemptRows
        BY <1>1, <3>1 DEF AttemptRows
      <3> QED
        BY <1>1, <2>1, <3>2
    <2>3. /\ \A x \in Attempts \ {a} : attempt'[x] = attempt[x]
          /\ attempt'[a].pc = "session" /\ attempt'[a].user = attempt[a].user
          /\ attempt'[a].persisted /\ attempt'[a].intent = "login"
          /\ attempt'[a].steam = attempt[a].steam /\ attempt'[a].browser = attempt[a].browser
          /\ attempt'[a].created = attempt[a].created
      BY <1>1, <1>4, <2>1 DEF AttemptRows
    <2>4. AttemptTrue(a)'
      BY <1>1, <1>4, <2>3 DEF AttemptTrue, Drawn, Steam!Linked, BeforeAccount, BeforeIdentity
    <2> QED
      BY <1>1, <1>2, <1>4, <2>1, <2>2, <2>3, <2>4, QuietStepKeepsSteam
  <1> QED
    BY <1>3, <1>4 DEF Steam!Update, Steam!Saved

LEMMA SessionKeepsSteam ==
  ASSUME SteamAssumed, SteamInv, NEW a \in Attempts, Steam!Session(a)
  PROVE  SteamInv'
  <1> DEFINE u == attempt[a].user
             b == attempt[a].browser
             s == attempt[a].steam
  <1>1. /\ attempt[a].pc = "session" /\ AttemptTrue(a) /\ s \in SteamIds /\ b \in Browsers
        /\ attempt[a].persisted
        /\ cookie \in [Browsers -> Cookies \cup {None}]

        /\ session \in [Browsers -> Steam!UserIds \cup {None}]
        /\ via \in [Browsers -> SteamIds \cup {None}]
        /\ attempt[a].intent # None => attempt[a].intent = started[a]
        /\ UNCHANGED <<users, email, identities, started, unsure, left>>
    BY DEF Steam!Session, Steam!At, SteamInv, AccountTypeOK, AttemptTrue, Steam!AccountsHold,
         Steam!IntentIsKept, Steam!database
  <1>2. CASE Steam!AfterFailure(a) /\ UNCHANGED <<session, via>>
    BY <1>1, <1>2, FailureKeepsSteam
  <1>3. CASE /\ u \in users /\ Steam!Respond(a, "done")
             /\ session' = [session EXCEPT ![b] = u] /\ via' = [via EXCEPT ![b] = s]
    <2>1. /\ identities[s] = u /\ Drawn(u) /\ u \in Steam!UserIds
      BY <1>1, <1>3 DEF AttemptTrue, SteamInv, AccountTypeOK
    <2>2. /\ attempt' \in [Attempts -> AttemptRows]
          /\ \A x \in Attempts \ {a} : attempt'[x] = attempt[x]
          /\ AttemptTrue(a)' /\ attempt'[a].pc = "done"
          /\ attempt'[a].intent = attempt[a].intent /\ attempt'[a].user = attempt[a].user
          /\ attempt'[a].created = attempt[a].created
          /\ cookie' \in [Browsers -> Cookies \cup {None}]
          /\ \A c \in Browsers : cookie'[c] \in {cookie[c], None}
      BY <1>1, <1>3, ResponseKeepsTrue
    <2>3. /\ session' \in [Browsers -> Steam!UserIds \cup {None}]
          /\ via' \in [Browsers -> SteamIds \cup {None}]
          /\ session'[b] = u /\ via'[b] = s
          /\ \A c \in Browsers : c # b => session'[c] = session[c] /\ via'[c] = via[c]
      BY <1>1, <1>3, <2>1
    <2> HIDE DEF u, b, s
    <2>4. AccountTypeOK'
      BY <1>1, <2>2, <2>3 DEF SteamInv, AccountTypeOK
    <2>5. UsersTrue' /\ OneMaker'
      BY <1>1, <2>2 DEF SteamInv, UsersTrue, OneMaker, Drawn
    <2>6. ASSUME NEW x \in Attempts
          PROVE  AttemptTrue(x)'
      <3>1. CASE x = a
        BY <2>2, <3>1
      <3>2. CASE x # a
        BY <1>1, <2>2, <3>2, AttemptStays
      <3> QED
        BY <3>1, <3>2
    <2>7. ASSUME NEW c \in Browsers
          PROVE  (CookieTrue(c) /\ SessionTrue(c))'
      <3>1. SessionTrue(c)'
        BY <1>1, <2>1, <2>3 DEF SteamInv, SessionTrue, Drawn
      <3>2. CookieTrue(c)'
        BY <1>1, <2>2 DEF SteamInv, AccountTypeOK, Cookies, CookieTrue
      <3> QED
        BY <3>1, <3>2
    <2>8. (Steam!SteamNamesTheUser /\ Steam!SignedInIsKept)'
      BY <1>1, <1>3, <2>1, <2>3 DEF SteamInv, Steam!AccountsHold, Steam!SteamNamesTheUser,
           Steam!SignedInIsKept, u
    <2>9. Steam!OrphanHasCause'
      <3> SUFFICES ASSUME NEW v \in users \cap NewUsers
                   PROVE  Steam!Linked(v) \/ v \in left \/ \E x \in Attempts : Steam!Holds(x, v)'
        BY <1>1 DEF Steam!OrphanHasCause, Steam!Linked
      <3>1. Steam!Linked(v) \/ v \in left \/ \E x \in Attempts : Steam!Holds(x, v)
        BY DEF SteamInv, Steam!AccountsHold, Steam!OrphanHasCause
      <3>2. Steam!Holds(a, v) => Steam!Linked(v)
        BY <1>1, <2>1 DEF Steam!Holds, Steam!Linked, u
      <3>3. \A x \in Attempts \ {a} : Steam!Holds(x, v) => Steam!Holds(x, v)'
        BY <2>2 DEF Steam!Holds
      <3> QED
        BY <3>1, <3>2, <3>3
    <2>10. Steam!IntentIsKept'
      BY <1>1, <2>2 DEF SteamInv, Steam!AccountsHold, Steam!IntentIsKept
    <2> QED
      BY <2>4, <2>5, <2>6, <2>7, <2>8, <2>9, <2>10 DEF SteamInv, Steam!AccountsHold
  <1>4. \/ Steam!AfterFailure(a) /\ UNCHANGED <<session, via>>
        \/ /\ u \in users /\ Steam!Respond(a, "done")
           /\ session' = [session EXCEPT ![b] = u] /\ via' = [via EXCEPT ![b] = s]
    BY Zenon DEF Steam!Session
  <1> QED
    BY <1>2, <1>3, <1>4

\* A user is deleted whom no sign-in was opened for, or one that was left unsure.
LEMMA DeletingKeepsSteam ==
  ASSUME SteamAssumed, SteamInv, NEW u \in NewUsers, Steam!Deleted(u),
         Steam!Linked(u) => u \in unsure,
         UNCHANGED <<email, session, started, via, left, unsure>>,
         attempt' \in [Attempts -> AttemptRows],
         \A x \in Attempts : \/ attempt'[x] = attempt[x]
                           \/ /\ AttemptTrue(x)' /\ attempt'[x].pc # "idle"
                              /\ attempt'[x].intent = attempt[x].intent
                              /\ attempt'[x].created = attempt[x].created
                              /\ attempt'[x].user = attempt[x].user /\ attempt[x].user = u,
         cookie' \in [Browsers -> Cookies \cup {None}],
         \A b \in Browsers : cookie'[b] \in {cookie[b], None}
  PROVE  SteamInv'
  <1>1. /\ users' = users \ {u} /\ users \subseteq Steam!UserIds
        /\ identities \in [SteamIds -> Steam!UserIds \cup {None}]
        /\ identities' \in [SteamIds -> Steam!UserIds \cup {None}]
        /\ \A t \in SteamIds : identities'[t] = IF identities[t] = u THEN None ELSE identities[t]
        /\ u # None
    BY DEF Steam!Deleted, SteamInv, AccountTypeOK, SteamAssumed, Steam!UsersAssumption
  <1>2. /\ \A v, t \in SteamIds : v # u /\ identities[t] = v => identities'[t] = v
        /\ \A t \in SteamIds : identities'[t] \in {identities[t], None}
    BY <1>1
  <1>3. AccountTypeOK'
    BY <1>1 DEF SteamInv, AccountTypeOK
  <1>4. UsersTrue'
    BY <1>1 DEF SteamInv, UsersTrue, Drawn
  <1>5. OneMaker'
    BY DEF SteamInv, OneMaker
  <1>6. ASSUME NEW x \in Attempts
        PROVE  AttemptTrue(x)'
    <2>1. CASE attempt'[x] # attempt[x]
      BY <2>1
    <2>2. CASE attempt'[x] = attempt[x]
      <3>1. attempt[x].created => attempt[x].user # None
        BY DEF SteamInv, AttemptTrue, SteamAssumed, Steam!UsersAssumption
      <3> QED
        BY <1>1, <1>2, <2>2, <3>1, AttemptStays
    <2> QED
      BY <2>1, <2>2
  <1>7. ASSUME NEW b \in Browsers
        PROVE  (CookieTrue(b) /\ SessionTrue(b))'
    <2>1. SessionTrue(b)'
      BY DEF SteamInv, SessionTrue, Drawn
    <2>2. CookieTrue(b)'
      BY DEF SteamInv, AccountTypeOK, Cookies, CookieTrue
    <2> QED
      BY <2>1, <2>2
  <1>8. Steam!SteamNamesTheUser'
    <2> SUFFICES ASSUME NEW b \in Browsers, via[b] # None, session[b] \in users \ {u}
                 PROVE  identities'[via[b]] = session[b]
      BY <1>1 DEF Steam!SteamNamesTheUser
    <2>1. via[b] \in SteamIds /\ identities[via[b]] = session[b]
      BY DEF SteamInv, AccountTypeOK, Steam!AccountsHold, Steam!SteamNamesTheUser
    <2> QED
      BY <1>1, <2>1
  <1>9. Steam!SignedInIsKept'
    <2> SUFFICES ASSUME NEW b \in Browsers, session[b] = u
                 PROVE  u \in unsure
      BY <1>1 DEF SteamInv, Steam!AccountsHold, Steam!SignedInIsKept
    <2>1. u \in users \/ u \in unsure
      BY <1>1 DEF SteamInv, Steam!AccountsHold, Steam!SignedInIsKept
    <2>2. via[b] \in SteamIds /\ via[b] # None
      BY DEF SteamInv, SessionTrue, SteamAssumed, Steam!SteamAssumption
    <2>3. u \in users => Steam!Linked(u)
      BY <2>2 DEF SteamInv, Steam!AccountsHold, Steam!SteamNamesTheUser, Steam!Linked
    <2> QED
      BY <2>1, <2>3
  <1>10. Steam!OrphanHasCause'
    <2> SUFFICES ASSUME NEW v \in users \cap NewUsers, v # u
                 PROVE  (\E t \in SteamIds : identities'[t] = v) \/ v \in left
                        \/ \E x \in Attempts : Steam!Holds(x, v)'
      BY <1>1 DEF Steam!OrphanHasCause, Steam!Linked
    <2>1. Steam!Linked(v) \/ v \in left \/ \E x \in Attempts : Steam!Holds(x, v)
      BY DEF SteamInv, Steam!AccountsHold, Steam!OrphanHasCause
    <2>2. \A x \in Attempts : Steam!Holds(x, v) => Steam!Holds(x, v)'
      BY DEF Steam!Holds
    <2>3. Steam!Linked(v) => \E t \in SteamIds : identities'[t] = v
      BY <1>1 DEF Steam!Linked
    <2> QED
      BY <2>1, <2>2, <2>3
  <1>11. Steam!IntentIsKept'
    BY DEF SteamInv, Steam!AccountsHold, Steam!IntentIsKept
  <1> QED
    BY <1>3, <1>4, <1>5, <1>6, <1>7, <1>8, <1>9, <1>10, <1>11 DEF SteamInv, Steam!AccountsHold

LEMMA CleanupKeepsSteam ==
  ASSUME SteamAssumed, SteamInv, NEW a \in Attempts, Steam!Cleanup(a)
  PROVE  SteamInv'
  <1> DEFINE u == attempt[a].user
  <1>1. /\ attempt[a].pc = "cleanup" /\ AttemptTrue(a) /\ attempt[a].created /\ u \in NewUsers
        /\ Steam!Respond(a, "failed") /\ cookie \in [Browsers -> Cookies \cup {None}]
        /\ attempt[a].intent # None => attempt[a].intent = started[a]
        /\ UNCHANGED <<email, session, started, via, unsure>>
    BY DEF Steam!Cleanup, Steam!At, SteamInv, AccountTypeOK, AttemptTrue, Steam!AccountsHold,
         Steam!IntentIsKept
  <1>2. CASE left' = left \cup {u} /\ UNCHANGED <<users, identities>>
    <2>1. \A v \in users : Steam!Holds(a, v) => v \in left'
      BY <1>2 DEF Steam!Holds
    <2> QED
      BY <1>1, <1>2, <2>1, ResponseKeepsTrue, QuietStepKeepsSteam
  <1>3. CASE Steam!Deleted(u) /\ UNCHANGED left
    <2>1. Steam!Linked(u) => u \in unsure
      BY <1>1 DEF AttemptTrue, BeforeIdentity
    <2>2. Steam!Goto(a, "failed") /\ "failed" \in Pcs
      BY <1>1 DEF Steam!Respond, Pcs
    <2>3. AttemptTrue(a)'
      <3>1. u \notin users'
        BY <1>3 DEF Steam!Deleted
      <3> QED
        BY <1>1, <2>2, <3>1, GoingOnKeepsTypes DEF AttemptTrue, Drawn, Steam!Linked,
             BeforeAccount, BeforeIdentity
    <2>4. /\ cookie' \in [Browsers -> Cookies \cup {None}]
          /\ \A b \in Browsers : cookie'[b] \in {cookie[b], None}
      BY <1>1 DEF Steam!Respond
    <2>5. /\ attempt' \in [Attempts -> AttemptRows]
          /\ \A x \in Attempts : \/ attempt'[x] = attempt[x]
                           \/ /\ AttemptTrue(x)' /\ attempt'[x].pc # "idle"
                              /\ attempt'[x].intent = attempt[x].intent
                              /\ attempt'[x].created = attempt[x].created
                              /\ attempt'[x].user = attempt[x].user /\ attempt[x].user = u
      BY <2>2, <2>3, GoingOnKeepsTypes
    <2> HIDE DEF u
    <2> QED
      BY <1>1, <1>3, <2>1, <2>4, <2>5, DeletingKeepsSteam
  <1> QED
    BY <1>2, <1>3 DEF Steam!Cleanup

LEMMA RemovalKeepsSteam ==
  ASSUME SteamAssumed, SteamInv, NEW u \in NewUsers, Steam!RemoveOrphan(u)
  PROVE  SteamInv'
  <1>1. /\ Steam!Deleted(u) /\ ~Steam!Linked(u)
        /\ UNCHANGED <<email, cookie, session, attempt, started, via, left, unsure>>
    BY DEF Steam!RemoveOrphan, Steam!auxiliary
  <1>2. attempt \in [Attempts -> AttemptRows] /\ cookie \in [Browsers -> Cookies \cup {None}]
    BY DEF SteamInv, AccountTypeOK
  <1> QED
    BY <1>1, <1>2, DeletingKeepsSteam

\* A browser begins: its cookie is that of the new start, whatever it held.
LEMMA StartKeepsSteam ==
  ASSUME SteamAssumed, SteamInv, NEW a \in Attempts, NEW b \in Browsers,
         NEW intent \in Steam!Intents, Steam!Start(a, b, intent)
  PROVE  SteamInv'
  <1> DEFINE written == [state |-> a, intent |-> intent]
  <1>1. /\ attempt[a].pc = "idle" /\ AttemptTrue(a) /\ attempt[a] \in AttemptRows
        /\ attempt \in [Attempts -> AttemptRows] /\ cookie \in [Browsers -> Cookies \cup {None}]
        /\ started \in [Attempts -> Steam!Intents \cup {None}]
        /\ attempt' = [attempt EXCEPT ![a].pc = "steam", ![a].browser = b]
        /\ cookie' = [cookie EXCEPT ![b] = written]
        /\ started' = [started EXCEPT ![a] = intent]
        /\ UNCHANGED <<users, email, identities, session, via, unsure, left>>
    BY DEF Steam!Start, Steam!At, SteamInv, AccountTypeOK, Steam!database
  <1>2. attempt' \in [Attempts -> AttemptRows]
    <2>1. "steam" \in Pcs
      BY DEF Pcs
    <2>2. [attempt[a] EXCEPT !.pc = "steam", !.browser = b] \in AttemptRows
      BY <1>1, <2>1 DEF AttemptRows
    <2> QED
      BY <1>1, <2>2
  <1>3. /\ \A x \in Attempts \ {a} : attempt'[x] = attempt[x]
        /\ attempt'[a].pc = "steam" /\ attempt'[a].browser = b
        /\ attempt'[a].user = attempt[a].user /\ attempt'[a].intent = attempt[a].intent
        /\ attempt'[a].created = attempt[a].created /\ attempt'[a].persisted = attempt[a].persisted
    BY <1>1 DEF AttemptRows
  <1>4. /\ written \in Cookies /\ written.state = a /\ written.intent = intent
        /\ cookie' \in [Browsers -> Cookies \cup {None}] /\ cookie'[b] = written
        /\ \A c \in Browsers : c # b => cookie'[c] = cookie[c]
    BY <1>1 DEF Cookies
  <1> HIDE DEF written
  <1>5. /\ started' \in [Attempts -> Steam!Intents \cup {None}] /\ started'[a] = intent
        /\ \A x \in Attempts \ {a} : started'[x] = started[x]
    BY <1>1
  <1>6. AccountTypeOK'
    BY <1>1, <1>2, <1>4, <1>5 DEF SteamInv, AccountTypeOK
  <1>7. UsersTrue'
    BY <1>1 DEF SteamInv, UsersTrue, Drawn
  <1>8. ~attempt'[a].created /\ attempt'[a].intent = None
    BY <1>1, <1>3 DEF AttemptTrue, BeforeAccount
  <1>9. OneMaker'
    BY <1>3, <1>8 DEF SteamInv, OneMaker
  <1>10. ASSUME NEW x \in Attempts
         PROVE  AttemptTrue(x)'
    <2>1. CASE x = a
      <3>1. /\ attempt[a].user = None /\ ~attempt[a].persisted /\ Drawn(None)
        BY <1>1 DEF AttemptTrue, BeforeAccount
      <3> QED
        BY <1>1, <1>3, <1>8, <2>1, <3>1 DEF AttemptTrue, Drawn, Steam!Linked, BeforeAccount,
             BeforeIdentity, Steam!Intents, SteamAssumed, Steam!UsersAssumption
    <2>2. CASE x # a
      BY <1>1, <1>3, <2>2, AttemptStays
    <2> QED
      BY <2>1, <2>2
  <1>11. ASSUME NEW c \in Browsers
         PROVE  (CookieTrue(c) /\ SessionTrue(c))'
    <2>1. SessionTrue(c)'
      BY <1>1 DEF SteamInv, SessionTrue, Drawn
    <2>2. CASE c = b
      BY <1>3, <1>4, <1>5, <2>1, <2>2 DEF CookieTrue
    <2>3. CASE c # b
      <3>1. cookie[c] # None => /\ cookie[c].state \in Attempts
                                /\ attempt[cookie[c].state].pc # "idle"
                                /\ cookie[c].intent = started[cookie[c].state]
        BY <1>1 DEF SteamInv, CookieTrue, Cookies
      <3>2. cookie[c] # None => cookie[c].state # a
        BY <1>1, <3>1
      <3>3. CookieTrue(c)'
        BY <1>3, <1>4, <1>5, <2>3, <3>1, <3>2 DEF CookieTrue
      <3> QED
        BY <2>1, <3>3
    <2> QED
      BY <2>2, <2>3
  <1>12. (Steam!SteamNamesTheUser /\ Steam!SignedInIsKept)'
    BY <1>1 DEF SteamInv, Steam!AccountsHold, Steam!SteamNamesTheUser, Steam!SignedInIsKept
  <1>13. Steam!OrphanHasCause'
    <2>1. \A x \in Attempts, u \in users : Steam!Holds(x, u) => Steam!Holds(x, u)'
      BY <1>1, <1>3 DEF Steam!Holds
    <2> QED
      BY <1>1, <2>1 DEF SteamInv, Steam!AccountsHold, Steam!OrphanHasCause, Steam!Linked
  <1>14. Steam!IntentIsKept'
    BY <1>3, <1>5, <1>8 DEF SteamInv, Steam!AccountsHold, Steam!IntentIsKept
  <1> QED
    BY <1>6, <1>7, <1>9, <1>10, <1>11, <1>12, <1>13, <1>14 DEF SteamInv, Steam!AccountsHold

\* The cookie runs out, or the browser signs out.
LEMMA BrowserKeepsSteam ==
  ASSUME SteamAssumed, SteamInv, NEW b \in Browsers, Steam!Expire(b) \/ Steam!Logout(b)
  PROVE  SteamInv'
  <1>1. /\ cookie \in [Browsers -> Cookies \cup {None}]
        /\ session \in [Browsers -> Steam!UserIds \cup {None}]

        /\ via \in [Browsers -> SteamIds \cup {None}]
    BY DEF SteamInv, AccountTypeOK
  <1>2. /\ UNCHANGED <<users, email, identities, attempt, started, left, unsure>>
        /\ cookie' \in [Browsers -> Cookies \cup {None}]
        /\ session' \in [Browsers -> Steam!UserIds \cup {None}]
        /\ via' \in [Browsers -> SteamIds \cup {None}]
        /\ \A c \in Browsers : /\ cookie'[c] \in {cookie[c], None}
                             /\ \/ session'[c] = session[c] /\ via'[c] = via[c]
                                \/ session'[c] = None /\ via'[c] = None
    BY <1>1 DEF Steam!Expire, Steam!Logout, Steam!database, Steam!auxiliary
  <1>3. AccountTypeOK' /\ UsersTrue' /\ OneMaker'
    BY <1>2 DEF SteamInv, AccountTypeOK, UsersTrue, Drawn, OneMaker
  <1>4. \A x \in Attempts : AttemptTrue(x)'
    BY <1>2, AttemptStays
  <1>5. ASSUME NEW c \in Browsers
        PROVE  (CookieTrue(c) /\ SessionTrue(c))'
    <2>1. CookieTrue(c)'
      BY <1>2 DEF SteamInv, CookieTrue
    <2>2. SessionTrue(c)'
      BY <1>2 DEF SteamInv, SessionTrue, Drawn, SteamAssumed, Steam!UsersAssumption
    <2> QED
      BY <2>1, <2>2
  <1>6. (Steam!SteamNamesTheUser /\ Steam!SignedInIsKept)'
    BY <1>2 DEF SteamInv, Steam!AccountsHold, Steam!SteamNamesTheUser, Steam!SignedInIsKept
  <1>7. (Steam!OrphanHasCause /\ Steam!IntentIsKept)'
    BY <1>2 DEF SteamInv, Steam!AccountsHold, Steam!OrphanHasCause, Steam!IntentIsKept,
         Steam!Linked, Steam!Holds
  <1> QED
    BY <1>3, <1>4, <1>5, <1>6, <1>7 DEF SteamInv, Steam!AccountsHold

LEMMA StepsKeepSteam ==
  ASSUME SteamAssumed, SteamInv, [Steam!Next]_(Steam!vars)
  PROVE  SteamInv'
  <1>1. CASE UNCHANGED Steam!vars
    BY <1>1 DEF Steam!vars, Steam!database, Steam!auxiliary, SteamInv, AccountTypeOK, UsersTrue,
         OneMaker, CookieTrue, SessionTrue, AttemptTrue, Drawn, Steam!Linked, Steam!AccountsHold,
         Steam!SteamNamesTheUser, Steam!SignedInIsKept, Steam!OrphanHasCause, Steam!IntentIsKept,
         Steam!Holds
  <1>2. CASE Steam!Next
    BY <1>2, StartKeepsSteam, CallbackKeepsSteam, ReadFailsKeepsSteam, FindKeepsSteam,
         CreateKeepsSteam, ProfileKeepsSteam, SaveKeepsSteam, UpdateKeepsSteam, SessionKeepsSteam,
         CleanupKeepsSteam, CrashKeepsSteam, BrowserKeepsSteam, RemovalKeepsSteam DEF Steam!Next
  <1> QED
    BY <1>1, <1>2

\* The callback of Steam, whatever other starts, links, failures and clean-ups
\* come between its calls: a Steam account leads to one user, nobody who signed
\* in is deleted, and nobody made for an account is left over without a cause.
THEOREM AccountsStayTrue ==
  ASSUME SteamAssumed
  PROVE  Steam!Spec => []AccountsHold
  <1>1. Steam!Init => SteamInv
    BY SteamInvHoldsAtFirst
  <1>2. SteamInv /\ [Steam!Next]_(Steam!vars) => SteamInv'
    BY StepsKeepSteam
  <1>3. SteamInv => AccountsHold
    BY DEF SteamInv, AccountsHold
  <1> QED
    BY <1>1, <1>2, <1>3, PTL DEF Steam!Spec

-----------------------------------------------------------------------------
(* The card of the devices on the account page.                            *)

Changes == {"code", "revoke", "revokeReload", "claim", "invite"}
RequestKinds == Changes \cup {"none", "reload"}
ListedRows == [device : Devices, waiting : BOOLEAN,
               members : SUBSET (CardPlayers \X {None, "me", "other"})]
Arguments == Devices \cup CardPlayers \cup {None}
CardData == (SUBSET ListedRows) \cup Nat \cup {None}
CardReplies == [ok : BOOLEAN, data : CardData]
CardRequests == [kind : RequestKinds, arg : Arguments, state : {"sent", "answered"},
                 reply : CardReplies]
CardPages == [shown : SUBSET ListedRows, pairing : Nat, pending : BOOLEAN,
              error : RequestKinds, gone : BOOLEAN, removed : SUBSET Arguments]

CardTypeOK ==
  /\ active \in SUBSET Devices /\ synced \in SUBSET Devices
  /\ bound \in [CardPlayers -> {None, "me", "other"}]
  /\ issued \in Nat /\ lost \in SUBSET Nat
  /\ requests \in [Slots -> CardRequests]
  /\ page \in CardPages

Answered(s) == requests[s].state = "answered" /\ requests[s].reply.ok

ListsTrue ==
  \A s \in Slots : requests[s].kind \in {"reload", "revokeReload"} /\ Answered(s) =>
    requests[s].reply.data \in SUBSET ListedRows

\* The buttons are disabled while a change is under way: there is one at most.
OneChange ==
  \A s, t \in Slots : requests[s].kind \in Changes /\ requests[t].kind \in Changes => s = t

PendingTrue == ~page.gone => (page.pending <=> \E s \in Slots : requests[s].kind \in Changes)

\* The reply that is on its way has the last code, which the page does not have.
CodesTrue ==
  /\ page.pairing <= issued /\ page.pairing \notin lost
  /\ \A c \in lost : c <= issued
  /\ \A s \in Slots : requests[s].kind = "code" /\ Answered(s) =>
       /\ requests[s].reply.data = issued
       /\ page.pairing < issued /\ issued \notin lost
  /\ \A c \in (page.pairing + 1)..issued :
       \/ c \in lost
       \/ \E s \in Slots : requests[s].kind = "code" /\ Answered(s) /\ requests[s].reply.data = c

OnePlayer == \A p, q \in CardPlayers : bound[p] = "me" /\ bound[q] = "me" => p = q

CardInv == CardTypeOK /\ ListsTrue /\ OneChange /\ PendingTrue /\ CodesTrue /\ OnePlayer

OthersKept == \A p \in CardPlayers : bound[p] = "other" => bound'[p] = "other"

LEMMA IdleIsARequest ==
  /\ Card!Idle \in CardRequests /\ Card!Idle.kind = "none"
  /\ Card!Idle.state = "sent" /\ ~Card!Idle.reply.ok
  /\ Card!Failure \in CardReplies /\ ~Card!Failure.ok
  <1>1. Card!Failure \in CardReplies /\ ~Card!Failure.ok
    <2>1. None \in CardData
      BY DEF CardData
    <2> QED
      BY <2>1 DEF Card!Failure, CardReplies
  <1>2. None \in Arguments /\ "none" \in RequestKinds
    BY DEF Arguments, RequestKinds
  <1> QED
    BY <1>1, <1>2 DEF Card!Idle, CardRequests

LEMMA SentIsARequest ==
  ASSUME NEW kind \in RequestKinds, NEW arg \in Arguments
  PROVE  LET row == [Card!Idle EXCEPT !.kind = kind, !.arg = arg]
         IN /\ row \in CardRequests /\ row.kind = kind /\ row.arg = arg /\ row.state = "sent"
            /\ ~row.reply.ok
BY IdleIsARequest DEF CardRequests, Card!Idle

\* A button is pressed that changes something.
LEMMA SendKeepsCard ==
  ASSUME CardInv, NEW kind \in Changes \cup {"reload"}, NEW arg \in Arguments, Card!Send(kind, arg),
         UNCHANGED <<Card!server, lost>>,
         page' \in CardPages,
         page'.pairing = page.pairing, page'.gone = page.gone,
         kind \in Changes => ~page.gone /\ ~page.pending /\ page'.pending,
         kind = "reload" => page'.pending = page.pending
  PROVE  CardInv' /\ OthersKept
  <1> PICK s \in Slots :
        /\ requests[s].kind = "none"
        /\ requests' = [requests EXCEPT ![s] = [Card!Idle EXCEPT !.kind = kind, !.arg = arg]]
    BY DEF Card!Send
  <1> DEFINE row == [Card!Idle EXCEPT !.kind = kind, !.arg = arg]
  <1>1. /\ row \in CardRequests /\ row.kind = kind /\ row.state = "sent"
    BY SentIsARequest DEF RequestKinds
  <1> HIDE DEF row
  <1>2. /\ requests' \in [Slots -> CardRequests] /\ requests'[s] = row
        /\ \A t \in Slots : t # s => requests'[t] = requests[t]
    BY <1>1 DEF CardInv, CardTypeOK, row
  <1>3. UNCHANGED <<active, synced, bound, issued, lost>>
    BY DEF Card!server
  <1>4. CardTypeOK'
    BY <1>2, <1>3 DEF CardInv, CardTypeOK
  <1>5. ListsTrue'
    BY <1>1, <1>2 DEF CardInv, ListsTrue, Answered
  <1>6. OneChange' /\ PendingTrue'
    BY <1>1, <1>2 DEF CardInv, OneChange, PendingTrue, Changes
  <1>7. CodesTrue'
    BY <1>1, <1>2, <1>3 DEF CardInv, CodesTrue, Answered
  <1>8. OnePlayer' /\ OthersKept
    BY <1>3 DEF CardInv, OnePlayer, OthersKept
  <1> QED
    BY <1>4, <1>5, <1>6, <1>7, <1>8 DEF CardInv

LEMMA ButtonsKeepCard ==
  ASSUME CardInv,
         \/ Card!CreateCode \/ Card!ClickRevoke \/ Card!ClickClaim
         \/ Card!ClickInvite \/ Card!Refresh
  PROVE  CardInv' /\ OthersKept
  <1>0. page \in CardPages
    BY DEF CardInv, CardTypeOK
  <1>1. /\ Card!Begun \in CardPages /\ Card!Begun.pending /\ Card!Begun.pairing = page.pairing
        /\ Card!Begun.gone = page.gone
    BY <1>0 DEF Card!Begun, CardPages, RequestKinds
  <1>2. /\ [page EXCEPT !.pending = TRUE] \in CardPages
        /\ [page EXCEPT !.pending = TRUE].pending
        /\ [page EXCEPT !.pending = TRUE].pairing = page.pairing
        /\ [page EXCEPT !.pending = TRUE].gone = page.gone
    BY <1>0 DEF CardPages
  <1>3. CASE Card!CreateCode
    <2>1. /\ Card!Send("code", None) /\ page' = Card!Begun /\ UNCHANGED <<Card!server, lost>>
          /\ ~page.gone /\ ~page.pending /\ None \in Arguments
          /\ "code" \in Changes /\ "code" # "reload"
      BY <1>3 DEF Card!CreateCode, Card!AddEnabled, Arguments, Changes
    <2> QED
      BY <1>1, <2>1, SendKeepsCard
  <1>4. CASE Card!ClickRevoke
    <2> PICK d \in Devices : /\ \E row \in page.shown : Card!RevokeEnabled(row) /\ row.device = d
                            /\ Card!Send("revoke", d)
      BY <1>4 DEF Card!ClickRevoke
    <2>1. /\ page' = [page EXCEPT !.pending = TRUE] /\ UNCHANGED <<Card!server, lost>>
          /\ ~page.gone /\ ~page.pending /\ d \in Arguments
          /\ "revoke" \in Changes /\ "revoke" # "reload"
      BY <1>4 DEF Card!ClickRevoke, Card!RevokeEnabled, Arguments, Changes
    <2> QED
      BY <1>2, <2>1, SendKeepsCard
  <1>5. CASE Card!ClickClaim
    <2> PICK p \in CardPlayers : Card!ClaimEnabled(<<p, None>>) /\ Card!Send("claim", p)
      BY <1>5 DEF Card!ClickClaim
    <2>1. /\ page' = Card!Begun /\ UNCHANGED <<Card!server, lost>>
          /\ ~page.gone /\ ~page.pending /\ p \in Arguments
          /\ "claim" \in Changes /\ "claim" # "reload"
      BY <1>5 DEF Card!ClickClaim, Card!ClaimEnabled, Arguments, Changes
    <2> QED
      BY <1>1, <2>1, SendKeepsCard
  <1>6. CASE Card!ClickInvite
    <2> PICK row \in page.shown : Card!InviteEnabled(row) /\ Card!Send("invite", row.device)
      BY <1>6 DEF Card!ClickInvite
    <2>1. row.device \in Devices
      BY <1>0 DEF CardPages, ListedRows
    <2>2. /\ page' = Card!Begun /\ UNCHANGED <<Card!server, lost>>
          /\ ~page.gone /\ ~page.pending /\ row.device \in Arguments
          /\ "invite" \in Changes /\ "invite" # "reload"
      BY <1>6, <2>1 DEF Card!ClickInvite, Card!InviteEnabled, Arguments, Changes
    <2> QED
      BY <1>1, <2>2, SendKeepsCard
  <1>7. CASE Card!Refresh
    <2>1. /\ Card!Send("reload", None) /\ UNCHANGED <<Card!server, lost>> /\ page' = page
          /\ None \in Arguments /\ "reload" \notin Changes
      BY <1>7 DEF Card!Refresh, Arguments, Changes
    <2> QED
      BY <1>0, <2>1, SendKeepsCard
  <1> QED
    BY <1>3, <1>4, <1>5, <1>6, <1>7

\* The Card!server answers a request, and has done at most what it asks.
LEMMA AnswerKeepsCard ==
  ASSUME CardInv, NEW s \in Slots, NEW ok \in BOOLEAN, NEW data \in CardData,
         Card!Answer(s, ok, data), page' = page,
         requests[s].kind # "none", requests[s].state = "sent" \/ ~ok,
         active' \in SUBSET Devices, synced' = synced,
         bound' \in [CardPlayers -> {None, "me", "other"}],
         requests[s].kind \in {"reload", "revokeReload"} /\ ok => data \in SUBSET ListedRows,
         requests[s].kind # "code" \/ ~ok => issued' = issued,
         requests[s].kind = "code" /\ ok => issued' = issued + 1 /\ data = issued',
         requests[s].kind = "code" /\ Answered(s) =>
           lost' = lost \cup {requests[s].reply.data},
         requests[s].kind # "code" \/ ~Answered(s) => lost' = lost,
         OnePlayer'
  PROVE  CardInv'
  <1> DEFINE reply == [ok |-> ok, data |-> data]
             row == [requests[s] EXCEPT !.state = "answered", !.reply = reply]
  <1>0. requests[s] \in CardRequests /\ requests \in [Slots -> CardRequests] /\ issued \in Nat
    BY DEF CardInv, CardTypeOK
  <1>1. /\ row \in CardRequests /\ row.kind = requests[s].kind /\ row.state = "answered"
        /\ row.reply.ok = ok /\ row.reply.data = data
    <2>1. reply \in CardReplies /\ reply.ok = ok /\ reply.data = data
      BY DEF CardReplies
    <2> HIDE DEF reply
    <2> QED
      BY <1>0, <2>1 DEF CardRequests
  <1>2. requests' = [requests EXCEPT ![s] = row]
    BY <1>0 DEF Card!Answer
  <1> HIDE DEF row
  <1>3. /\ requests' \in [Slots -> CardRequests] /\ requests'[s] = row
        /\ \A t \in Slots : t # s => requests'[t] = requests[t]
    BY <1>0, <1>1, <1>2
  <1>4. issued' \in Nat /\ issued' >= issued
    BY <1>0, <1>1
  <1>5. lost' \in SUBSET Nat /\ (\A c \in lost' : c <= issued) /\ page.pairing \notin lost'
    <2>1. lost \in SUBSET Nat /\ page.pairing \in Nat
      BY DEF CardInv, CardTypeOK, CardPages
    <2>2. CASE lost' = lost
      BY <2>1, <2>2 DEF CardInv, CodesTrue
    <2>3. CASE requests[s].kind = "code" /\ Answered(s)
      <3>1. /\ requests[s].reply.data = issued /\ page.pairing < issued
            /\ page.pairing \notin lost /\ \A c \in lost : c <= issued
        BY <2>3 DEF CardInv, CodesTrue
      <3>2. lost' = lost \cup {issued}
        BY <2>3, <3>1
      <3>3. lost' \in SUBSET Nat /\ \A c \in lost' : c <= issued
        BY <1>0, <2>1, <3>1, <3>2
      <3>4. page.pairing \notin lost'
        BY <1>0, <2>1, <3>1, <3>2
      <3> QED
        BY <3>3, <3>4
    <2> QED
      BY <2>2, <2>3
  <1>6. CardTypeOK'
    BY <1>3, <1>4, <1>5 DEF CardInv, CardTypeOK
  <1>7. ListsTrue'
    BY <1>1, <1>3 DEF CardInv, ListsTrue, Answered
  <1>8. OneChange' /\ PendingTrue'
    BY <1>1, <1>3 DEF CardInv, OneChange, PendingTrue
  <1>9. CodesTrue'
    <2>0. page.pairing \in Nat /\ page'.pairing = page.pairing
      BY DEF CardInv, CardTypeOK, CardPages
    <2>1. page'.pairing <= issued' /\ page'.pairing \notin lost' /\ \A c \in lost' : c <= issued'
      BY <1>0, <1>4, <1>5, <2>0 DEF CardInv, CodesTrue
    <2>2. ASSUME NEW t \in Slots, requests'[t].kind = "code", Answered(t)'
          PROVE  requests'[t].reply.data = issued' /\ page.pairing < issued' /\ issued' \notin lost'
      <3>1. CASE t = s
        <4>1. requests[s].kind = "code" /\ ok /\ issued' = issued + 1 /\ data = issued'
          BY <1>1, <1>3, <2>2, <3>1 DEF Answered
        <4>2. page.pairing < issued' /\ issued' \notin lost'
          BY <1>0, <1>5, <2>0, <4>1 DEF CardInv, CodesTrue
        <4> QED
          BY <1>1, <1>3, <3>1, <4>1, <4>2
      <3>2. CASE t # s
        <4>1. requests'[t] = requests[t] /\ requests[t].kind = "code" /\ Answered(t)
          BY <1>3, <2>2, <3>2 DEF Answered
        <4>2. requests[s].kind # "code"
          BY <3>2, <4>1 DEF CardInv, OneChange, Changes
        <4> QED
          BY <4>1, <4>2 DEF CardInv, CodesTrue
      <3> QED
        BY <3>1, <3>2
    <2>3. ASSUME NEW c \in (page.pairing + 1)..issued'
          PROVE  \/ c \in lost'
                 \/ \E t \in Slots : requests'[t].kind = "code" /\ Answered(t)'
                                     /\ requests'[t].reply.data = c
      <3>1. CASE c > issued
        <4>1. requests[s].kind = "code" /\ ok /\ issued' = issued + 1 /\ data = issued' /\ c = data
          BY <1>0, <2>0, <3>1
        <4> QED
          BY <1>1, <1>3, <4>1 DEF Answered
      <3>2. CASE c \in lost
        BY <3>2
      <3>3. CASE c <= issued /\ c \notin lost
        <4> PICK t \in Slots :
              requests[t].kind = "code" /\ Answered(t) /\ requests[t].reply.data = c
          BY <1>0, <2>0, <3>3 DEF CardInv, CodesTrue
        <4>1. CASE t = s
          BY <4>1
        <4>2. CASE t # s
          BY <1>3, <4>2 DEF Answered
        <4> QED
          BY <4>1, <4>2
      <3> QED
        BY <1>0, <2>0, <3>1, <3>2, <3>3
    <2> QED
      BY <2>0, <2>1, <2>2, <2>3 DEF CodesTrue
  <1> QED
    BY <1>6, <1>7, <1>8, <1>9 DEF CardInv

LEMMA ServerKeepsCard ==
  ASSUME Card!NobodyAssumption, CardInv, NEW s \in Slots, Card!Serve(s) \/ Card!Lose(s), UNCHANGED page
  PROVE  CardInv' /\ OthersKept
  <1>0. /\ requests[s] \in CardRequests /\ issued \in Nat /\ active \in SUBSET Devices
        /\ bound \in [CardPlayers -> {None, "me", "other"}] /\ OnePlayer
        /\ None \in CardData
    BY DEF CardInv, CardTypeOK, CardData
  <1>1. CASE Card!ServeList(s)
    <2>1. Card!Listed \in SUBSET ListedRows
      <3>1. {<<p, bound[p]>> : p \in CardPlayers} \in SUBSET (CardPlayers \X {None, "me", "other"})
        BY <1>0
      <3>2. {} \in SUBSET (CardPlayers \X {None, "me", "other"})
        OBVIOUS
      <3>3. ASSUME NEW d \in active
            PROVE  [device |-> d, waiting |-> d \notin synced,
                    members |-> IF d \in synced THEN {<<p, bound[p]>> : p \in CardPlayers} ELSE {}]
                     \in ListedRows
        <4>1. d \in Devices /\ (d \notin synced) \in BOOLEAN
          BY <1>0, <3>3
        <4>2. CASE d \in synced
          BY <3>1, <4>1, <4>2 DEF ListedRows
        <4>3. CASE d \notin synced
          BY <3>2, <4>1, <4>3 DEF ListedRows
        <4> QED
          BY <4>2, <4>3
      <3> QED
        BY <3>3 DEF Card!Listed
    <2>2. Card!Listed \in CardData
      BY <2>1 DEF CardData
    <2>3. /\ Card!Answer(s, TRUE, Card!Listed) /\ requests[s].kind \in {"reload", "revokeReload"}
          /\ requests[s].state = "sent"
          /\ UNCHANGED <<active, gone, synced, bound, issued, lost>>
      BY <1>1 DEF Card!ServeList, Card!Waiting, Card!server
    <2>4. OnePlayer' /\ OthersKept /\ ~Answered(s)
      BY <1>0, <2>3 DEF OnePlayer, OthersKept, Answered
    <2> QED
      BY <1>0, <2>1, <2>2, <2>3, <2>4, AnswerKeepsCard
  <1>2. CASE Card!ServeCode(s)
    <2>1. /\ issued' = issued + 1 /\ Card!Answer(s, TRUE, issued') /\ requests[s].kind = "code"
          /\ requests[s].state = "sent" /\ UNCHANGED <<active, gone, synced, bound, lost>>
      BY <1>2 DEF Card!ServeCode, Card!Waiting
    <2>2. issued' \in CardData
      BY <1>0, <2>1 DEF CardData
    <2>3. OnePlayer' /\ OthersKept /\ ~Answered(s)
      BY <1>0, <2>1 DEF OnePlayer, OthersKept, Answered
    <2> QED
      BY <1>0, <2>1, <2>2, <2>3, AnswerKeepsCard
  <1>3. CASE Card!ServeRevoke(s)
    <2>1. /\ Card!Answer(s, TRUE, None) /\ requests[s].kind = "revoke" /\ requests[s].state = "sent"
          /\ active' \in SUBSET Devices /\ UNCHANGED <<synced, bound, issued, lost>>
      BY <1>0, <1>3 DEF Card!ServeRevoke, Card!Waiting
    <2>2. OnePlayer' /\ OthersKept /\ ~Answered(s)
      BY <1>0, <2>1 DEF OnePlayer, OthersKept, Answered
    <2> QED
      BY <1>0, <2>1, <2>2, AnswerKeepsCard
  <1>4. CASE Card!ServeClaim(s)
    <2> DEFINE p == requests[s].arg
               ok == active \cap synced # {} /\ bound[p] # "other"
    <2>1. /\ Card!Answer(s, ok, None) /\ requests[s].kind = "claim" /\ requests[s].state = "sent"
          /\ bound' = IF ok THEN [q \in CardPlayers |-> IF q = p THEN "me" ELSE
                                   IF bound[q] = "me" THEN None ELSE bound[q]]
                            ELSE bound
          /\ UNCHANGED <<active, gone, synced, issued, lost>>
      BY <1>4 DEF Card!ServeClaim, Card!Waiting
    <2>2. /\ bound' \in [CardPlayers -> {None, "me", "other"}]
          /\ OnePlayer' /\ OthersKept
      BY <1>0, <2>1 DEF Card!NobodyAssumption, OnePlayer, OthersKept
    <2>3. ~Answered(s) /\ ok \in BOOLEAN
      BY <2>1 DEF Answered
    <2> HIDE DEF ok
    <2> QED
      BY <1>0, <2>1, <2>2, <2>3, AnswerKeepsCard
  <1>5. CASE Card!ServeInvite(s)
    <2> DEFINE ok == requests[s].arg \in active \cap synced
    <2>1. /\ Card!Answer(s, ok, None) /\ requests[s].kind = "invite" /\ requests[s].state = "sent"
          /\ UNCHANGED <<active, gone, synced, bound, issued, lost>>
      BY <1>5 DEF Card!ServeInvite, Card!Waiting, Card!server
    <2>2. OnePlayer' /\ OthersKept /\ ~Answered(s) /\ ok \in BOOLEAN
      BY <1>0, <2>1 DEF OnePlayer, OthersKept, Answered
    <2> HIDE DEF ok
    <2> QED
      BY <1>0, <2>1, <2>2, AnswerKeepsCard
  <1>6. CASE Card!Lose(s)
    <2>1. /\ requests' = [requests EXCEPT ![s].state = "answered", ![s].reply = Card!Failure]
          /\ requests[s].kind # "none"
          /\ requests[s].state = "sent" \/ Answered(s)
          /\ lost' = IF requests[s].kind = "code" /\ requests[s].state = "answered"
                     THEN lost \cup {requests[s].reply.data} ELSE lost
          /\ UNCHANGED <<active, gone, synced, bound, issued>>
      BY <1>0, <1>6 DEF Card!Lose, Card!server, Answered, CardRequests
    <2>2. Card!Answer(s, FALSE, None)
      BY <2>1 DEF Card!Answer, Card!Failure
    <2>3. OnePlayer' /\ OthersKept
      BY <1>0, <2>1 DEF OnePlayer, OthersKept
    <2>4. /\ requests[s].kind = "code" /\ Answered(s) =>
               lost' = lost \cup {requests[s].reply.data}
          /\ requests[s].kind # "code" \/ ~Answered(s) => lost' = lost
      BY <1>0, <2>1 DEF Answered, CardRequests
    <2> QED
      BY <1>0, <2>1, <2>2, <2>3, <2>4, AnswerKeepsCard
  <1> QED
    BY <1>1, <1>2, <1>3, <1>4, <1>5, <1>6 DEF Card!Serve

\* The page takes a reply: the change it is of is over, or goes on.
LEMMA ReceiptKeepsCard ==
  ASSUME CardInv, NEW s \in Slots, NEW row \in CardRequests,
         row.state = "sent", row.kind # "code",
         requests' = [requests EXCEPT ![s] = row],
         UNCHANGED <<Card!server, lost>>,
         page' \in CardPages,
         \/ page'.gone
         \/ /\ ~page.gone
            /\ requests[s].kind \in Changes /\ row.kind \notin Changes
            /\ ~page'.pending
         \/ /\ ~page.gone
            /\ (requests[s].kind \in Changes) <=> (row.kind \in Changes)
            /\ page'.pending = page.pending,
         row.kind \in Changes => requests[s].kind \in Changes,
         page'.pairing =
           IF requests[s].kind = "code" /\ Answered(s) THEN issued ELSE page.pairing
  PROVE  CardInv' /\ OthersKept
  <1>1. /\ requests' \in [Slots -> CardRequests] /\ requests'[s] = row
        /\ \A t \in Slots : t # s => requests'[t] = requests[t]
    BY DEF CardInv, CardTypeOK
  <1>2. UNCHANGED <<active, synced, bound, issued, lost>>
    BY DEF Card!server
  <1>3. CardTypeOK'
    BY <1>1, <1>2 DEF CardInv, CardTypeOK
  <1>4. ListsTrue'
    BY <1>1 DEF CardInv, ListsTrue, Answered
  <1>5. OneChange'
    BY <1>1 DEF CardInv, OneChange
  <1>6. PendingTrue'
    BY <1>1 DEF CardInv, OneChange, PendingTrue
  <1>7. CodesTrue'
    <2>0. issued \in Nat /\ page.pairing \in Nat
      BY DEF CardInv, CardTypeOK, CardPages
    <2>1. CASE requests[s].kind = "code" /\ Answered(s)
      <3>1. issued \notin lost /\ page'.pairing = issued
        BY <2>1 DEF CardInv, CodesTrue
      <3>2. \A t \in Slots : requests'[t].kind # "code"
        BY <1>1, <2>1 DEF CardInv, OneChange, Changes
      <3> QED
        BY <1>2, <2>0, <3>1, <3>2 DEF CardInv, CodesTrue
    <2>2. CASE ~(requests[s].kind = "code" /\ Answered(s))
      <3>1. page'.pairing = page.pairing
        BY <2>2
      <3>2. \A t \in Slots : requests'[t].kind = "code" /\ Answered(t)'
              <=> requests[t].kind = "code" /\ Answered(t)
        BY <1>1, <2>2 DEF Answered
      <3>3. \A t \in Slots : requests[t].kind = "code" /\ Answered(t) => requests'[t] = requests[t]
        BY <1>1, <2>2
      <3> QED
        BY <1>2, <3>1, <3>2, <3>3 DEF CardInv, CodesTrue
    <2> QED
      BY <2>1, <2>2
  <1>8. OnePlayer' /\ OthersKept
    BY <1>2 DEF CardInv, OnePlayer, OthersKept
  <1> QED
    BY <1>3, <1>4, <1>5, <1>6, <1>7, <1>8 DEF CardInv

LEMMA PageKeepsCard ==
  ASSUME CardInv, NEW s \in Slots, Card!Receive(s)
  PROVE  CardInv' /\ OthersKept
  <1>0. /\ page \in CardPages /\ requests[s] \in CardRequests /\ UNCHANGED <<Card!server, lost>>
        /\ Card!Idle \in CardRequests /\ Card!Idle.state = "sent" /\ Card!Idle.kind = "none"
        /\ "none" # "code" /\ "none" \notin Changes
    BY IdleIsARequest DEF CardInv, CardTypeOK, Card!Receive, Changes
  <1>1. CASE Card!ReceiveList(s)
    <2>1. /\ ~page.gone /\ requests[s].kind = "reload" /\ Answered(s)
          /\ requests' = [requests EXCEPT ![s] = Card!Idle]
          /\ page' = [page EXCEPT !.shown = requests[s].reply.data]
      BY <1>1 DEF Card!ReceiveList, Card!Replied, Card!Done, Answered
    <2>2. requests[s].reply.data \in SUBSET ListedRows /\ "reload" \notin Changes
      BY <2>1 DEF CardInv, ListsTrue, Changes
    <2>3. page' \in CardPages /\ page'.pairing = page.pairing /\ page'.pending = page.pending
      BY <1>0, <2>1, <2>2 DEF CardPages
    <2> QED
      BY <1>0, <2>1, <2>2, <2>3, ReceiptKeepsCard
  <1>2. CASE Card!ReceiveCode(s)
    <2>1. /\ ~page.gone /\ requests[s].kind = "code" /\ Answered(s)
          /\ requests' = [requests EXCEPT ![s] = Card!Idle]
          /\ page' = [page EXCEPT !.pairing = requests[s].reply.data, !.pending = FALSE]
      BY <1>2 DEF Card!ReceiveCode, Card!Replied, Card!Done, Answered
    <2>2. requests[s].reply.data = issued /\ issued \in Nat /\ "code" \in Changes
      BY <2>1 DEF CardInv, CardTypeOK, CodesTrue, Changes
    <2>3. page' \in CardPages /\ page'.pairing = issued /\ ~page'.pending
      BY <1>0, <2>1, <2>2 DEF CardPages
    <2> QED
      BY <1>0, <2>1, <2>2, <2>3, ReceiptKeepsCard
  <1>3. CASE Card!ReceiveRevoked(s)
    <2> DEFINE row == [Card!Idle EXCEPT !.kind = "revokeReload", !.arg = requests[s].arg]
    <2>1. /\ ~page.gone /\ requests[s].kind = "revoke" /\ Answered(s)
          /\ requests' = [requests EXCEPT ![s] = row] /\ page' = page
      BY <1>3 DEF Card!ReceiveRevoked, Card!Replied, Answered
    <2>2. row \in CardRequests /\ row.kind = "revokeReload" /\ row.state = "sent"
      <3>1. requests[s].arg \in Arguments /\ "revokeReload" \in RequestKinds
        BY <1>0 DEF CardRequests, RequestKinds, Changes
      <3> QED
        BY <3>1, IdleIsARequest DEF CardRequests, Card!Idle
    <2>3. "revoke" \in Changes /\ "revokeReload" \in Changes
      BY DEF Changes
    <2> HIDE DEF row
    <2>4. requests[s].kind \in Changes /\ row.kind \in Changes /\ row.kind # "code"
      BY <2>1, <2>2, <2>3
    <2>5. page' \in CardPages /\ page'.pending = page.pending /\ page'.pairing = page.pairing
      BY <1>0, <2>1
    <2> QED
      BY <1>0, <2>1, <2>2, <2>4, <2>5, ReceiptKeepsCard
  <1>4. CASE Card!ReceiveRevokeList(s)
    <2>1. /\ ~page.gone /\ requests[s].kind = "revokeReload" /\ Answered(s)
          /\ requests' = [requests EXCEPT ![s] = Card!Idle]
          /\ page' = [page EXCEPT !.shown = requests[s].reply.data, !.pending = FALSE,
                                  !.removed = @ \cup {requests[s].arg}]
      BY <1>4 DEF Card!ReceiveRevokeList, Card!Replied, Card!Done, Answered
    <2>2. /\ requests[s].reply.data \in SUBSET ListedRows /\ "revokeReload" \in Changes
          /\ requests[s].arg \in Arguments
      BY <1>0, <2>1 DEF CardInv, ListsTrue, Changes, CardRequests
    <2>3. page' \in CardPages /\ page'.pairing = page.pairing /\ ~page'.pending
      BY <1>0, <2>1, <2>2 DEF CardPages
    <2> QED
      BY <1>0, <2>1, <2>2, <2>3, ReceiptKeepsCard
  <1>5. CASE Card!ReceiveClaimed(s)
    <2>1. /\ requests[s].kind = "claim" /\ requests' = [requests EXCEPT ![s] = Card!Idle]
          /\ page' = [page EXCEPT !.gone = TRUE]
      BY <1>5 DEF Card!ReceiveClaimed, Card!Replied, Card!Done
    <2>2. page' \in CardPages /\ page'.pairing = page.pairing /\ page'.gone
      BY <1>0, <2>1 DEF CardPages
    <2> QED
      BY <1>0, <2>1, <2>2, ReceiptKeepsCard
  <1>6. CASE Card!ReceiveInvited(s)
    <2> PICK e \in {"none", "invite"} : page' = [page EXCEPT !.pending = FALSE, !.error = e]
      BY <1>6 DEF Card!ReceiveInvited
    <2>1. /\ ~page.gone /\ requests[s].kind = "invite"
          /\ requests' = [requests EXCEPT ![s] = Card!Idle]
      BY <1>6 DEF Card!ReceiveInvited, Card!Replied, Card!Done
    <2>2. e \in RequestKinds /\ "invite" \in Changes
      BY DEF RequestKinds, Changes
    <2>3. page' \in CardPages /\ page'.pairing = page.pairing /\ ~page'.pending
      BY <1>0, <2>2 DEF CardPages
    <2> QED
      BY <1>0, <2>1, <2>2, <2>3, ReceiptKeepsCard
  <1>7. CASE Card!ReceiveFailure(s)
    <2>1. /\ ~page.gone /\ ~Answered(s)
          /\ requests[s].kind \in RequestKinds
          /\ requests[s].kind \in Changes \/ requests[s].kind = "reload"
          /\ requests' = [requests EXCEPT ![s] = Card!Idle]
          /\ page' = [page EXCEPT !.error = requests[s].kind,
                                  !.pending = @ /\ requests[s].kind = "reload"]
      BY <1>7 DEF Card!ReceiveFailure, Card!Replied, Card!Done, Answered, Changes, RequestKinds
    <2>2. /\ page' \in CardPages /\ page'.pairing = page.pairing
          /\ page'.pending = (page.pending /\ requests[s].kind = "reload")
      BY <1>0, <2>1 DEF CardPages
    <2>3. "reload" \notin Changes /\ page.pending \in BOOLEAN
      BY <1>0 DEF Changes, CardPages
    <2> QED
      BY <1>0, <2>1, <2>2, <2>3, ReceiptKeepsCard
  <1> QED
    BY <1>1, <1>2, <1>3, <1>4, <1>5, <1>6, <1>7 DEF Card!Receive

LEMMA OthersKeepCard ==
  ASSUME Card!NobodyAssumption, CardInv, Card!Elsewhere, UNCHANGED <<lost, requests, page>>
  PROVE  CardInv' /\ OthersKept
  <1>1. CardTypeOK'
    BY DEF Card!Elsewhere, CardInv, CardTypeOK
  <1>2. OnePlayer' /\ OthersKept
    BY DEF Card!Elsewhere, CardInv, CardTypeOK, OnePlayer, OthersKept
  <1>3. ListsTrue' /\ OneChange' /\ PendingTrue'
    BY DEF CardInv, ListsTrue, OneChange, PendingTrue, Answered
  <1>4. CodesTrue'
    BY DEF Card!Elsewhere, CardInv, CodesTrue, Answered
  <1> QED
    BY <1>1, <1>2, <1>3, <1>4 DEF CardInv

LEMMA CardInvHoldsAtFirst ==
  ASSUME Card!NobodyAssumption, Card!Init
  PROVE  CardInv
  <1> PICK s \in Slots :
        requests =
          [r \in Slots |-> IF r = s THEN [Card!Idle EXCEPT !.kind = "reload"] ELSE Card!Idle]
    BY DEF Card!Init
  <1> DEFINE row == [Card!Idle EXCEPT !.kind = "reload"]
  <1>1. row \in CardRequests /\ row.kind = "reload" /\ row.state = "sent"
    BY IdleIsARequest DEF CardRequests, RequestKinds
  <1> HIDE DEF row
  <1>2. /\ requests \in [Slots -> CardRequests]
        /\ \A r \in Slots : requests[r].kind \notin Changes /\ ~Answered(r)
    BY <1>1, IdleIsARequest DEF row, Changes, Answered
  <1>3. /\ page \in CardPages /\ page.pairing = 0 /\ ~page.pending
    BY DEF Card!Init, CardPages, RequestKinds
  <1>4. CardTypeOK
    BY <1>2, <1>3 DEF Card!Init, CardTypeOK
  <1>5. ListsTrue /\ OneChange /\ PendingTrue
    BY <1>2, <1>3 DEF ListsTrue, OneChange, PendingTrue
  <1>6. CodesTrue
    BY <1>2, <1>3 DEF Card!Init, CodesTrue
  <1>7. OnePlayer
    BY DEF Card!Init, Card!NobodyAssumption, OnePlayer
  <1> QED
    BY <1>4, <1>5, <1>6, <1>7 DEF CardInv

LEMMA StepsKeepCard ==
  ASSUME Card!NobodyAssumption, CardInv, [Card!Next]_(Card!vars)
  PROVE  CardInv' /\ (~UNCHANGED Card!vars => OthersKept)
  <1>1. CASE UNCHANGED Card!vars
    BY <1>1 DEF Card!vars, CardInv, CardTypeOK, ListsTrue, OneChange, PendingTrue, CodesTrue,
         OnePlayer, Answered
  <1>2. CASE Card!Next
    BY <1>2, ButtonsKeepCard, ServerKeepsCard, PageKeepsCard, OthersKeepCard DEF Card!Next
  <1> QED
    BY <1>1, <1>2

\* What the page shows of codes and of what is under way.
LEMMA CardTells ==
  ASSUME CardInv
  PROVE  Card!ShownCodeIsLast /\ Card!PendingMeansChange
  <1>1. Card!ShownCodeIsLast
    BY DEF CardInv, CodesTrue, Card!ShownCodeIsLast, Card!UnderWay
  <1>2. Card!PendingMeansChange
    <2> DEFINE changes == Card!UnderWay({"code", "revoke", "revokeReload", "claim", "invite"})
    <2>1. changes = {s \in Slots : requests[s].kind \in Changes}
      BY DEF Card!UnderWay, Changes
    <2>2. \A s, t \in changes : s = t
      BY <2>1 DEF CardInv, OneChange
    <2>3. ~page.gone => (page.pending <=> changes # {})
      BY <2>1 DEF CardInv, PendingTrue
    <2> QED
      BY <2>2, <2>3 DEF Card!PendingMeansChange
  <1> QED
    BY <1>1, <1>2

\* Whatever order the replies come in, and whatever is lost of them: the page has
\* the last code, the buttons wait for the one change that is under way, and a
\* click on an old list takes no player from another account (claim_synced_player).
THEOREM CardStaysTrue ==
  ASSUME Card!NobodyAssumption
  PROVE  Card!Spec => CardIsTrue
  <1> DEFINE Claims == /\ \A p \in CardPlayers : bound[p] = "other" => bound'[p] = "other"
                       /\ \A p, q \in CardPlayers : bound'[p] = "me" /\ bound'[q] = "me" => p = q
  <1>1. Card!Init => CardInv
    BY CardInvHoldsAtFirst
  <1>2. CardInv => Card!ShownCodeIsLast /\ Card!PendingMeansChange
    BY CardTells
  <1>3. CardInv /\ [Card!Next]_(Card!vars) => CardInv' /\ [Claims]_(Card!vars)
    BY StepsKeepCard DEF CardInv, OnePlayer, OthersKept
  <1> HIDE DEF Claims
  <1>4. Card!Spec => [](Card!ShownCodeIsLast /\ Card!PendingMeansChange) /\ [][Claims]_(Card!vars)
    BY <1>1, <1>2, <1>3, PTL DEF Card!Spec
  <1> QED
    BY <1>4 DEF CardIsTrue, Card!CardIsTrue, Card!ClaimTakesNoOthers, Claims
==============================================================================
