----------------------------- MODULE DeviceCard -----------------------------
(***************************************************************************)
(* The "save sync" card of the account page: its buttons, the requests     *)
(* they send and what the page does with the replies.  The buttons that    *)
(* change something are disabled while one of them is pending; the refresh *)
(* button never is, so that reloads overlap with everything else, and a    *)
(* reply may be late, or lost after the server has acted.                  *)
(***************************************************************************)
EXTENDS Naturals

CONSTANTS Devices, Players, Slots, None,
          MaxCodes       \* bound: codes created

\* Nobody stands for no user.
NobodyAssumption == None \notin {"me", "other"}

\* Every player is a member of the one world each device synchronises.
VARIABLES active,    \* the user's devices that are not revoked
          revoked,   \* those that are
          synced,    \* those that have published a first save
          bound,     \* who each player is bound to: None, "me" or "other"
          issued,    \* the number of pairing codes created
          lost,      \* codes whose reply did not reach the page
          requests,  \* what is under way in each slot
          page       \* the state of the component
server == <<active, revoked, synced, bound, issued>>
vars == <<active, revoked, synced, bound, issued, lost, requests, page>>

Failure == [ok |-> FALSE, data |-> None]

Idle == [kind |-> "none", arg |-> None, state |-> "sent", reply |-> Failure]

\* list_sync_devices and list_sync_server_members, joined by the route.
Listed ==
  {[device |-> d, waiting |-> d \notin synced,
    members |-> IF d \in synced THEN {<<p, bound[p]>> : p \in Players} ELSE {}] : d \in active}

Init ==
  /\ active = {} /\ revoked = {} /\ synced = {} /\ bound = [p \in Players |-> None]
  /\ issued = 0 /\ lost = {}
  /\ page = [shown |-> {}, pairing |-> 0, pending |-> FALSE, error |-> "none",
             gone |-> FALSE, removed |-> {}]
  /\ \E s \in Slots :  \* the reload of the first effect
       requests = [r \in Slots |-> IF r = s THEN [Idle EXCEPT !.kind = "reload"] ELSE Idle]

-----------------------------------------------------------------------------
Send(kind, arg) ==
  \E s \in Slots :
    /\ requests[s].kind = "none"
    /\ requests' = [requests EXCEPT ![s] = [Idle EXCEPT !.kind = kind, !.arg = arg]]

\* Which buttons of the card can be clicked.
AddEnabled == ~page.gone /\ ~page.pending

RevokeEnabled(row) == ~page.gone /\ ~page.pending /\ row \in page.shown

InviteEnabled(row) == ~page.gone /\ ~page.pending /\ row \in page.shown /\ ~row.waiting

ClaimEnabled(member) ==
  /\ ~page.gone /\ ~page.pending /\ member[2] = None
  /\ \E row \in page.shown : member \in row.members

Begun == [page EXCEPT !.pending = TRUE, !.error = "none"]

\* Mutation: the button is not disabled while a code is being created.
CreateCodeAnyTime ==
  /\ ~page.gone /\ Send("code", None) /\ page' = Begun
  /\ UNCHANGED <<server, lost>>

CreateCode ==
  /\ AddEnabled /\ Send("code", None) /\ page' = Begun
  /\ UNCHANGED <<server, lost>>

\* The error of an earlier action stays.
ClickRevoke ==
  /\ \E d \in Devices : (\E row \in page.shown : RevokeEnabled(row) /\ row.device = d) /\ Send("revoke", d)
  /\ page' = [page EXCEPT !.pending = TRUE]
  /\ UNCHANGED <<server, lost>>

ClickClaim ==
  /\ \E p \in Players : ClaimEnabled(<<p, None>>) /\ Send("claim", p)
  /\ page' = Begun
  /\ UNCHANGED <<server, lost>>

ClickInvite ==
  /\ \E row \in page.shown : InviteEnabled(row) /\ Send("invite", row.device)
  /\ page' = Begun
  /\ UNCHANGED <<server, lost>>

Refresh ==
  /\ ~page.gone /\ Send("reload", None)
  /\ UNCHANGED <<server, lost, page>>

-----------------------------------------------------------------------------
Answer(s, ok, data) ==
  requests' = [requests EXCEPT ![s].state = "answered", ![s].reply = [ok |-> ok, data |-> data]]

Waiting(s, kinds) == requests[s].kind \in kinds /\ requests[s].state = "sent"

ServeList(s) ==
  Waiting(s, {"reload", "revokeReload"}) /\ Answer(s, TRUE, Listed) /\ UNCHANGED <<server, lost>>

ServeCode(s) ==
  /\ Waiting(s, {"code"}) /\ issued < MaxCodes
  /\ issued' = issued + 1 /\ Answer(s, TRUE, issued')
  /\ UNCHANGED <<active, revoked, synced, bound, lost>>

\* Revoking again what is revoked succeeds.
ServeRevoke(s) ==
  /\ Waiting(s, {"revoke"})
  /\ active' = active \ {requests[s].arg} /\ revoked' = revoked \cup {requests[s].arg}
  /\ Answer(s, TRUE, None)
  /\ UNCHANGED <<synced, bound, issued, lost>>

\* Mutation: whoever has the player loses it.
ServeClaimTaken(s) ==
  /\ Waiting(s, {"claim"})
  /\ LET p == requests[s].arg ok == active \cap synced # {} IN
       /\ Answer(s, ok, None)
       /\ bound' = IF ok THEN [q \in Players |-> IF q = p THEN "me" ELSE
                                 IF bound[q] = "me" THEN None ELSE bound[q]]
                         ELSE bound
  /\ UNCHANGED <<active, revoked, synced, issued, lost>>

\* What the page showed may have changed: the player must still be a member of
\* a world of an active device and free.
ServeClaim(s) ==
  /\ Waiting(s, {"claim"})
  /\ LET p == requests[s].arg
         ok == active \cap synced # {} /\ bound[p] # "other" IN
       /\ Answer(s, ok, None)
       /\ bound' = IF ok THEN [q \in Players |-> IF q = p THEN "me" ELSE
                                 IF bound[q] = "me" THEN None ELSE bound[q]]
                         ELSE bound
  /\ UNCHANGED <<active, revoked, synced, issued, lost>>

ServeInvite(s) ==
  /\ Waiting(s, {"invite"}) /\ Answer(s, requests[s].arg \in active \cap synced, None)
  /\ UNCHANGED <<server, lost>>

Serve(s) == ServeList(s) \/ ServeCode(s) \/ ServeRevoke(s) \/ ServeClaim(s) \/ ServeInvite(s)

\* The request, or its reply, is lost.
Lose(s) ==
  /\ requests[s].kind # "none" /\ (requests[s].state = "sent" \/ requests[s].reply.ok)
  /\ requests' = [requests EXCEPT ![s].state = "answered", ![s].reply = Failure]
  /\ lost' = IF requests[s].kind = "code" /\ requests[s].state = "answered"
             THEN lost \cup {requests[s].reply.data} ELSE lost
  /\ UNCHANGED server

\* A device is paired and publishes, a player is bound by another account.
Elsewhere ==
  /\ \/ issued > 0 /\ \E d \in Devices \ revoked : active' = active \cup {d} /\ UNCHANGED <<synced, bound>>
     \/ \E d \in active : synced' = synced \cup {d} /\ UNCHANGED <<active, bound>>
     \/ \E p \in Players : bound[p] = None /\ bound' = [bound EXCEPT ![p] = "other"]
                           /\ UNCHANGED <<active, synced>>
  /\ UNCHANGED <<revoked, issued>>

-----------------------------------------------------------------------------
Replied(s, kind, ok) ==
  /\ ~page.gone
  /\ requests[s].kind = kind /\ requests[s].state = "answered" /\ requests[s].reply.ok = ok

Done(s) == requests' = [requests EXCEPT ![s] = Idle]

ReceiveList(s) ==
  /\ Replied(s, "reload", TRUE) /\ Done(s)
  /\ page' = [page EXCEPT !.shown = requests[s].reply.data]

ReceiveCode(s) ==
  /\ Replied(s, "code", TRUE) /\ Done(s)
  /\ page' = [page EXCEPT !.pairing = requests[s].reply.data, !.pending = FALSE]

\* Mutation: the buttons work again while the list is loaded.
ReceiveRevokedEarly(s) ==
  /\ Replied(s, "revoke", TRUE)
  /\ requests' = [requests EXCEPT ![s] = [Idle EXCEPT !.kind = "revokeReload", !.arg = requests[s].arg]]
  /\ page' = [page EXCEPT !.pending = FALSE]

\* The list is loaded again before the action is over.
ReceiveRevoked(s) ==
  /\ Replied(s, "revoke", TRUE)
  /\ requests' = [requests EXCEPT ![s] = [Idle EXCEPT !.kind = "revokeReload", !.arg = requests[s].arg]]
  /\ UNCHANGED page

ReceiveRevokeList(s) ==
  /\ Replied(s, "revokeReload", TRUE) /\ Done(s)
  /\ page' = [page EXCEPT !.shown = requests[s].reply.data, !.pending = FALSE,
                          !.removed = @ \cup {requests[s].arg}]

ReceiveClaimed(s) ==
  Replied(s, "claim", TRUE) /\ Done(s) /\ page' = [page EXCEPT !.gone = TRUE]

\* The link is copied, which the browser may refuse.
ReceiveInvited(s) ==
  /\ Replied(s, "invite", TRUE) /\ Done(s)
  /\ \E e \in {"none", "invite"} : page' = [page EXCEPT !.pending = FALSE, !.error = e]

\* Mutation: the buttons stay disabled after a refused claim.
ReceiveFailureStuck(s) ==
  /\ \E k \in {"reload", "code", "revoke", "revokeReload", "claim", "invite"} : Replied(s, k, FALSE)
  /\ Done(s)
  /\ page' = [page EXCEPT !.error = requests[s].kind,
                          !.pending = @ /\ requests[s].kind \in {"reload", "claim"}]

\* The error is shown, and the buttons work again unless it was a refresh.
ReceiveFailure(s) ==
  /\ \E k \in {"reload", "code", "revoke", "revokeReload", "claim", "invite"} : Replied(s, k, FALSE)
  /\ Done(s)
  /\ page' = [page EXCEPT !.error = requests[s].kind,
                          !.pending = @ /\ requests[s].kind = "reload"]

Receive(s) ==
  /\ \/ ReceiveList(s) \/ ReceiveCode(s) \/ ReceiveRevoked(s) \/ ReceiveRevokeList(s)
     \/ ReceiveClaimed(s) \/ ReceiveInvited(s) \/ ReceiveFailure(s)
  /\ UNCHANGED <<server, lost>>

Next ==
  \/ CreateCode \/ ClickRevoke \/ ClickClaim \/ ClickInvite \/ Refresh
  \/ \E s \in Slots : (Serve(s) \/ Lose(s)) /\ UNCHANGED page
  \/ \E s \in Slots : Receive(s)
  \/ Elsewhere /\ UNCHANGED <<lost, requests, page>>

Spec == Init /\ [][Next]_vars

\* A request is answered or fails, and the browser runs what waits for it.
Fairness ==
  \A s \in Slots : /\ WF_vars((Serve(s) \/ Lose(s)) /\ UNCHANGED page)
                   /\ WF_vars(Receive(s))
FairSpec == Spec /\ Fairness

-----------------------------------------------------------------------------
TypeOK ==
  /\ active \subseteq Devices /\ revoked \subseteq Devices \ active /\ synced \subseteq Devices
  /\ bound \in [Players -> {None, "me", "other"}]
  /\ issued \in 0..MaxCodes /\ lost \subseteq 1..MaxCodes
  /\ {row.device : row \in page.shown} \cup page.removed \subseteq Devices
  /\ page.pairing \in 0..MaxCodes /\ page.pending \in BOOLEAN /\ page.gone \in BOOLEAN

UnderWay(kinds) == {s \in Slots : requests[s].kind \in kinds}

\* The code on the page is the last one created, the one the server still
\* accepts, unless the reply with a later one is on its way or was lost.
ShownCodeIsLast ==
  /\ page.pairing \notin lost
  /\ \A c \in (page.pairing + 1)..issued :
       c \in lost \/ \E s \in UnderWay({"code"}) : requests[s].reply.data = c

\* The card is pending exactly while it is changing something, so that no two
\* changes of one page overlap.
PendingMeansChange ==
  ~page.gone =>
    LET changes == UnderWay({"code", "revoke", "revokeReload", "claim", "invite"})
    IN /\ \A s, t \in changes : s = t
       /\ page.pending <=> changes # {}

\* A click on a stale list takes no player from another account, and leaves the
\* user with one player.
ClaimTakesNoOthers ==
  [][/\ \A p \in Players : bound[p] = "other" => bound'[p] = "other"
     /\ \A p, q \in Players : bound'[p] = "me" /\ bound'[q] = "me" => p = q]_vars

\* Whatever order the replies come in, the card tells what the server holds, and
\* its buttons do no harm.
CardIsTrue == [](ShownCodeIsLast /\ PendingMeansChange) /\ ClaimTakesNoOthers

\* The design: a revoked device disappears from the card at once, and does not
\* stay.  The reply of an earlier refresh brings it back.
RevokedStaysGone == \A row \in page.shown : row.device \notin page.removed

\* The buttons work again after every action, or the page was left.
PendingEnds == page.pending ~> (~page.pending \/ page.gone)
=============================================================================
