------------------------------- MODULE Entrance -------------------------------
(***************************************************************************)
(* The way into the web application: the middleware that every page goes   *)
(* through, the layouts that look again at who is signed in, and the pages *)
(* for signing in and registering, which are to lead a visitor back to the *)
(* page that was asked for.                                                *)
(*                                                                         *)
(* One window of a browser is followed.  Other windows share its cookies,  *)
(* so their only trace are sessions that open and end under it.  A request *)
(* carries the cookies of the moment it was sent.  "pals" stands for the   *)
(* pages under /pals, /breeder, /plans, /data-status and /account; queries *)
(* of pages are left out.  MaxFailures calls fail; MaxSessions are opened. *)
(***************************************************************************)
EXTENDS Integers, Sequences

CONSTANTS Administrator, Newcomer, MaxFailures, MaxSessions, None

EntranceAssumption == None \notin {Administrator, Newcomer} /\ Administrator # Newcomer

Locales == {"zh", "en"}
Workspace == {"overview", "pals", "items"}
PublicPaths == {"home"}
Protected == {"overview", "pals", "admin"}
AuthenticationPages == {"login", "register"}
AllowedDestinations == {"overview", "pals"}
Pages == PublicPaths \cup AuthenticationPages \cup Workspace \cup {"admin"}
Sessions == 1..MaxSessions

\* An address: the locales its path begins with, and the rest of the path.
At(locales, page) == [locales |-> locales, page |-> page]
Overview == At(<<>>, "overview")
Anywhere == At(<<>>, "anywhere")
LocaleOf(a) == Head(a.locales)

VARIABLES
  holder,      \* the user of each session, once it is opened
  live,        \* the sessions that have not ended
  signedIn,    \* the session in the cookies of the browser
  newcomer,    \* "new", "waiting" for a confirmation, or "registered"
  mail,        \* the link in the confirmation mail
  passwords,   \* whether signing in with a password is enabled
  window,
  failed       \* bound

sessionVars == <<holder, live, signedIn>>
vars == <<sessionVars, newcomer, mail, passwords, window, failed>>

\* Of a window: where it is, the "next" of its address, the session its request
\* carries, and what it shows for whom.  Auxiliary: the redirects since the user
\* acted, and the calls that failed and the sessions that changed since then; the
\* page that was asked for (None if it was none of those the middleware protects,
\* Anywhere once a call failed, a session changed or the language was switched), and
\* whether it was switched; whether the user comes in with this request.
Home == [pc |-> "shown", at |-> At(<<"zh">>, "home"), next |-> None, sent |-> None,
         view |-> "page", account |-> None, hops |-> 0, trouble |-> 0, wanted |-> None,
         switched |-> FALSE, entered |-> FALSE]

Init ==
  /\ holder = [s \in Sessions |-> None] /\ live = {} /\ signedIn = None
  /\ newcomer = "new" /\ mail = None
  /\ passwords \in BOOLEAN
  /\ window = Home /\ failed = 0

Registered == {Administrator} \cup (IF newcomer = "registered" THEN {Newcomer} ELSE {})

\* The user auth.getUser finds for a session; the server of the accounts is asked.
UserOf(s) == IF s \in live THEN holder[s] ELSE None

Open(user) ==
  \E s \in Sessions :
    /\ holder[s] = None /\ \A z \in 1..(s - 1) : holder[z] # None
    /\ holder' = [holder EXCEPT ![s] = user]
    /\ live' = live \cup {s} /\ signedIn' = s

\* Signing out ends every session of the user.
SignOff ==
  /\ live' = {s \in live : signedIn \notin live \/ holder[s] # holder[signedIn]}
  /\ signedIn' = None /\ UNCHANGED holder

Fail == failed < MaxFailures /\ failed' = failed + 1

-----------------------------------------------------------------------------
\* Where forms and routes lead to.

\* Mutation: any page of the application is a safe destination.
SafeNextAnywhere(next) == IF next # None /\ Len(next.locales) <= 1 THEN next ELSE Overview

SafeNextPath(next) ==
  IF next # None /\ Len(next.locales) <= 1 /\ next.page \in AllowedDestinations
  THEN next ELSE Overview

LoginDestination(locale, next) ==
  IF SafeNextPath(next) = Overview /\ next # Overview
  THEN At(<<locale>>, "overview") ELSE SafeNextPath(next)

\* Mutation: the locale is put before every destination.
LocalizedAgain(locale, next) ==
  LET safe == SafeNextPath(next) IN At(<<locale>> \o safe.locales, safe.page)

Localized(locale, next) ==
  LET safe == SafeNextPath(next) IN
    IF safe.locales # <<>> /\ LocaleOf(safe) = locale THEN safe
    ELSE At(<<locale>> \o safe.locales, safe.page)

Exists(a) == Len(a.locales) = 1 /\ (a.page = "register" => passwords)

\* The window sends a request: followed by the user, or as a redirect.
Sent(w, a, next) ==
  [w EXCEPT !.pc = "asked", !.at = a, !.next = next, !.sent = signedIn', !.view = "page",
            !.account = None]

Acted(w) == [w EXCEPT !.hops = 0, !.trouble = 0, !.entered = FALSE]
Redirected(w, a, next) == [Sent(w, a, next) EXCEPT !.hops = @ + 1]
Troubled(w, k) == [w EXCEPT !.trouble = @ + k, !.wanted = IF k = 0 THEN @ ELSE Anywhere]
Entered(w, a) == [Sent(Acted(w), a, None) EXCEPT !.entered = TRUE]
Shown(w, view, account) ==
  [Acted(w) EXCEPT !.pc = "shown", !.sent = None, !.view = view, !.account = account,
                   !.wanted = IF account = None THEN @ ELSE None,
                   !.switched = @ /\ account = None]

Here == window.at
ShowsPage(pages) == window.pc = "shown" /\ window.view = "page" /\ Here.page \in pages
Keep == UNCHANGED <<sessionVars, newcomer, mail, passwords>>

-----------------------------------------------------------------------------
\* The middleware.

AddLocale ==
  /\ window.pc = "asked" /\ Here.locales = <<>>
  /\ Keep /\ UNCHANGED failed
  /\ \E l \in Locales : window' = Redirected(window, At(<<l>>, Here.page), window.next)

StripLocalePrefix(a) == IF a.locales = <<>> THEN a ELSE At(Tail(a.locales), a.page)
IsOneOf(pages, a) == StripLocalePrefix(a) \in {At(<<>>, p) : p \in pages}

\* Mutation: the middleware believes the cookie, whether the session has ended or not.
MiddlewareBelieves(user, k) ==
  k = 0 /\ user = (IF window.sent = None THEN None ELSE holder[window.sent]) /\ UNCHANGED failed

\* An error of getUser is not looked at: it leaves no user, like no session.
MiddlewareSees(user, k) ==
  \/ k = 0 /\ user = UserOf(window.sent) /\ UNCHANGED failed
  \/ k = 1 /\ user = None /\ window.sent # None /\ Fail

Middleware ==
  /\ window.pc = "asked" /\ Here.locales # <<>> /\ ~IsOneOf(PublicPaths, Here)
  /\ \E user \in Registered \cup {None}, k \in {0, 1} :
       LET w == Troubled(window, k) IN
         /\ MiddlewareSees(user, k) /\ Keep
         /\ \/ /\ user = None /\ IsOneOf(Protected, Here)
               /\ window' = [Redirected(w, At(<<LocaleOf(Here)>>, "login"), Here)
                               EXCEPT !.wanted = IF @ = Anywhere THEN @ ELSE Here]
            \/ /\ user # None /\ IsOneOf(AuthenticationPages, Here)
               /\ window' = Redirected(w, At(<<LocaleOf(Here)>>, "overview"), None)
            \/ /\ ~IsOneOf(IF user = None THEN Protected ELSE AuthenticationPages, Here)
               /\ window' = [w EXCEPT !.pc = "passed"]

-----------------------------------------------------------------------------
\* The layouts and pages.

ShowOutside ==
  /\ \/ window.pc = "passed" /\ (Here.page \in AuthenticationPages \/ ~Exists(Here))
     \/ window.pc = "asked" /\ Here.locales # <<>> /\ IsOneOf(PublicPaths, Here)
  /\ window' = Shown(window, IF Exists(Here) THEN "page" ELSE "missing", None)
  /\ UNCHANGED failed /\ Keep

Inside(a) == Exists(a) /\ a.page \in Workspace \cup {"admin"}

\* Mutation: the layout believes the cookie.
ContextOfCookie == IF window.sent = None THEN None ELSE holder[window.sent]

\* loadUserContext: a failed call is an error, and no session is no context.
\* A profile that is missing makes no difference.
Context == UserOf(window.sent)

LayoutFails ==
  /\ window.pc = "passed" /\ Inside(Here) /\ Fail
  /\ window' = Shown(Troubled(window, 1), "error", None)
  /\ Keep

RequireUserContext ==
  /\ window.pc = "passed" /\ Inside(Here) /\ Context = None
  /\ Keep /\ UNCHANGED failed
  /\ window' = Redirected(window, At(<<LocaleOf(Here)>>, "login"), None)

WorkspaceLayout ==
  /\ window.pc = "passed" /\ Inside(Here) /\ Here.page \in Workspace /\ Context # None
  /\ window' = Shown(window, "page", Context)
  /\ UNCHANGED failed /\ Keep

RequireAdminPageAccess(user) == user = Administrator

AdminLayout ==
  /\ window.pc = "passed" /\ Inside(Here) /\ Here.page = "admin" /\ Context # None
  /\ window' = Shown(window, IF RequireAdminPageAccess(Context) THEN "page" ELSE "denied", Context)
  /\ UNCHANGED failed /\ Keep

-----------------------------------------------------------------------------
\* What the user does.

Visit(a) ==
  /\ window.pc = "shown"
  /\ Keep /\ UNCHANGED failed
  /\ window' = [Sent(Acted(window), a, None) EXCEPT !.wanted = None, !.switched = FALSE]

SwitchLocale(locale) ==
  /\ ShowsPage(Pages) /\ locale # LocaleOf(Here)
  /\ Keep /\ UNCHANGED failed
  /\ window' = [Sent(Acted(window), At(<<locale>>, Here.page), window.next)
                  EXCEPT !.wanted = Anywhere, !.switched = TRUE]

FollowToRegister ==
  /\ ShowsPage({"login"}) /\ passwords
  /\ Keep /\ UNCHANGED failed
  /\ window' = Sent(Acted(window), At(<<LocaleOf(Here)>>, "register"),
                    LoginDestination(LocaleOf(Here), window.next))

FollowToLogin ==
  /\ window.pc = "shown" /\ window.view \in {"page", "sent"} /\ Here.page = "register"
  /\ Keep /\ UNCHANGED failed
  /\ window' = Sent(Acted(window), At(<<LocaleOf(Here)>>, "login"),
                    IF window.next = None THEN None ELSE Localized(LocaleOf(Here), window.next))

\* A refused or lost sign-in shows an error and changes nothing else.
Authenticate(user) == user \in Registered /\ Open(user)

ServeLogin(user) == passwords /\ Authenticate(user)

SignIn(user) ==
  /\ ShowsPage({"login"}) /\ ServeLogin(user)
  /\ UNCHANGED <<newcomer, mail, passwords, failed>>
  /\ window' = Entered(window, LoginDestination(LocaleOf(Here), window.next))

FormDestination ==
  IF Here.page = "login" THEN LoginDestination(LocaleOf(Here), window.next)
  ELSE Localized(LocaleOf(Here), window.next)

\* Signing in with Steam, from either form, as far as the address goes: the start
\* keeps the safe destination in a cookie, and the callback leads to it.
SteamSignsIn(user) ==
  /\ ShowsPage(AuthenticationPages) /\ user \in Registered
  /\ Open(user) /\ UNCHANGED <<newcomer, mail, passwords, failed>>
  /\ window' = Entered(window, SafeNextPath(FormDestination))

SteamFails ==
  /\ ShowsPage(AuthenticationPages) /\ Fail /\ Keep
  /\ LET safe == SafeNextPath(FormDestination) IN
       window' = Sent(Acted(Troubled(window, 1)),
                      At(<<IF safe.locales = <<>> THEN "zh" ELSE LocaleOf(safe)>>, "login"), None)

\* signUp: the accounts ask for a confirmation by mail, or open a session at once.
RegisterPasswordAccount(confirmed) ==
  newcomer = "new" /\ newcomer' = (IF confirmed THEN "registered" ELSE "waiting")

\* The route looks at the destination of the form once more, for the link in the mail.
ServeRegistration(locale, body, confirmed) ==
  /\ passwords /\ RegisterPasswordAccount(confirmed)
  /\ mail' = IF confirmed THEN mail
             ELSE [locale |-> locale, next |-> Localized(locale, body),
                   wanted |-> window.wanted, switched |-> window.switched]

\* The registration is executed; its answer may be lost.
Register(confirmed, answered) ==
  /\ ShowsPage({"register"}) /\ UNCHANGED passwords
  /\ IF answered THEN UNCHANGED failed ELSE Fail
  /\ LET destination == Localized(LocaleOf(Here), window.next) IN
       /\ ServeRegistration(LocaleOf(Here), IF window.next = None THEN None ELSE destination,
                            confirmed)
       /\ IF confirmed /\ answered
          THEN Open(Newcomer) /\ window' = Entered(window, destination)
          ELSE /\ UNCHANGED sessionVars
               /\ window' = IF answered THEN Shown(window, "sent", None) ELSE window

\* The link of the mail is good once: afterwards only its locale matters.
Confirm ==
  /\ window.pc = "shown" /\ mail # None /\ newcomer = "waiting"
  /\ newcomer' = "registered" /\ Open(Newcomer) /\ UNCHANGED <<passwords, failed>>
  /\ mail' = [mail EXCEPT !.next = None, !.wanted = None, !.switched = FALSE]
  /\ window' = [Entered(window, Localized(mail.locale, mail.next))
                  EXCEPT !.hops = 1, !.wanted = mail.wanted, !.switched = mail.switched]

ConfirmFails ==
  /\ window.pc = "shown" /\ mail # None
  /\ IF newcomer = "registered" THEN UNCHANGED failed ELSE Fail
  /\ Keep
  /\ window' = [Sent(Acted(window), At(<<mail.locale>>, "login"), None)
                  EXCEPT !.hops = 1, !.wanted = None]

\* The window goes to the login page whether the sign-out succeeded or not.
SignOut ==
  /\ ShowsPage(Workspace \cup {"admin"})
  /\ \/ SignOff /\ UNCHANGED failed
     \/ Fail /\ UNCHANGED sessionVars
  /\ UNCHANGED <<newcomer, mail, passwords>>
  /\ window' = [Sent(Acted(window), At(<<LocaleOf(Here)>>, "login"), None) EXCEPT !.wanted = None]

\* Other windows, and sessions that end by themselves or at another device.
Elsewhere ==
  /\ \/ \E user \in Registered : Open(user)
     \/ signedIn # None /\ SignOff
     \/ \E s \in live : live' = live \ {s} /\ UNCHANGED <<holder, signedIn>>
  /\ UNCHANGED <<newcomer, mail, passwords, failed>>
  /\ window' = IF window.pc = "shown" THEN window ELSE Troubled(window, 1)

Next ==
  \/ AddLocale \/ Middleware \/ ShowOutside \/ LayoutFails \/ RequireUserContext
  \/ WorkspaceLayout \/ AdminLayout
  \/ \E p \in Pages, ls \in {<<>>} \cup {<<l>> : l \in Locales} : Visit(At(ls, p))
  \/ \E l \in Locales : SwitchLocale(l)
  \/ FollowToRegister \/ FollowToLogin
  \/ \E user \in Registered : SignIn(user) \/ SteamSignsIn(user)
  \/ SteamFails
  \/ \E confirmed, answered \in BOOLEAN : Register(confirmed, answered)
  \/ Confirm \/ ConfirmFails \/ SignOut \/ Elsewhere

Spec == Init /\ [][Next]_vars

-----------------------------------------------------------------------------
\* The middleware and the layouts, which look at different moments and read a
\* failed call differently, never send a window to and fro between themselves: two
\* redirects, and two more for every call that fails or session that changes.
RedirectsEnd == window.hops <= 2 + 2 * window.trouble

Arrives == window.pc # "shown" /\ window'.pc = "shown"

\* Who is kept back by the middleware and comes in, over any detour through the
\* forms and the mail, gets the page that was asked for, in its language, or the
\* overview if it is none of the allowed ones.
LandsWhereAsked ==
  Arrives /\ window.entered /\ window.wanted # Anywhere /\ window'.view # "error"
    => Here = IF window.wanted # None /\ window.wanted.page \in AllowedDestinations
              THEN window.wanted ELSE At(<<LocaleOf(Here)>>, "overview")

\* Coming in leads to a page that does not exist only after a language switch.
ComesInSomewhere == Arrives /\ window.entered /\ window'.view = "missing" => window.switched

\* A page inside is only shown for a session that had not ended when its layout
\* looked, to its user, and a page of the administration to an administrator.
ShowsOwn ==
  Arrives /\ window'.view = "page" /\ Inside(Here)
    => /\ window.sent \in live /\ window'.account = holder[window.sent]
       /\ Here.page = "admin" => window'.account = Administrator

EntranceHolds ==
  []RedirectsEnd /\ [][LandsWhereAsked /\ ComesInSomewhere /\ ShowsOwn]_vars
=============================================================================
