--------------------------- MODULE BrowserSession ---------------------------
(***************************************************************************)
(* The session of one browser tab: the token in localStorage, which all    *)
(* tabs share (storage), the status and the user the AuthProvider holds,   *)
(* the requests that leave with whatever token is stored (client), a 401   *)
(* to any of which ends the session, the login in two calls, and the       *)
(* route, which the guards of AppRouter settle.                            *)
(***************************************************************************)
EXTENDS Naturals, FiniteSets

CONSTANTS
    Token,       \* tokens the API may issue
    User,
    OwnerOf,     \* whose each token is
    RoleOf,      \* the role of each user
    Visited,     \* paths the user may ask for
    MaxAsked,    \* requests of the pages under way with one token
    NoToken, NoUser

ASSUME SessionAssumption ==
    /\ OwnerOf \in [Token -> User]
    /\ RoleOf \in [User -> {"buyer", "seller", "ops"}]
    /\ NoToken \notin Token /\ NoUser \notin User
    /\ MaxAsked \in Nat

VARIABLES
    stored,      \* the token in localStorage
    issued,      \* tokens issued so far
    dead,        \* those the API refuses: expired, or their user is gone
    status,      \* checking, authenticated, unauthenticated
    user,        \* the user shown
    step,        \* of the session check: none, boot, credentials, me
    checked,     \* the token /auth/me was asked with
    vouched,     \* the API has answered it with the user
    asked,       \* per token, requests of the pages the API has yet to judge
    refused,     \* per token, 401 answers on their way back
    path,        \* the route
    drawer,      \* the navigation drawer is open
    disturbed,     \* history: what this tab stored was changed by another tab, or
                 \* by the refusal of a request of an earlier session
    halfway      \* history: a login stored its token and did not get its user

sessionVars == <<stored, issued, dead, status, user, step, checked, vouched,
                 asked, refused, path, drawer, disturbed, halfway>>
apiVars == <<issued, dead>>
flightVars == <<asked, refused>>
checkVars == <<step, checked, vouched>>

-----------------------------------------------------------------------------
(* Routes *)

roleHomePath(role) ==
    CASE role = "buyer" -> "/catalog" [] role = "seller" -> "/seller" [] role = "ops" -> "/ops"

\* The paths below ProtectedArea.  None of them asks for a role.
ProtectedPaths ==
    {"/", "/buyer", "/seller", "/ops", "/catalog", "/catalog/:id", "/buyer/catalog",
     "/buyer/catalog/:id", "/buyer/orders", "/buyer/orders/:id", "/buyer/orders/:id/items/:id",
     "/seller/orders", "/seller/orders/:id", "/seller/offers", "/seller/offers/new",
     "/seller/offers/:id", "/ops/queue", "/ops/conversations/:id", "/ops/order-items",
     "/ops/order-items/:id"}

ProtectedArea(p, st) == IF st = "unauthenticated" THEN "/login" ELSE p

PublicOnlyRoute(st, u) == IF st = "authenticated" THEN roleHomePath(RoleOf[u]) ELSE "/login"

HomeRedirect(u) == roleHomePath(RoleOf[u])
CatalogRedirect == [p \in {"/buyer/catalog", "/buyer/catalog/:id"} |->
                      IF p = "/buyer/catalog" THEN "/catalog" ELSE "/catalog/:id"]

\* Where a path settles once every Navigate it meets has been followed; a path
\* nobody knows shows NotFoundPage.
Settled(p, st, u) ==
    CASE p = "/login"                                   -> PublicOnlyRoute(st, u)
      [] p \in ProtectedPaths /\ st # "authenticated"   -> ProtectedArea(p, st)
      [] p = "/" /\ st = "authenticated"                -> HomeRedirect(u)
      [] p \in DOMAIN CatalogRedirect /\ st = "authenticated" -> CatalogRedirect[p]
      [] OTHER                                          -> p

\* Every step draws the page again; another path closes the drawer, and the
\* layout is there for the authenticated alone.
Rendered(p) ==
    /\ path' = Settled(p, status', user')
    /\ drawer' = (drawer /\ status' = "authenticated" /\ path' = path)

-----------------------------------------------------------------------------
(* The AuthProvider *)

Nobody == [t \in Token \cup {NoToken} |-> 0]

Init ==
    /\ stored = NoToken /\ issued = {} /\ dead = {}
    /\ status = "unauthenticated" /\ user = NoUser
    /\ step = "none" /\ checked = NoToken /\ vouched = FALSE
    /\ asked = Nobody /\ refused = Nobody
    /\ path = "/login" /\ drawer = FALSE
    /\ disturbed = FALSE /\ halfway = FALSE

\* Mutant of Cleared: the token stays in the storage.
ClearedOnScreen ==
    /\ user' = NoUser /\ status' = "unauthenticated"
    /\ halfway' = FALSE
    /\ UNCHANGED stored

\* logout, also the handler of any 401.
Cleared ==
    /\ stored' = NoToken /\ user' = NoUser /\ status' = "unauthenticated"
    /\ halfway' = FALSE

LoggedIn ==
    /\ user' = OwnerOf[checked] /\ status' = "authenticated"
    /\ step' = "none"
    /\ UNCHANGED <<stored, checked, vouched, disturbed, halfway>>

\* The tab is opened or reloaded: what was under way is forgotten, and a token
\* found in the storage is checked.
Reload ==
    /\ \/ stored = NoToken /\ status' = "unauthenticated" /\ step' = "none"
       \/ stored # NoToken /\ status' = "checking" /\ step' = "boot"
    /\ checked' = stored /\ vouched' = FALSE
    /\ user' = NoUser
    /\ asked' = Nobody /\ refused' = Nobody
    /\ disturbed' = FALSE /\ halfway' = FALSE
    /\ Rendered(path)
    /\ UNCHANGED <<stored, apiVars>>

\* The API answers /auth/me with the user; the answer is on its way.
Vouch ==
    /\ step \in {"boot", "me"} /\ ~vouched
    /\ checked \notin dead
    /\ vouched' = TRUE
    /\ UNCHANGED <<stored, apiVars, status, user, step, checked, flightVars, path, drawer,
                   disturbed, halfway>>

BootOk ==
    /\ step = "boot" /\ vouched
    /\ LoggedIn
    /\ Rendered(path)
    /\ UNCHANGED <<apiVars, flightVars>>

\* A refusal, or no answer at all: the token is dropped either way.
BootFails ==
    /\ step = "boot"
    /\ Cleared
    /\ step' = "none"
    /\ Rendered(path)
    /\ UNCHANGED <<apiVars, checked, vouched, flightVars, disturbed>>

-----------------------------------------------------------------------------
(* Login *)

HandleSubmit ==
    /\ path = "/login" /\ status = "unauthenticated" /\ step = "none"
    /\ step' = "credentials"
    /\ UNCHANGED <<stored, apiVars, status, user, checked, vouched, flightVars, path, drawer,
                   disturbed, halfway>>

\* The token is stored, and /auth/me is asked with it.
CredentialsOk(t) ==
    /\ step = "credentials"
    /\ t \in Token \ issued
    /\ issued' = issued \cup {t}
    /\ stored' = t
    /\ step' = "me" /\ checked' = t /\ vouched' = FALSE
    /\ disturbed' = FALSE /\ halfway' = FALSE
    /\ UNCHANGED <<dead, status, user, flightVars, path, drawer>>

\* Wrong credentials are a 401 like any other.
CredentialsWrong ==
    /\ step = "credentials"
    /\ Cleared
    /\ step' = "none"
    /\ Rendered(path)
    /\ UNCHANGED <<apiVars, checked, vouched, flightVars, disturbed>>

CredentialsUnanswered ==
    /\ step = "credentials"
    /\ step' = "none"
    /\ UNCHANGED <<stored, apiVars, status, user, checked, vouched, flightVars, path, drawer,
                   disturbed, halfway>>

MeOk ==
    /\ step = "me" /\ vouched
    /\ LoggedIn
    /\ Rendered(path)
    /\ UNCHANGED <<apiVars, flightVars>>

MeRefused ==
    /\ step = "me" /\ ~vouched /\ checked \in dead
    /\ Cleared
    /\ step' = "none"
    /\ disturbed' = (disturbed \/ stored \notin {NoToken, checked})
    /\ Rendered(path)
    /\ UNCHANGED <<apiVars, checked, vouched, flightVars>>

\* Any other failure shows an error and leaves the token in the storage.
MeUnanswered ==
    /\ step = "me"
    /\ step' = "none"
    /\ halfway' = TRUE
    /\ UNCHANGED <<stored, apiVars, status, user, checked, vouched, flightVars, path, drawer,
                   disturbed>>

HandleLogout ==
    /\ status = "authenticated"
    /\ Cleared
    /\ Rendered(path)
    /\ UNCHANGED <<apiVars, checkVars, flightVars, disturbed>>

-----------------------------------------------------------------------------
(* The requests of the pages and of the bell *)

\* apiRequest sends the token it finds in the storage, or none.  The layout
\* asks, and the pages within it; NotFoundPage has neither.
Ask ==
    /\ status = "authenticated" /\ path \in ProtectedPaths
    /\ asked[stored] + refused[stored] < MaxAsked
    /\ asked' = [asked EXCEPT ![stored] = @ + 1]
    /\ UNCHANGED <<stored, apiVars, status, user, checkVars, refused, path, drawer, disturbed,
                   halfway>>

Grant(t) ==
    /\ asked[t] > 0 /\ t \notin dead \cup {NoToken}
    /\ asked' = [asked EXCEPT ![t] = @ - 1]
    /\ UNCHANGED <<stored, apiVars, status, user, checkVars, refused, path, drawer, disturbed,
                   halfway>>

Deny(t) ==
    /\ asked[t] > 0 /\ t \in dead \cup {NoToken}
    /\ asked' = [asked EXCEPT ![t] = @ - 1]
    /\ refused' = [refused EXCEPT ![t] = @ + 1]
    /\ UNCHANGED <<stored, apiVars, status, user, checkVars, path, drawer, disturbed, halfway>>

\* Mutant of Unauthorized: no handler was registered.
UnauthorizedUnheard(t) ==
    /\ refused[t] > 0
    /\ refused' = [refused EXCEPT ![t] = @ - 1]
    /\ UNCHANGED <<stored, apiVars, status, user, checkVars, asked, path, drawer, disturbed,
                   halfway>>

\* The 401 arrives: whatever is stored by now is dropped.
Unauthorized(t) ==
    /\ refused[t] > 0
    /\ refused' = [refused EXCEPT ![t] = @ - 1]
    /\ Cleared
    /\ disturbed' = (disturbed \/ stored \notin {NoToken, t})
    /\ Rendered(path)
    /\ UNCHANGED <<apiVars, checkVars, asked>>

-----------------------------------------------------------------------------
(* The rest of the world *)

Expire(t) ==
    /\ t \in issued \ dead
    /\ dead' = dead \cup {t}
    /\ UNCHANGED <<stored, issued, status, user, checkVars, flightVars, path, drawer, disturbed,
                   halfway>>

\* Another tab logs in, or drops the token.
OtherTab(t) ==
    /\ t \in (Token \ issued) \cup {NoToken}
    /\ t # stored
    /\ stored' = t
    /\ issued' = issued \cup ({t} \ {NoToken})
    /\ disturbed' = TRUE
    /\ UNCHANGED <<dead, status, user, checkVars, flightVars, path, drawer, halfway>>

Go(p) ==
    /\ p # path
    /\ UNCHANGED <<status, user>>
    /\ Rendered(p)
    /\ UNCHANGED <<stored, apiVars, checkVars, flightVars, disturbed, halfway>>

\* Sellers and Ops have a sidebar, on a phone a drawer; the buyers have neither.
OpenDrawer ==
    /\ status = "authenticated" /\ RoleOf[user] # "buyer" /\ path \in ProtectedPaths
    /\ drawer' = ~drawer
    /\ UNCHANGED <<stored, apiVars, status, user, checkVars, flightVars, path, disturbed, halfway>>

Next ==
    \/ Reload \/ Vouch \/ BootOk \/ BootFails
    \/ HandleSubmit \/ CredentialsWrong \/ CredentialsUnanswered
    \/ MeOk \/ MeRefused \/ MeUnanswered
    \/ HandleLogout \/ Ask \/ OpenDrawer
    \/ \E t \in Token : CredentialsOk(t) \/ Expire(t)
    \/ \E t \in Token \cup {NoToken} : Grant(t) \/ Deny(t) \/ Unauthorized(t) \/ OtherTab(t)
    \/ \E p \in Visited : Go(p)

Spec == Init /\ [][Next]_sessionVars

\* Pages are mounted and the bell polls as long as the session lasts; the API
\* answers what it is asked and the answers arrive.
Fairness ==
    /\ WF_sessionVars(Ask)
    /\ \A t \in Token \cup {NoToken} :
          WF_sessionVars(Grant(t)) /\ WF_sessionVars(Deny(t)) /\ WF_sessionVars(Unauthorized(t))

FairSpec == Spec /\ Fairness

-----------------------------------------------------------------------------
(* Properties *)

\* The type invariant of the session.
TypeOK ==
    /\ stored \in Token \cup {NoToken}
    /\ dead \subseteq issued /\ issued \subseteq Token
    /\ status \in {"checking", "authenticated", "unauthenticated"}
    /\ user \in User \cup {NoUser}
    /\ step \in {"none", "boot", "credentials", "me"}
    /\ checked \in Token \cup {NoToken} /\ vouched \in BOOLEAN
    /\ asked \in [Token \cup {NoToken} -> Nat]
    /\ refused \in [Token \cup {NoToken} -> Nat]
    /\ {drawer, disturbed, halfway} \subseteq BOOLEAN

\* What the tab shows and what the storage holds belong together: the user on
\* the screen is the owner of the stored token, and a token is stored without a
\* user only while one is being fetched or after a login that could not fetch
\* it, unless another tab, or a late 401 of an earlier session, came in between
\* (AuthProvider.tsx:39, client.ts:66).
ShownOwnsStored ==
    (status = "authenticated" /\ ~disturbed) => (stored # NoToken /\ OwnerOf[stored] = user)

StoredIsExpected ==
    (status # "authenticated" /\ stored # NoToken /\ ~disturbed)
        => (halfway \/ (step \in {"boot", "me"} /\ checked = stored))

\* The route tells the same: no login page for the authenticated, no page of
\* the application for the others (AppRouter.tsx:26).
RouteFits ==
    /\ status = "authenticated" => (user # NoUser /\ path # "/login")
    /\ status = "unauthenticated" => path \notin ProtectedPaths

SessionIsCoherent == ShownOwnsStored /\ StoredIsExpected /\ RouteFits

\* A session whose token the API no longer accepts, or that another tab took
\* away, does not stay on the screen of the application (client.ts:66).
Unusable ==
    status = "authenticated" /\ path \in ProtectedPaths /\ stored \in dead \cup {NoToken}
DeadTokenIsNoticed == Unusable ~> ~Unusable

=============================================================================
