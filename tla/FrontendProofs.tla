--------------------------- MODULE FrontendProofs ---------------------------
(***************************************************************************)
(* Proofs about the frontend, for any tokens, users, filters, offers,      *)
(* conversations and number of gestures and requests under way.  The       *)
(* session, the lists and the catalog are proved here.  The page of an     *)
(* item, with its panel and the bell above it, and the forms of an offer   *)
(* have modules of their own: I, P, B and F are these as parts of the      *)
(* frontend, IP, IP!P, IP!B and FP the same with what is proved about      *)
(* them, and each step of the frontend is shown to be a step of the page   *)
(* that is mounted.                                                        *)
(***************************************************************************)
EXTENDS MCFrontend, AsyncViewProofs, FiniteSetTheorems, TLAPS

-----------------------------------------------------------------------------
(***************************************************************************)
(* The session                                                             *)
(***************************************************************************)

\* Nothing was ever asked with a token that was not issued.
OnlyIssuedAsk ==
    /\ stored \in issued \cup {NoToken}
    /\ \A t \in Token \ issued : asked[t] = 0 /\ refused[t] = 0

\* A user is on the screen only while no check is under way; a token that is
\* being checked has not been used by a page yet, and is the stored one unless
\* another tab or an earlier session came in between.
CheckIsFresh ==
    /\ status = "authenticated" => user \in User /\ step = "none"
    /\ step = "me" => checked \in issued
    /\ step \in {"boot", "me"} =>
          /\ checked \in Token
          /\ asked[checked] = 0 /\ refused[checked] = 0
          /\ ~disturbed => stored = checked

SessionInv == TypeOK /\ OnlyIssuedAsk /\ CheckIsFresh /\ SessionIsCoherent

\* Wherever the guards lead, the authenticated see no login page and nobody
\* else a page of the application.
LEMMA SettledFits ==
  ASSUME NEW p, NEW st, NEW u
  PROVE  /\ st = "authenticated" /\ u \in User => Settled(p, st, u) # "/login"
         /\ st = "unauthenticated" => Settled(p, st, u) \notin ProtectedPaths
  <1>1. ASSUME st = "authenticated", u \in User
        PROVE  Settled(p, st, u) # "/login"
    <2>1. roleHomePath(RoleOf[u]) \in {"/catalog", "/seller", "/ops"}
      BY <1>1, SessionAssumption DEF SessionAssumption, roleHomePath
    <2>2. CASE p = "/login"
      <3>1. Settled(p, st, u) = roleHomePath(RoleOf[u])
        <4>1. Settled(p, st, u) = PublicOnlyRoute(st, u)
          BY <2>2 DEF Settled, ProtectedPaths, CatalogRedirect
        <4> QED
          BY <1>1, <4>1 DEF PublicOnlyRoute
      <3> QED
        BY <2>1, <3>1
    <2>3. CASE p = "/"
      <3>1. Settled(p, st, u) = roleHomePath(RoleOf[u])
        BY <1>1, <2>3 DEF Settled, HomeRedirect, CatalogRedirect
      <3> QED
        BY <2>1, <3>1
    <2>4. CASE p \in {"/buyer/catalog", "/buyer/catalog/:id"}
      BY <1>1, <2>4 DEF Settled, CatalogRedirect, ProtectedPaths
    <2>5. CASE p \notin {"/login", "/", "/buyer/catalog", "/buyer/catalog/:id"}
      BY <1>1, <2>5 DEF Settled, CatalogRedirect
    <2> QED
      BY <2>2, <2>3, <2>4, <2>5
  <1>2. ASSUME st = "unauthenticated"
        PROVE  Settled(p, st, u) \notin ProtectedPaths
    <2>1. CASE p \in ProtectedPaths \cup {"/login"}
      <3>1. Settled(p, st, u) = "/login"
        BY <1>2, <2>1 DEF Settled, PublicOnlyRoute, ProtectedArea
      <3> QED
        BY <3>1 DEF ProtectedPaths
    <2>2. CASE p \notin ProtectedPaths \cup {"/login"}
      BY <1>2, <2>2 DEF Settled
    <2> QED
      BY <2>1, <2>2
  <1> QED
    BY <1>1, <1>2

\* A page that is drawn again shows a route that fits the session.
LEMMA RenderedFits ==
  ASSUME NEW p, Rendered(p), status' = "authenticated" => user' \in User
  PROVE  RouteFits' /\ drawer' \in BOOLEAN
  <1>1. path' = Settled(p, status', user')
    BY DEF Rendered
  <1>2. RouteFits'
    BY <1>1, SettledFits, SessionAssumption DEF RouteFits, SessionAssumption
  <1>3. drawer' \in BOOLEAN
    BY DEF Rendered
  <1> QED
    BY <1>2, <1>3

\* A page that starts has asked nothing yet.
LEMMA SessionStarts == Init => SessionInv
  <1> SUFFICES ASSUME Init PROVE SessionInv
    OBVIOUS
  <1>1. TypeOK
    BY DEF Init, TypeOK, Nobody
  <1>2. OnlyIssuedAsk /\ CheckIsFresh
    BY DEF Init, OnlyIssuedAsk, CheckIsFresh, Nobody
  <1>3. SessionIsCoherent
    BY DEF Init, SessionIsCoherent, ShownOwnsStored, StoredIsExpected, RouteFits,
       ProtectedPaths
  <1> QED
    BY <1>1, <1>2, <1>3 DEF SessionInv

\* Every action keeps the invariant; one step for each.
LEMMA SessionGoesOn == SessionInv /\ [Next]_sessionVars => SessionInv'
  <1> SUFFICES ASSUME SessionInv, [Next]_sessionVars PROVE SessionInv'
    OBVIOUS
  <1> USE SessionAssumption DEF SessionAssumption
  <1>1. TypeOK /\ OnlyIssuedAsk /\ CheckIsFresh
    BY DEF SessionInv
  <1>2. ShownOwnsStored /\ StoredIsExpected /\ RouteFits
    BY DEF SessionInv, SessionIsCoherent
  <1>3. CASE Reload
    <2>1. TypeOK' /\ OnlyIssuedAsk' /\ CheckIsFresh'
      <3>1. Rendered(path) /\ (status' = "authenticated" => user' \in User)
        BY <1>1, <1>3 DEF Reload, apiVars, Nobody, TypeOK, CheckIsFresh
      <3>2. drawer' \in BOOLEAN
        BY <3>1, RenderedFits
      <3>3. TypeOK'
        BY <1>1, <1>3, <3>2 DEF Reload, apiVars, Nobody, TypeOK, CheckIsFresh
      <3>4. OnlyIssuedAsk' /\ CheckIsFresh'
        BY <1>1, <1>3 DEF Reload, apiVars, Nobody, TypeOK, OnlyIssuedAsk, CheckIsFresh
      <3> QED
        BY <3>3, <3>4
    <2>2. ShownOwnsStored' /\ StoredIsExpected'
      BY <1>1, <1>2, <1>3 DEF Reload, apiVars, Nobody, TypeOK, OnlyIssuedAsk,
         CheckIsFresh,
         ShownOwnsStored, StoredIsExpected
    <2>3. RouteFits'
      <3>1. Rendered(path) /\ (status' = "authenticated" => user' \in User)
        BY <1>1, <1>3 DEF Reload, apiVars, Nobody, TypeOK, CheckIsFresh
      <3> QED
        BY <3>1, RenderedFits
    <2> QED
      BY <2>1, <2>2, <2>3 DEF SessionInv, SessionIsCoherent
  <1>4. CASE Vouch
    <2>1. TypeOK' /\ OnlyIssuedAsk' /\ CheckIsFresh'
      BY <1>1, <1>4 DEF Vouch, apiVars, flightVars, TypeOK, OnlyIssuedAsk, CheckIsFresh
    <2>2. ShownOwnsStored' /\ StoredIsExpected'
      BY <1>1, <1>2, <1>4 DEF Vouch, apiVars, flightVars, TypeOK, OnlyIssuedAsk,
         CheckIsFresh,
         ShownOwnsStored, StoredIsExpected
    <2>3. RouteFits'
      BY <1>2, <1>4 DEF Vouch, apiVars, flightVars, RouteFits
    <2> QED
      BY <2>1, <2>2, <2>3 DEF SessionInv, SessionIsCoherent
  <1>5. CASE BootOk
    <2>1. TypeOK' /\ OnlyIssuedAsk' /\ CheckIsFresh'
      <3>1. Rendered(path) /\ (status' = "authenticated" => user' \in User)
        BY <1>1, <1>5 DEF BootOk, LoggedIn, apiVars, flightVars, TypeOK, CheckIsFresh
      <3>2. drawer' \in BOOLEAN
        BY <3>1, RenderedFits
      <3>3. TypeOK'
        BY <1>1, <1>5, <3>2 DEF BootOk, LoggedIn, apiVars, flightVars, TypeOK,
           CheckIsFresh
      <3>4. OnlyIssuedAsk' /\ CheckIsFresh'
        BY <1>1, <1>5 DEF BootOk, LoggedIn, apiVars, flightVars, TypeOK, OnlyIssuedAsk,
           CheckIsFresh
      <3> QED
        BY <3>3, <3>4
    <2>2. ShownOwnsStored' /\ StoredIsExpected'
      BY <1>1, <1>2, <1>5 DEF BootOk, LoggedIn, apiVars, flightVars, TypeOK,
         OnlyIssuedAsk, CheckIsFresh,
         ShownOwnsStored, StoredIsExpected
    <2>3. RouteFits'
      <3>1. Rendered(path) /\ (status' = "authenticated" => user' \in User)
        BY <1>1, <1>5 DEF BootOk, LoggedIn, apiVars, flightVars, TypeOK, CheckIsFresh
      <3> QED
        BY <3>1, RenderedFits
    <2> QED
      BY <2>1, <2>2, <2>3 DEF SessionInv, SessionIsCoherent
  <1>6. CASE BootFails
    <2>1. TypeOK' /\ OnlyIssuedAsk' /\ CheckIsFresh'
      <3>1. Rendered(path) /\ (status' = "authenticated" => user' \in User)
        BY <1>1, <1>6 DEF BootFails, Cleared, apiVars, flightVars, TypeOK, CheckIsFresh
      <3>2. drawer' \in BOOLEAN
        BY <3>1, RenderedFits
      <3>3. TypeOK'
        BY <1>1, <1>6, <3>2 DEF BootFails, Cleared, apiVars, flightVars, TypeOK,
           CheckIsFresh
      <3>4. OnlyIssuedAsk' /\ CheckIsFresh'
        BY <1>1, <1>6 DEF BootFails, Cleared, apiVars, flightVars, TypeOK,
           OnlyIssuedAsk, CheckIsFresh
      <3> QED
        BY <3>3, <3>4
    <2>2. ShownOwnsStored' /\ StoredIsExpected'
      BY <1>1, <1>2, <1>6 DEF BootFails, Cleared, apiVars, flightVars, TypeOK,
         OnlyIssuedAsk, CheckIsFresh,
         ShownOwnsStored, StoredIsExpected
    <2>3. RouteFits'
      <3>1. Rendered(path) /\ (status' = "authenticated" => user' \in User)
        BY <1>1, <1>6 DEF BootFails, Cleared, apiVars, flightVars, TypeOK, CheckIsFresh
      <3> QED
        BY <3>1, RenderedFits
    <2> QED
      BY <2>1, <2>2, <2>3 DEF SessionInv, SessionIsCoherent
  <1>7. CASE HandleSubmit
    <2>1. TypeOK' /\ OnlyIssuedAsk' /\ CheckIsFresh'
      BY <1>1, <1>7 DEF HandleSubmit, apiVars, flightVars, TypeOK, OnlyIssuedAsk,
         CheckIsFresh
    <2>2. ShownOwnsStored' /\ StoredIsExpected'
      BY <1>1, <1>2, <1>7 DEF HandleSubmit, apiVars, flightVars, TypeOK, OnlyIssuedAsk,
         CheckIsFresh,
         ShownOwnsStored, StoredIsExpected
    <2>3. RouteFits'
      BY <1>2, <1>7 DEF HandleSubmit, apiVars, flightVars, RouteFits
    <2> QED
      BY <2>1, <2>2, <2>3 DEF SessionInv, SessionIsCoherent
  <1>8. CASE CredentialsWrong
    <2>1. TypeOK' /\ OnlyIssuedAsk' /\ CheckIsFresh'
      <3>1. Rendered(path) /\ (status' = "authenticated" => user' \in User)
        BY <1>1, <1>8 DEF CredentialsWrong, Cleared, apiVars, flightVars, TypeOK,
           CheckIsFresh
      <3>2. drawer' \in BOOLEAN
        BY <3>1, RenderedFits
      <3>3. TypeOK'
        BY <1>1, <1>8, <3>2 DEF CredentialsWrong, Cleared, apiVars, flightVars, TypeOK,
           CheckIsFresh
      <3>4. OnlyIssuedAsk' /\ CheckIsFresh'
        BY <1>1, <1>8 DEF CredentialsWrong, Cleared, apiVars, flightVars, TypeOK,
           OnlyIssuedAsk, CheckIsFresh
      <3> QED
        BY <3>3, <3>4
    <2>2. ShownOwnsStored' /\ StoredIsExpected'
      BY <1>1, <1>2, <1>8 DEF CredentialsWrong, Cleared, apiVars, flightVars, TypeOK,
         OnlyIssuedAsk, CheckIsFresh,
         ShownOwnsStored, StoredIsExpected
    <2>3. RouteFits'
      <3>1. Rendered(path) /\ (status' = "authenticated" => user' \in User)
        BY <1>1, <1>8 DEF CredentialsWrong, Cleared, apiVars, flightVars, TypeOK,
           CheckIsFresh
      <3> QED
        BY <3>1, RenderedFits
    <2> QED
      BY <2>1, <2>2, <2>3 DEF SessionInv, SessionIsCoherent
  <1>9. CASE CredentialsUnanswered
    <2>1. TypeOK' /\ OnlyIssuedAsk' /\ CheckIsFresh'
      BY <1>1, <1>9 DEF CredentialsUnanswered, apiVars, flightVars, TypeOK,
         OnlyIssuedAsk, CheckIsFresh
    <2>2. ShownOwnsStored' /\ StoredIsExpected'
      BY <1>1, <1>2, <1>9 DEF CredentialsUnanswered, apiVars, flightVars, TypeOK,
         OnlyIssuedAsk, CheckIsFresh,
         ShownOwnsStored, StoredIsExpected
    <2>3. RouteFits'
      BY <1>2, <1>9 DEF CredentialsUnanswered, apiVars, flightVars, RouteFits
    <2> QED
      BY <2>1, <2>2, <2>3 DEF SessionInv, SessionIsCoherent
  <1>10. CASE MeOk
    <2>1. TypeOK' /\ OnlyIssuedAsk' /\ CheckIsFresh'
      <3>1. Rendered(path) /\ (status' = "authenticated" => user' \in User)
        BY <1>1, <1>10 DEF MeOk, LoggedIn, apiVars, flightVars, TypeOK, CheckIsFresh
      <3>2. drawer' \in BOOLEAN
        BY <3>1, RenderedFits
      <3>3. TypeOK'
        BY <1>1, <1>10, <3>2 DEF MeOk, LoggedIn, apiVars, flightVars, TypeOK,
           CheckIsFresh
      <3>4. OnlyIssuedAsk' /\ CheckIsFresh'
        BY <1>1, <1>10 DEF MeOk, LoggedIn, apiVars, flightVars, TypeOK, OnlyIssuedAsk,
           CheckIsFresh
      <3> QED
        BY <3>3, <3>4
    <2>2. ShownOwnsStored' /\ StoredIsExpected'
      BY <1>1, <1>2, <1>10 DEF MeOk, LoggedIn, apiVars, flightVars, TypeOK,
         OnlyIssuedAsk, CheckIsFresh,
         ShownOwnsStored, StoredIsExpected
    <2>3. RouteFits'
      <3>1. Rendered(path) /\ (status' = "authenticated" => user' \in User)
        BY <1>1, <1>10 DEF MeOk, LoggedIn, apiVars, flightVars, TypeOK, CheckIsFresh
      <3> QED
        BY <3>1, RenderedFits
    <2> QED
      BY <2>1, <2>2, <2>3 DEF SessionInv, SessionIsCoherent
  <1>11. CASE MeRefused
    <2>1. TypeOK' /\ OnlyIssuedAsk' /\ CheckIsFresh'
      <3>1. Rendered(path) /\ (status' = "authenticated" => user' \in User)
        BY <1>1, <1>11 DEF MeRefused, Cleared, apiVars, flightVars, TypeOK, CheckIsFresh
      <3>2. drawer' \in BOOLEAN
        BY <3>1, RenderedFits
      <3>3. TypeOK'
        BY <1>1, <1>11, <3>2 DEF MeRefused, Cleared, apiVars, flightVars, TypeOK,
           CheckIsFresh
      <3>4. OnlyIssuedAsk' /\ CheckIsFresh'
        BY <1>1, <1>11 DEF MeRefused, Cleared, apiVars, flightVars, TypeOK,
           OnlyIssuedAsk, CheckIsFresh
      <3> QED
        BY <3>3, <3>4
    <2>2. ShownOwnsStored' /\ StoredIsExpected'
      BY <1>1, <1>2, <1>11 DEF MeRefused, Cleared, apiVars, flightVars, TypeOK,
         OnlyIssuedAsk, CheckIsFresh,
         ShownOwnsStored, StoredIsExpected
    <2>3. RouteFits'
      <3>1. Rendered(path) /\ (status' = "authenticated" => user' \in User)
        BY <1>1, <1>11 DEF MeRefused, Cleared, apiVars, flightVars, TypeOK, CheckIsFresh
      <3> QED
        BY <3>1, RenderedFits
    <2> QED
      BY <2>1, <2>2, <2>3 DEF SessionInv, SessionIsCoherent
  <1>12. CASE MeUnanswered
    <2>1. TypeOK' /\ OnlyIssuedAsk' /\ CheckIsFresh'
      BY <1>1, <1>12 DEF MeUnanswered, apiVars, flightVars, TypeOK, OnlyIssuedAsk,
         CheckIsFresh
    <2>2. ShownOwnsStored' /\ StoredIsExpected'
      BY <1>1, <1>2, <1>12 DEF MeUnanswered, apiVars, flightVars, TypeOK, OnlyIssuedAsk,
         CheckIsFresh,
         ShownOwnsStored, StoredIsExpected
    <2>3. RouteFits'
      BY <1>2, <1>12 DEF MeUnanswered, apiVars, flightVars, RouteFits
    <2> QED
      BY <2>1, <2>2, <2>3 DEF SessionInv, SessionIsCoherent
  <1>13. CASE HandleLogout
    <2>1. TypeOK' /\ OnlyIssuedAsk' /\ CheckIsFresh'
      <3>1. Rendered(path) /\ (status' = "authenticated" => user' \in User)
        BY <1>1, <1>13 DEF HandleLogout, Cleared, apiVars, checkVars, flightVars,
           TypeOK, CheckIsFresh
      <3>2. drawer' \in BOOLEAN
        BY <3>1, RenderedFits
      <3>3. TypeOK'
        BY <1>1, <1>13, <3>2 DEF HandleLogout, Cleared, apiVars, checkVars, flightVars,
           TypeOK, CheckIsFresh
      <3>4. OnlyIssuedAsk' /\ CheckIsFresh'
        BY <1>1, <1>13 DEF HandleLogout, Cleared, apiVars, checkVars, flightVars,
           TypeOK, OnlyIssuedAsk, CheckIsFresh
      <3> QED
        BY <3>3, <3>4
    <2>2. ShownOwnsStored' /\ StoredIsExpected'
      BY <1>1, <1>2, <1>13 DEF HandleLogout, Cleared, apiVars, checkVars, flightVars,
         TypeOK, OnlyIssuedAsk, CheckIsFresh,
         ShownOwnsStored, StoredIsExpected
    <2>3. RouteFits'
      <3>1. Rendered(path) /\ (status' = "authenticated" => user' \in User)
        BY <1>1, <1>13 DEF HandleLogout, Cleared, apiVars, checkVars, flightVars,
           TypeOK, CheckIsFresh
      <3> QED
        BY <3>1, RenderedFits
    <2> QED
      BY <2>1, <2>2, <2>3 DEF SessionInv, SessionIsCoherent
  <1>14. CASE Ask
    <2>1. TypeOK' /\ OnlyIssuedAsk' /\ CheckIsFresh'
      BY <1>1, <1>14 DEF Ask, apiVars, checkVars, TypeOK, OnlyIssuedAsk, CheckIsFresh
    <2>2. ShownOwnsStored' /\ StoredIsExpected'
      BY <1>1, <1>2, <1>14 DEF Ask, apiVars, checkVars, TypeOK, OnlyIssuedAsk,
         CheckIsFresh,
         ShownOwnsStored, StoredIsExpected
    <2>3. RouteFits'
      BY <1>2, <1>14 DEF Ask, apiVars, checkVars, RouteFits
    <2> QED
      BY <2>1, <2>2, <2>3 DEF SessionInv, SessionIsCoherent
  <1>15. CASE OpenDrawer
    <2>1. TypeOK' /\ OnlyIssuedAsk' /\ CheckIsFresh'
      BY <1>1, <1>15 DEF OpenDrawer, apiVars, checkVars, flightVars, TypeOK,
         OnlyIssuedAsk, CheckIsFresh
    <2>2. ShownOwnsStored' /\ StoredIsExpected'
      BY <1>1, <1>2, <1>15 DEF OpenDrawer, apiVars, checkVars, flightVars, TypeOK,
         OnlyIssuedAsk, CheckIsFresh,
         ShownOwnsStored, StoredIsExpected
    <2>3. RouteFits'
      BY <1>2, <1>15 DEF OpenDrawer, apiVars, checkVars, flightVars, RouteFits
    <2> QED
      BY <2>1, <2>2, <2>3 DEF SessionInv, SessionIsCoherent
  <1>16. ASSUME NEW t \in Token, CredentialsOk(t) PROVE SessionInv'
    <2>1. TypeOK' /\ OnlyIssuedAsk' /\ CheckIsFresh'
      BY <1>1, <1>16 DEF CredentialsOk, flightVars, TypeOK, OnlyIssuedAsk, CheckIsFresh
    <2>2. ShownOwnsStored' /\ StoredIsExpected'
      BY <1>1, <1>2, <1>16 DEF CredentialsOk, flightVars, TypeOK, OnlyIssuedAsk,
         CheckIsFresh,
         ShownOwnsStored, StoredIsExpected
    <2>3. RouteFits'
      BY <1>2, <1>16 DEF CredentialsOk, flightVars, RouteFits
    <2> QED
      BY <2>1, <2>2, <2>3 DEF SessionInv, SessionIsCoherent
  <1>17. ASSUME NEW t \in Token, Expire(t) PROVE SessionInv'
    <2>1. TypeOK' /\ OnlyIssuedAsk' /\ CheckIsFresh'
      BY <1>1, <1>17 DEF Expire, checkVars, flightVars, TypeOK, OnlyIssuedAsk,
         CheckIsFresh
    <2>2. ShownOwnsStored' /\ StoredIsExpected'
      BY <1>1, <1>2, <1>17 DEF Expire, checkVars, flightVars, TypeOK, OnlyIssuedAsk,
         CheckIsFresh,
         ShownOwnsStored, StoredIsExpected
    <2>3. RouteFits'
      BY <1>2, <1>17 DEF Expire, checkVars, flightVars, RouteFits
    <2> QED
      BY <2>1, <2>2, <2>3 DEF SessionInv, SessionIsCoherent
  <1>18. ASSUME NEW t \in Token \cup {NoToken}, Grant(t) PROVE SessionInv'
    <2>1. TypeOK' /\ OnlyIssuedAsk' /\ CheckIsFresh'
      BY <1>1, <1>18 DEF Grant, apiVars, checkVars, TypeOK, OnlyIssuedAsk, CheckIsFresh
    <2>2. ShownOwnsStored' /\ StoredIsExpected'
      BY <1>1, <1>2, <1>18 DEF Grant, apiVars, checkVars, TypeOK, OnlyIssuedAsk,
         CheckIsFresh,
         ShownOwnsStored, StoredIsExpected
    <2>3. RouteFits'
      BY <1>2, <1>18 DEF Grant, apiVars, checkVars, RouteFits
    <2> QED
      BY <2>1, <2>2, <2>3 DEF SessionInv, SessionIsCoherent
  <1>19. ASSUME NEW t \in Token \cup {NoToken}, Deny(t) PROVE SessionInv'
    <2>1. TypeOK' /\ OnlyIssuedAsk' /\ CheckIsFresh'
      BY <1>1, <1>19 DEF Deny, apiVars, checkVars, TypeOK, OnlyIssuedAsk, CheckIsFresh
    <2>2. ShownOwnsStored' /\ StoredIsExpected'
      BY <1>1, <1>2, <1>19 DEF Deny, apiVars, checkVars, TypeOK, OnlyIssuedAsk,
         CheckIsFresh,
         ShownOwnsStored, StoredIsExpected
    <2>3. RouteFits'
      BY <1>2, <1>19 DEF Deny, apiVars, checkVars, RouteFits
    <2> QED
      BY <2>1, <2>2, <2>3 DEF SessionInv, SessionIsCoherent
  <1>20. ASSUME NEW t \in Token \cup {NoToken}, Unauthorized(t) PROVE SessionInv'
    <2>1. TypeOK' /\ OnlyIssuedAsk' /\ CheckIsFresh'
      <3>1. Rendered(path) /\ (status' = "authenticated" => user' \in User)
        BY <1>1, <1>20 DEF Unauthorized, Cleared, apiVars, checkVars, TypeOK,
           CheckIsFresh
      <3>2. drawer' \in BOOLEAN
        BY <3>1, RenderedFits
      <3>3. disturbed' = (disturbed \/ stored \notin {NoToken, t}) /\ halfway' = FALSE
        BY <1>20 DEF Unauthorized, Cleared
      <3>4. {drawer', disturbed', halfway'} \subseteq BOOLEAN
        BY <1>1, <3>2, <3>3 DEF TypeOK
      <3>5. /\ refused[t] > 0 /\ refused' = [refused EXCEPT ![t] = @ - 1]
            /\ refused' \in [Token \cup {NoToken} -> Nat]
            /\ asked' = asked
        BY <1>1, <1>20 DEF Unauthorized, TypeOK
      <3>6. /\ stored' = NoToken /\ status' = "unauthenticated" /\ user' = NoUser
            /\ UNCHANGED <<issued, dead, step, checked, vouched>>
        BY <1>20 DEF Unauthorized, Cleared, apiVars, checkVars
      <3>7. TypeOK'
        BY <1>1, <3>4, <3>5, <3>6 DEF TypeOK
      <3>8. OnlyIssuedAsk'
        BY <1>1, <3>5, <3>6 DEF OnlyIssuedAsk, TypeOK
      <3>9. step \in {"boot", "me"} => refused'[checked] = 0 /\ t # checked
        BY <1>1, <3>5 DEF CheckIsFresh, TypeOK
      <3>10. step \in {"boot", "me"} => disturbed'
        BY <1>1, <3>3, <3>9 DEF CheckIsFresh
      <3>11. CheckIsFresh'
        BY <1>1, <3>5, <3>6, <3>9, <3>10 DEF CheckIsFresh
      <3> QED
        BY <3>7, <3>8, <3>11
    <2>2. ShownOwnsStored' /\ StoredIsExpected'
      BY <1>1, <1>2, <1>20 DEF Unauthorized, Cleared, apiVars, checkVars, TypeOK,
         OnlyIssuedAsk, CheckIsFresh,
         ShownOwnsStored, StoredIsExpected
    <2>3. RouteFits'
      <3>1. Rendered(path) /\ (status' = "authenticated" => user' \in User)
        BY <1>1, <1>20 DEF Unauthorized, Cleared, apiVars, checkVars, TypeOK,
           CheckIsFresh
      <3> QED
        BY <3>1, RenderedFits
    <2> QED
      BY <2>1, <2>2, <2>3 DEF SessionInv, SessionIsCoherent
  <1>21. ASSUME NEW t \in Token \cup {NoToken}, OtherTab(t) PROVE SessionInv'
    <2>1. TypeOK' /\ OnlyIssuedAsk' /\ CheckIsFresh'
      BY <1>1, <1>21 DEF OtherTab, checkVars, flightVars, TypeOK, OnlyIssuedAsk,
         CheckIsFresh
    <2>2. ShownOwnsStored' /\ StoredIsExpected'
      BY <1>1, <1>2, <1>21 DEF OtherTab, checkVars, flightVars, TypeOK, OnlyIssuedAsk,
         CheckIsFresh,
         ShownOwnsStored, StoredIsExpected
    <2>3. RouteFits'
      BY <1>2, <1>21 DEF OtherTab, checkVars, flightVars, RouteFits
    <2> QED
      BY <2>1, <2>2, <2>3 DEF SessionInv, SessionIsCoherent
  <1>22. ASSUME NEW p \in Visited, Go(p) PROVE SessionInv'
    <2>1. TypeOK' /\ OnlyIssuedAsk' /\ CheckIsFresh'
      <3>1. Rendered(p) /\ (status' = "authenticated" => user' \in User)
        BY <1>1, <1>22 DEF Go, apiVars, checkVars, flightVars, TypeOK, CheckIsFresh
      <3>2. drawer' \in BOOLEAN
        BY <3>1, RenderedFits
      <3>3. TypeOK'
        BY <1>1, <1>22, <3>2 DEF Go, apiVars, checkVars, flightVars, TypeOK,
           CheckIsFresh
      <3>4. OnlyIssuedAsk' /\ CheckIsFresh'
        BY <1>1, <1>22 DEF Go, apiVars, checkVars, flightVars, TypeOK, OnlyIssuedAsk,
           CheckIsFresh
      <3> QED
        BY <3>3, <3>4
    <2>2. ShownOwnsStored' /\ StoredIsExpected'
      BY <1>1, <1>2, <1>22 DEF Go, apiVars, checkVars, flightVars, TypeOK,
         OnlyIssuedAsk, CheckIsFresh,
         ShownOwnsStored, StoredIsExpected
    <2>3. RouteFits'
      <3>1. Rendered(p) /\ (status' = "authenticated" => user' \in User)
        BY <1>1, <1>22 DEF Go, apiVars, checkVars, flightVars, TypeOK, CheckIsFresh
      <3> QED
        BY <3>1, RenderedFits
    <2> QED
      BY <2>1, <2>2, <2>3 DEF SessionInv, SessionIsCoherent
  <1>23. CASE UNCHANGED sessionVars
    BY <1>1, <1>2, <1>23 DEF sessionVars, SessionInv, TypeOK, OnlyIssuedAsk, CheckIsFresh,
       SessionIsCoherent, ShownOwnsStored, StoredIsExpected, RouteFits
  <1> QED
    BY <1>3, <1>4, <1>5, <1>6, <1>7, <1>8, <1>9, <1>10, <1>11, <1>12, <1>13, <1>14,
       <1>15, <1>16, <1>17, <1>18, <1>19, <1>20, <1>21, <1>22, <1>23 DEF Next

\* The session's variables keep their types (BrowserSession).
THEOREM TypeCorrect == Spec => []TypeOK
  <1>1. SessionInv => TypeOK
    BY DEF SessionInv
  <1> QED
    BY SessionStarts, SessionGoesOn, <1>1, PTL DEF Spec

\* The user on the screen owns the stored token, a token is stored without a
\* user only where the code leaves it there, and the route fits the session,
\* whatever other tabs, late refusals and failed logins do
\* (AuthProvider.tsx:39, client.ts:66, AppRouter.tsx:26).
THEOREM Coherent == Spec => []SessionIsCoherent
  <1>1. SessionInv => SessionIsCoherent
    BY DEF SessionInv
  <1> QED
    BY SessionStarts, SessionGoesOn, <1>1, PTL DEF Spec

-----------------------------------------------------------------------------
(***************************************************************************)
(* The lists                                                               *)
(***************************************************************************)

Screens == {"seller", "opsItems", "opsQueue", "buyer", "offers", "dashboard"}

\* The view answers the newest request, or that request alone is in flight.
AnswersNewest ==
    \/ net = <<L!Request(screen, url, seen)>>
    \/ /\ net = <<>>
       /\ view.status = "success" => view.data.request = L!Request(screen, url, seen)

ListInv ==
    /\ role \in {"buyer", "seller", "ops"}
    /\ screen \in Screens
    /\ overlapped \in BOOLEAN
    /\ ~overlapped => AnswersNewest

\* Equal dependencies make equal requests, on each page.
LEMMA DepsDecide ==
  ASSUME NEW s \in Screens, NEW u, NEW k, NEW w, NEW m,
         L!Deps(s, u, k) = L!Deps(s, w, m)
  PROVE  L!Request(s, u, k) = L!Request(s, w, m)
  <1>1. CASE s = "seller"
    BY <1>1 DEF L!Deps, L!Request, L!Page, L!SellerOrdersListPage
  <1>2. CASE s = "opsItems"
    BY <1>2 DEF L!Deps, L!Request, L!Page, L!OpsOrderItemsListPage
  <1>3. CASE s = "opsQueue"
    BY <1>3 DEF L!Deps, L!Request, L!Page, L!OpsQueuePage
  <1>4. CASE s = "buyer"
    BY <1>4 DEF L!Deps, L!Request, L!Page, L!OrdersListPage, L!Whole
  <1>5. CASE s = "offers"
    BY <1>5 DEF L!Deps, L!Request, L!Page, L!SellerOffersListPage, L!Whole
  <1>6. CASE s = "dashboard"
    BY <1>6 DEF L!Deps, L!Request, L!Page, L!DashboardPage, L!Whole
  <1> QED
    BY <1>1, <1>2, <1>3, <1>4, <1>5, <1>6 DEF Screens

\* A render loads the request of its own URL and copies, or changes nothing.
LEMMA RenderCases ==
  ASSUME NEW u, NEW k, L!Render(u, k)
  PROVE  \/ /\ L!Deps(screen, u, k) = L!Deps(screen, url, seen)
            /\ UNCHANGED <<net, view, overlapped>>
         \/ L!Load(L!Request(screen, u, k))
  BY DEF L!Render

\* The answer to the only request leaves none.
LEMMA RemoveOnly == ASSUME NEW r, NEW i \in DOMAIN <<r>> PROVE L!RemoveAt(<<r>>, i) = <<>>
  BY DEF L!RemoveAt

\* A request that is sent when nothing is in flight is alone there.
LEMMA LoadAnswers ==
  ASSUME NEW request, L!Load(request), ~overlapped'
  PROVE  net' = <<request>>
  <1>1. net = <<>>
    BY Zenon DEF L!Load
  <1>2. net' = Append(net, request)
    BY Zenon DEF L!Load, L!Requested
  <1>3. Append(<<>>, request) = <<request>>
    OBVIOUS
  <1> QED
    BY <1>1, <1>2, <1>3

\* The effect of useAsync keeps the invariant.
LEMMA RenderKeeps ==
  ASSUME ListInv, NEW u, NEW k, L!Render(u, k)
  PROVE  ListInv'
  <1>1. /\ url' = u /\ seen' = k
        /\ role' = role /\ screen' = screen
    BY DEF L!Render
  <1>2. CASE /\ L!Deps(screen, u, k) = L!Deps(screen, url, seen)
             /\ UNCHANGED <<net, view, overlapped>>
    <2>1. L!Request(screen, u, k) = L!Request(screen, url, seen)
      BY <1>2, DepsDecide DEF ListInv
    <2> QED
      BY <1>1, <1>2, <2>1 DEF ListInv, AnswersNewest
  <1>3. CASE L!Load(L!Request(screen, u, k))
    <2>1. overlapped' \in BOOLEAN
      BY <1>3 DEF L!Load
    <2>2. ~overlapped' => AnswersNewest'
      BY <1>1, <1>3, LoadAnswers DEF AnswersNewest
    <2> QED
      BY <1>1, <2>1, <2>2 DEF ListInv
  <1> QED
    BY <1>2, <1>3, RenderCases

\* Every link leads to a page that exists, the search to the catalog leaves
\* the lists.
LEMMA LinksLead ==
  ASSUME role \in {"buyer", "seller", "ops"}, NEW link \in L!Links
  PROVE  link.screen \in Screens
  <1>1. CASE link \in L!NavItems[role]
    BY <1>1 DEF L!NavItems, L!To, Screens
  <1>2. CASE link \in L!DashboardLinks[role]
    BY <1>2 DEF L!DashboardLinks, L!BuyerDashboardView, L!SellerDashboardView, L!OpsDashboardView,
                L!To, L!With, Screens
  <1>3. ASSUME NEW text, link = L!GlobalSearch(role, text), link.screen # "catalog"
        PROVE  link.screen \in Screens
    BY <1>3 DEF L!GlobalSearch, L!OrderList, L!To, L!With, Screens
  <1> QED
    BY <1>1, <1>2, <1>3 DEF L!Links

\* The page that is mounted first has asked for its list.
LEMMA ListStarts == L!Init => ListInv
  <1> SUFFICES ASSUME L!Init
               PROVE  ListInv
    OBVIOUS
  <1>1. role \in {"buyer", "seller", "ops"}
    BY DEF L!Init, L!NavItems
  <1>2. screen \in Screens
    BY <1>1 DEF L!Init, L!Home, Screens
  <1>3. AnswersNewest
    BY DEF L!Init, L!Opened, AnswersNewest
  <1> QED
    BY <1>1, <1>2, <1>3 DEF L!Init, ListInv

\* Every action keeps the invariant.
LEMMA ListGoesOn == ListInv /\ [L!Next]_(L!listVars) => ListInv'
  <1> SUFFICES ASSUME ListInv, [L!Next]_(L!listVars)
               PROVE  ListInv'
    OBVIOUS
  <1>1. ASSUME NEW u, NEW k, L!Render(u, k)
        PROVE  ListInv'
    BY <1>1, RenderKeeps
  <1>2. ASSUME NEW key, NEW value, L!SetFilter(key, value)
        PROVE  ListInv'
    BY <1>1, <1>2 DEF L!SetFilter
  <1>3. ASSUME NEW text, L!TypeLookup(text)
        PROVE  ListInv'
    BY <1>1, <1>3 DEF L!TypeLookup
  <1>4. ASSUME NEW chip, L!RemoveChip(chip)
        PROVE  ListInv'
    BY <1>1, <1>4 DEF L!RemoveChip
  <1>5. CASE L!ClearAll \/ L!PreviousPage \/ L!NextPage
    BY <1>1, <1>5 DEF L!ClearAll, L!PreviousPage, L!NextPage
  <1>6. ASSUME NEW field, L!Settle(field)
        PROVE  ListInv'
    BY <1>1, <1>6 DEF L!Settle
  <1>7. ASSUME NEW link, L!FollowHere(link)
        PROVE  ListInv'
    BY <1>1, <1>7 DEF L!FollowHere
  <1>8. ASSUME NEW link, L!FollowAway(link)
        PROVE  ListInv'
    <2>1. screen' \in Screens
      BY <1>8, LinksLead DEF L!FollowAway, ListInv
    <2>2. AnswersNewest'
      BY <1>8 DEF L!FollowAway, L!Opened, AnswersNewest
    <2> QED
      BY <1>8, <2>1, <2>2 DEF L!FollowAway, ListInv
  <1>9. CASE L!Retry
    <2>1. /\ UNCHANGED <<role, screen, url, seen>>
          /\ L!Load(L!Request(screen, url, seen))
      BY <1>9 DEF L!Retry
    <2>2. ~overlapped' => AnswersNewest'
      BY <2>1, LoadAnswers DEF AnswersNewest
    <2> QED
      BY <2>1, <2>2 DEF ListInv, L!Load
  <1>10. ASSUME NEW i \in DOMAIN net, NEW data \in L!Answers(net[i]), L!Answer(i, data)
         PROVE  ListInv'
    <2>1. data.request = net[i]
      BY DEF L!Answers
    <2>2. ASSUME ~overlapped
          PROVE  AnswersNewest'
      <3>1. net = <<L!Request(screen, url, seen)>>
        BY <2>2 DEF ListInv, AnswersNewest
      <3>2. net' = <<>> /\ i = 1
        BY <1>10, <3>1, RemoveOnly DEF L!Answer
      <3>3. view' = L!Success(data) /\ UNCHANGED <<screen, url, seen>>
        BY <1>10 DEF L!Answer, L!Arrived
      <3> QED
        BY <2>1, <3>1, <3>2, <3>3 DEF AnswersNewest, L!Success, L!Request
    <2> QED
      BY <1>10, <2>2 DEF L!Answer, ListInv
  <1>11. ASSUME NEW i \in DOMAIN net, L!Fail(i)
         PROVE  ListInv'
    <2>1. ASSUME ~overlapped
          PROVE  AnswersNewest'
      <3>1. net = <<L!Request(screen, url, seen)>>
        BY <2>1 DEF ListInv, AnswersNewest
      <3>2. net' = <<>>
        BY <1>11, <3>1, RemoveOnly DEF L!Fail
      <3>3. view'.status # "success"
        BY <1>11 DEF L!Fail, L!Failed
      <3> QED
        BY <3>2, <3>3 DEF AnswersNewest
    <2> QED
      BY <1>11, <2>1 DEF L!Fail, ListInv
  <1>12. CASE UNCHANGED (L!listVars)
    BY <1>12 DEF L!listVars, ListInv, AnswersNewest
  <1> QED
    BY <1>2, <1>3, <1>4, <1>5, <1>6, <1>7, <1>8, <1>9, <1>10, <1>11, <1>12 DEF L!Next

LEMMA ListShows == ListInv => L!ShownIsAsked
  BY DEF ListInv, AnswersNewest, L!ShownIsAsked

\* The table of a list answers the URL: when the text fields have settled and
\* nothing is in flight, what useAsync shows is the answer to the request the
\* page would send now, unless two of its requests overlapped.
THEOREM ShowsWhatIsAsked == L!Spec => []L!ShownIsAsked
  BY ListShows, ListStarts, ListGoesOn, PTL DEF L!Spec

\* A URL, as the pages write it.
UrlOK(u) ==
  /\ DOMAIN u = {"filters", "page"} /\ DOMAIN u.filters = L!FilterKeys
  /\ u.page \in 1 .. MaxTotal + 1

\* What is shown was counted, and something is awaited while nothing is shown.
ListTyped ==
  /\ role \in {"buyer", "seller", "ops"} /\ screen \in L!Home[role] \cup {"dashboard"}
  /\ UrlOK(url)
  /\ IsSeq(net) /\ Len(net) <= MaxRequests
  /\ view.status \in {"loading", "error", "success"}
  /\ view.status = "loading" => Len(net) > 0
  /\ view.status = "success" => view.data.total \in 0 .. MaxTotal
  /\ overlapped \in BOOLEAN
  /\ clicks \in 0 .. ListClicks

LEMMA ListNumbers ==
  PageSize \in Nat \ {0} /\ MaxTotal \in Nat /\ ListClicks \in Nat /\ MaxRequests \in Nat \ {0}
  BY FrontendAssumption DEF L!ListConstants

LEMMA UrlsWritten ==
  ASSUME UrlOK(url), NEW key, NEW value, NEW text, NEW n \in 1 .. MaxTotal + 1
  PROVE  /\ UrlOK(L!NoFilters) /\ UrlOK(L!Put(url, key, value)) /\ UrlOK(L!PutPage(url, n))
         /\ UrlOK(L!ApplyLookup(url, text)) /\ UrlOK(L!ClearLookup(url))
         /\ UrlOK(L!Put(L!NoFilters, key, value))
  <1>1. 1 \in 1 .. MaxTotal + 1
    BY ListNumbers
  <1>2. ASSUME NEW u, UrlOK(u), NEW k, NEW v
        PROVE  UrlOK(L!Put(u, k, v))
    BY <1>1, <1>2 DEF UrlOK, L!Put
  <1>3. UrlOK(L!NoFilters)
    BY <1>1 DEF UrlOK, L!NoFilters
  <1>4. UrlOK(L!PutPage(url, n))
    BY DEF UrlOK, L!PutPage
  <1>5. UrlOK(L!ApplyLookup(url, text)) /\ UrlOK(L!ClearLookup(url))
    BY <1>2 DEF L!ApplyLookup, L!ClearLookup, L!PutBoth
  <1> QED
    BY <1>2, <1>3, <1>4, <1>5

\* The links of a role lead to its pages.
LEMMA LinksFit ==
  ASSUME ListTyped, NEW link \in L!Links
  PROVE  link.screen \in L!Home[role] \cup {"dashboard"} /\ UrlOK(link.url)
  <1>1. \A key, value : UrlOK(L!NoFilters) /\ UrlOK(L!Put(L!NoFilters, key, value))
    BY UrlsWritten, ListNumbers DEF ListTyped, UrlOK
  <1>2. /\ \A s : L!To(s).screen = s /\ UrlOK(L!To(s).url)
        /\ \A s, key, value :
             L!With(s, key, value).screen = s /\ UrlOK(L!With(s, key, value).url)
    BY <1>1 DEF L!To, L!With
  <1>3. PICK own : own = L!Home[role] \cup {"dashboard"}
    OBVIOUS
  <1>4. CASE link \in L!NavItems[role]
    <2>1. \E s \in own : link = L!To(s)
      BY <1>3, <1>4 DEF L!NavItems, L!Home, ListTyped
    <2> QED
      BY <1>2, <1>3, <2>1
  <1>5. CASE link \in L!DashboardLinks[role]
    <2>1. \E s \in own : link = L!To(s) \/ \E key, value : link = L!With(s, key, value)
      <3>1. CASE role = "buyer"
        BY <1>3, <1>5, <3>1 DEF L!DashboardLinks, L!BuyerDashboardView, L!Home
      <3>2. CASE role = "seller"
        BY <1>3, <1>5, <3>2 DEF L!DashboardLinks, L!SellerDashboardView, L!Home
      <3>3. CASE role = "ops"
        BY <1>3, <1>5, <3>3 DEF L!DashboardLinks, L!OpsDashboardView, L!Home
      <3> QED
        BY <3>1, <3>2, <3>3 DEF ListTyped
    <2> QED
      BY <1>2, <1>3, <2>1
  <1>6. ASSUME NEW text, link = L!GlobalSearch(role, text), link.screen # "catalog"
        PROVE  link.screen \in own /\ UrlOK(link.url)
    <2>1. L!OrderList[role] \in own
      BY <1>3 DEF L!OrderList, L!Home, ListTyped
    <2>2. \E key, value : link = L!With(L!OrderList[role], key, value)
      BY <1>2, <1>6 DEF L!GlobalSearch
    <2> QED
      BY <1>2, <2>1, <2>2
  <1> QED
    BY <1>3, <1>4, <1>5, <1>6 DEF L!Links

\* A load, and a render, which loads or not.
LEMMA LoadTyped ==
  ASSUME IsSeq(net), NEW request, L!Load(request)
  PROVE  /\ IsSeq(net') /\ Len(net') <= MaxRequests /\ Len(net') > 0
         /\ view'.status = "loading" /\ overlapped' \in BOOLEAN
  <1>1. Len(net) < MaxRequests /\ net' = Append(net, request) /\ view' = L!Loading
        /\ overlapped' = (net # <<>>)
    BY DEF L!Load, L!Requested
  <1>2. IsSeq(net') /\ Len(net') = Len(net) + 1 /\ Len(net) \in Nat
    BY <1>1, Appended, Indices
  <1> QED
    BY <1>1, <1>2, ListNumbers DEF L!Loading

LEMMA RenderTyped ==
  ASSUME ListTyped, NEW u, NEW k, UrlOK(u), L!Render(u, k), clicks' \in 0 .. ListClicks
  PROVE  ListTyped'
  <1>1. url' = u /\ UNCHANGED <<role, screen>>
    BY DEF L!Render
  <1>2. CASE UNCHANGED <<net, view, overlapped>>
    BY <1>1, <1>2 DEF ListTyped, UrlOK
  <1>3. CASE L!Load(L!Request(screen, u, k))
    <2>1. /\ IsSeq(net') /\ Len(net') <= MaxRequests /\ Len(net') > 0
          /\ view'.status = "loading" /\ overlapped' \in BOOLEAN
      BY <1>3, LoadTyped DEF ListTyped
    <2> QED
      BY <1>1, <2>1 DEF ListTyped, UrlOK
  <1> QED
    BY <1>2, <1>3, RenderCases

LEMMA ListTypedStarts == L!Init => ListTyped
  <1> SUFFICES ASSUME L!Init
               PROVE  ListTyped
    OBVIOUS
  <1>1. role \in {"buyer", "seller", "ops"}
    BY DEF L!Init, L!NavItems
  <1>2. UrlOK(url)
    <2>1. UrlOK(L!NoFilters) /\ \A key : UrlOK(L!Put(L!NoFilters, key, Junk))
      <3>1. UrlOK(L!NoFilters)
        BY ListNumbers DEF UrlOK, L!NoFilters
      <3>2. \A key : UrlOK(L!Put(L!NoFilters, key, Junk))
        BY ListNumbers DEF UrlOK, L!NoFilters, L!Put
      <3> QED
        BY <3>1, <3>2
    <2> QED
      BY <2>1 DEF L!Init, L!Bookmarks
  <1>3. \E request : net = <<request>>
    BY DEF L!Init, L!Opened
  <1>4. IsSeq(net) /\ Len(net) = 1
    BY <1>3 DEF IsSeq
  <1>5. view.status = "loading" /\ overlapped = FALSE /\ clicks = 0
        /\ screen \in L!Home[role] \cup {"dashboard"}
    BY DEF L!Init, L!Loading
  <1>6. Len(net) <= MaxRequests /\ Len(net) > 0 /\ clicks \in 0 .. ListClicks
    BY <1>4, <1>5, ListNumbers
  <1> QED
    BY <1>1, <1>2, <1>4, <1>5, <1>6 DEF ListTyped

\* A page of the list is turned to where it has rows.
LEMMA PagesTurn ==
  ASSUME ListTyped, L!PreviousPage \/ L!NextPage
  PROVE  ListTyped'
  <1>1. clicks' \in 0 .. ListClicks
    BY ListNumbers DEF L!PreviousPage, L!NextPage, L!Click, ListTyped
  <1>2. url.page \in 1 .. MaxTotal + 1 /\ UrlOK(url)
    BY DEF ListTyped, UrlOK
  <1>3. CASE L!PreviousPage
    <2>1. url.page - 1 \in 1 .. MaxTotal + 1 /\ L!Render(L!PutPage(url, url.page - 1), seen)
      BY <1>2, <1>3, ListNumbers DEF L!PreviousPage
    <2> QED
      BY <1>1, <1>2, <2>1, UrlsWritten, RenderTyped
  <1>4. CASE L!NextPage
    <2>1. /\ L!Fields(screen) # {} /\ L!Shown = "table" /\ L!HasNextPage
          /\ L!Render(L!PutPage(url, url.page + 1), seen)
      BY <1>4 DEF L!NextPage
    <2>2. view.status = "success"
      <3>1. screen \in {"seller", "opsItems", "opsQueue"}
        BY <2>1 DEF L!Fields
      <3>2. \E filtered \in BOOLEAN : L!Section(view, L!Rows(url, view), filtered) = "table"
        BY <2>1, <3>1 DEF L!Shown, L!SellerSection, L!OpsItemsSection, L!OpsQueueSection
      <3>3. L!Rows(url, view) \in BOOLEAN /\ (L!Rows(url, view) => view.status = "success")
        BY DEF L!Rows
      <3>4. ASSUME NEW rows \in BOOLEAN, rows => view.status = "success",
                   NEW filtered \in BOOLEAN, L!Section(view, rows, filtered) = "table"
            PROVE  view.status = "success"
        <4>1. view.status # "loading"
          BY <3>4 DEF L!Section
        <4>2. view.status # "error"
          BY <3>4 DEF L!Section
        <4> QED
          BY <4>1, <4>2 DEF ListTyped
      <3> QED
        BY <3>2, <3>3, <3>4
    <2>3. PICK n, k : n = url.page /\ k = PageSize - 1
      OBVIOUS
    <2>4. n \in Nat /\ n >= 1 /\ k \in Nat /\ PageSize = k + 1 /\ view.data.total \in 0 .. MaxTotal
      BY <1>2, <2>2, <2>3, ListNumbers DEF ListTyped
    <2>5. n * (k + 1) = n * k + n /\ n * k >= 0
      BY <2>4
    <2>6. n < MaxTotal
      <3>1. n * (k + 1) < view.data.total
        BY <2>1, <2>3, <2>4 DEF L!HasNextPage
      <3>2. PICK m : m = n * k
        OBVIOUS
      <3>3. m \in Nat
        BY <2>4, <3>2
      <3> QED
        BY <2>4, <2>5, <3>1, <3>2, <3>3, ListNumbers
    <2>7. url.page + 1 \in 1 .. MaxTotal + 1
      BY <2>3, <2>4, <2>6, ListNumbers
    <2> QED
      BY <1>1, <1>2, <2>1, <2>7, UrlsWritten, RenderTyped
  <1> QED
    BY <1>3, <1>4

LEMMA AnswersTyped ==
  ASSUME ListTyped, NEW i \in DOMAIN net,
         (\E data \in L!Answers(net[i]) : L!Answer(i, data)) \/ L!Fail(i)
  PROVE  ListTyped'
  <1>1. /\ net' = L!RemoveAt(net, i)
        /\ UNCHANGED <<role, screen, url, overlapped, clicks>>
    BY DEF L!Answer, L!Fail
  <1>2. IsSeq(net') /\ Len(net') <= MaxRequests
    <2>1. L!RemoveAt(net, i) = RemoveAt(net, i)
      BY DEF L!RemoveAt, RemoveAt
    <2>2. IsSeq(net') /\ Len(net') = Len(net) - 1 /\ Len(net) \in Nat
      BY <1>1, <2>1, Removed, Indices DEF ListTyped
    <2> QED
      BY <2>2, ListNumbers DEF ListTyped
  <1>3. /\ view'.status \in {"error", "success"}
        /\ view'.status = "success" => view'.data.total \in 0 .. MaxTotal
    BY DEF L!Answer, L!Fail, L!Answers, L!Arrived, L!Success, L!Failed
  <1> QED
    BY <1>1, <1>2, <1>3 DEF ListTyped, UrlOK

LEMMA ListTypedGoesOn == ListTyped /\ [L!Next]_(L!listVars) => ListTyped'
  <1> SUFFICES ASSUME ListTyped, [L!Next]_(L!listVars)
               PROVE  ListTyped'
    OBVIOUS
  <1>1. \A key, value, text :
          /\ UrlOK(url) /\ UrlOK(L!NoFilters) /\ UrlOK(L!Put(url, key, value))
          /\ UrlOK(L!ApplyLookup(url, text)) /\ UrlOK(L!ClearLookup(url))
    <2>1. UrlOK(url) /\ 1 \in 1 .. MaxTotal + 1
      BY ListNumbers DEF ListTyped
    <2> QED
      BY <2>1, UrlsWritten
  <1>2. L!Click => clicks' \in 0 .. ListClicks
    BY ListNumbers DEF L!Click, ListTyped
  <1>3. ASSUME NEW key, NEW value, L!SetFilter(key, value)
        PROVE  ListTyped'
    BY <1>1, <1>2, <1>3, RenderTyped DEF L!SetFilter
  <1>4. ASSUME NEW text, L!TypeLookup(text)
        PROVE  ListTyped'
    BY <1>1, <1>2, <1>4, RenderTyped DEF L!TypeLookup
  <1>5. ASSUME NEW chip, L!RemoveChip(chip)
        PROVE  ListTyped'
    <2>1. PICK u : u = IF chip = "lookup" THEN L!ClearLookup(url) ELSE L!Put(url, chip, "")
      OBVIOUS
    <2>2. UrlOK(u)
      BY <1>1, <2>1
    <2>3. L!Render(u, seen) /\ L!Click
      BY <1>5, <2>1 DEF L!RemoveChip
    <2> QED
      BY <1>2, <2>2, <2>3, RenderTyped
  <1>6. CASE L!ClearAll
    BY <1>1, <1>2, <1>6, RenderTyped DEF L!ClearAll
  <1>7. CASE L!PreviousPage \/ L!NextPage
    BY <1>7, PagesTurn
  <1>8. ASSUME NEW field, L!Settle(field)
        PROVE  ListTyped'
    <2>1. clicks' \in 0 .. ListClicks /\ \E k : L!Render(url, k)
      BY <1>8 DEF L!Settle, ListTyped
    <2> QED
      BY <1>1, <2>1, RenderTyped
  <1>9. ASSUME NEW link \in L!Links, L!FollowHere(link)
        PROVE  ListTyped'
    BY <1>2, <1>9, LinksFit, RenderTyped DEF L!FollowHere
  <1>10. ASSUME NEW link \in L!Links, L!FollowAway(link)
         PROVE  ListTyped'
    <2>1. link.screen \in L!Home[role] \cup {"dashboard"} /\ UrlOK(link.url)
      BY LinksFit
    <2>2. /\ screen' = link.screen /\ url' = link.url /\ UNCHANGED role
          /\ view' = L!Loading /\ overlapped' = FALSE /\ \E request : net' = <<request>>
      BY <1>10 DEF L!FollowAway, L!Opened
    <2>3. IsSeq(net') /\ Len(net') = 1
      BY <2>2 DEF IsSeq
    <2>4. clicks' \in 0 .. ListClicks
      BY <1>2, <1>10 DEF L!FollowAway
    <2>5. view'.status = "loading" /\ overlapped' \in BOOLEAN
      BY <2>2 DEF L!Loading
    <2>6. Len(net') <= MaxRequests /\ Len(net') > 0
      BY <2>3, ListNumbers
    <2>7. UrlOK(url)' /\ screen' \in L!Home[role'] \cup {"dashboard"}
      BY <2>1, <2>2 DEF UrlOK
    <2> QED
      BY <2>2, <2>3, <2>4, <2>5, <2>6, <2>7 DEF ListTyped
  <1>11. CASE L!Retry
    <2>1. clicks' \in 0 .. ListClicks /\ UNCHANGED <<role, screen, url>>
          /\ L!Load(L!Request(screen, url, seen))
      BY <1>2, <1>11 DEF L!Retry
    <2>2. /\ IsSeq(net') /\ Len(net') <= MaxRequests /\ Len(net') > 0
          /\ view'.status = "loading" /\ overlapped' \in BOOLEAN
      BY <2>1, LoadTyped DEF ListTyped
    <2> QED
      BY <2>1, <2>2 DEF ListTyped, UrlOK
  <1>12. CASE UNCHANGED (L!listVars)
    BY <1>12 DEF L!listVars, ListTyped, UrlOK
  <1> QED
    BY <1>3, <1>4, <1>5, <1>6, <1>7, <1>8, <1>9, <1>10, <1>11, <1>12, AnswersTyped DEF L!Next

LEMMA ListTypes == ListTyped => L!TypeOK
  <1> SUFFICES ASSUME ListTyped
               PROVE  L!TypeOK
    OBVIOUS
  <1>1. view.status = "loading" => net # <<>>
    BY DEF ListTyped
  <1>2. role \in DOMAIN L!NavItems
    BY DEF ListTyped, L!NavItems
  <1> QED
    BY <1>1, <1>2 DEF ListTyped, UrlOK, L!TypeOK

-----------------------------------------------------------------------------
(***************************************************************************)
(* The catalog                                                             *)
(***************************************************************************)

\* A page after the first one has cards.
OnItsPage ==
  \/ url.page = 1
  \/ C!Settled /\ view.status = "success" /\ (url.page - 1) * CardsPerPage < Len(C!Visible)

CatalogInv == C!TypeOK /\ (~astray => OnItsPage)

LEMMA CatalogNumbers ==
  /\ CardsPerPage \in Nat \ {0} /\ CatalogClicks \in Nat
  /\ \A shelf \in Shelves : IsFiniteSet(DOMAIN shelf.products)
  BY FrontendAssumption DEF C!CatalogConstants, C!IsFiniteSet, IsFiniteSet

\* The cards are counted, and there is none before the products are there.
LEMMA VisibleCounts ==
  ASSUME C!TypeOK
  PROVE  /\ Len(C!Visible) \in Nat
         /\ view.status # "success" => Len(C!Visible) = 0
         /\ IsSeq(C!Visible)
  <1>1. IsFiniteSet(DOMAIN C!Rows) /\ (view.status # "success" => DOMAIN C!Rows = {})
    <2>1. CASE view.status = "success"
      <3>1. view.data \in Shelves
        BY <2>1 DEF C!TypeOK, C!Views, C!Loading, C!Failed, C!Success
      <3>2. DOMAIN C!Rows = DOMAIN view.data.products
        BY <2>1 DEF C!Rows, C!DeriveCatalogRows
      <3> QED
        BY <2>1, <3>1, <3>2, CatalogNumbers
    <2>2. CASE view.status # "success"
      <3>1. DOMAIN C!Rows = {}
        BY <2>2 DEF C!Rows
      <3> QED
        BY <3>1, FS_EmptySet
    <2> QED
      BY <2>1, <2>2
  <1>2. PICK places : places = C!Matching
    OBVIOUS
  <1>3. places \subseteq DOMAIN C!Rows
    BY <1>2 DEF C!Matching, C!ApplyCatalogFilters
  <1>4. IsFiniteSet(places) /\ Cardinality(places) \in Nat
    BY <1>1, <1>3, FS_Subset, FS_CardinalityType
  <1>5. view.status # "success" => Cardinality(places) = 0
    BY <1>1, <1>3, FS_EmptySet
  <1>6. C!Cardinality(places) = Cardinality(places)
    BY DEF C!Cardinality, Cardinality
  <1>7. PICK s : s = C!Visible
    OBVIOUS
  <1>8. s = [n \in 1 .. Cardinality(places) |-> s[n]]
    BY <1>2, <1>6, <1>7 DEF C!Visible, C!SortCatalogRows
  <1>9. IsSeq(s) /\ Len(s) = Cardinality(places)
    BY <1>4, <1>8, FromElements
  <1> QED
    BY <1>4, <1>5, <1>7, <1>9

\* What is visible depends on the filters and the answer alone.
LEMMA SameVisible ==
  ASSUME UNCHANGED <<seen, view>>, url'.filters = url.filters
  PROVE  C!Visible' = C!Visible /\ (C!Settled' <=> C!Settled)
  <1>1. C!Rows' = C!Rows
    BY DEF C!Rows
  <1>2. C!Matching' = C!Matching
    BY <1>1 DEF C!Matching
  <1>3. C!Visible' = C!Visible
    BY <1>1, <1>2 DEF C!Visible
  <1>4. C!Settled' <=> C!Settled
    BY DEF C!Settled, C!TypedIn
  <1> QED
    BY <1>3, <1>4

\* A filter that is written takes the catalog back to its first page.
LEMMA FilterKeeps ==
  ASSUME CatalogInv, NEW u, C!Filter(u), DOMAIN u = {"filters", "page"},
         DOMAIN u.filters = C!CatalogKeys, u.page = 1, clicks' \in 0 .. CatalogClicks
  PROVE  CatalogInv'
  <1>1. C!TypeOK /\ url' = u /\ astray' = FALSE /\ UNCHANGED <<seen, view>>
    BY DEF CatalogInv, C!Filter
  <1>2. C!TypeOK'
    <2>1. DOMAIN url' = {"filters", "page"} /\ DOMAIN url'.filters = C!CatalogKeys
      BY <1>1
    <2>2. url'.page \in Nat \ {0}
      BY SMT, <1>1
    <2>3. astray' \in BOOLEAN
      BY <1>1
    <2>4. DOMAIN seen' = C!Delayed /\ view' \in C!Views(Shelves)
      BY <1>1 DEF C!TypeOK
    <2> QED
      BY <2>1, <2>2, <2>3, <2>4 DEF C!TypeOK
  <1>3. OnItsPage'
    BY <1>1 DEF OnItsPage
  <1> QED
    BY <1>2, <1>3 DEF CatalogInv

LEMMA CatalogClick == ASSUME C!TypeOK, C!Click PROVE clicks' \in 0 .. CatalogClicks
  BY CatalogNumbers DEF C!TypeOK, C!Click

\* A page is turned to one that has cards.
LEMMA TurnKeeps ==
  ASSUME CatalogInv, NEW p \in {url.page - 1, url.page + 1}, C!TurnPage(p)
  PROVE  CatalogInv'
  <1>1. C!TypeOK /\ (~astray => OnItsPage)
    BY DEF CatalogInv
  <1>2. url.page \in Nat \ {0} /\ clicks' \in 0 .. CatalogClicks
    BY <1>1, CatalogClick DEF C!TypeOK, C!TurnPage
  <1>3. /\ url' = C!PutPage(url, p) /\ UNCHANGED <<seen, view>>
        /\ \/ p = url.page - 1 /\ url.page # 1
           \/ p = url.page + 1 /\ url.page * CardsPerPage < Len(C!Visible)
        /\ astray' = ((p # 1 /\ ~C!Settled) \/ (astray /\ p # 1))
        /\ Len(C!Visible) > CardsPerPage
    BY DEF C!TurnPage, C!ShowsPages
  <1>4. p \in Nat \ {0}
    BY <1>2, <1>3
  <1>5. url'.filters = url.filters /\ url'.page = p /\ DOMAIN url' = DOMAIN url
    BY <1>1, <1>3 DEF C!PutPage, C!TypeOK
  <1>6. C!TypeOK'
    BY <1>1, <1>2, <1>3, <1>4, <1>5 DEF C!TypeOK
  <1>7. ASSUME ~astray', p # 1
        PROVE  C!Settled' /\ view'.status = "success" /\ (p - 1) * CardsPerPage < Len(C!Visible')
    <2>1. C!Settled /\ ~astray /\ C!Visible' = C!Visible /\ (C!Settled' <=> C!Settled)
      BY <1>3, <1>5, <1>7, SameVisible
    <2>2. PICK n : n = Len(C!Visible)
      OBVIOUS
    <2>3. n \in Nat /\ n > CardsPerPage /\ (view.status # "success" => n = 0)
      BY <1>1, <1>3, <2>2, VisibleCounts
    <2>4. CardsPerPage \in Nat \ {0}
      BY CatalogNumbers
    <2>5. (p - 1) * CardsPerPage < n
      <3>1. CASE p = url.page + 1 /\ url.page * CardsPerPage < n
        <4>1. p - 1 = url.page
          BY <1>2, <3>1
        <4> QED
          BY <3>1, <4>1
      <3>2. CASE p = url.page - 1 /\ url.page # 1
        <4>1. (url.page - 1) * CardsPerPage < n
          BY <1>1, <2>1, <2>2, <3>2 DEF OnItsPage
        <4>2. PICK k : k = p - 1
          OBVIOUS
        <4>3. k \in Nat /\ url.page - 1 = k + 1
          BY <1>2, <1>4, <3>2, <4>2
        <4>4. (k + 1) * CardsPerPage = k * CardsPerPage + CardsPerPage
              /\ k * CardsPerPage \in Nat /\ (k + 1) * CardsPerPage \in Nat
          BY <2>4, <4>3
        <4> QED
          BY <2>3, <2>4, <4>1, <4>2, <4>3, <4>4
      <3> QED
        BY <1>3, <2>2, <3>1, <3>2
    <2> QED
      BY <1>3, <2>1, <2>2, <2>3, <2>4, <2>5
  <1> QED
    BY <1>5, <1>6, <1>7 DEF CatalogInv, OnItsPage

LEMMA CatalogStarts == C!Init => CatalogInv
  <1> SUFFICES ASSUME C!Init
               PROVE  CatalogInv
    OBVIOUS
  <1>1. DOMAIN url = {"filters", "page"} /\ url.page = 1 /\ DOMAIN url.filters = C!CatalogKeys
    <2>1. CASE url = C!NoCatalogFilters
      BY <2>1 DEF C!NoCatalogFilters
    <2>2. ASSUME NEW term, url = C!Put(C!NoCatalogFilters, "q", term)
          PROVE  /\ DOMAIN url = {"filters", "page"} /\ url.page = 1
                 /\ DOMAIN url.filters = C!CatalogKeys
      BY <2>2 DEF C!NoCatalogFilters, C!Put
    <2> QED
      BY <2>1, <2>2 DEF C!Init
  <1>2. DOMAIN seen = C!Delayed /\ view \in C!Views(Shelves) /\ clicks \in 0 .. CatalogClicks
    BY CatalogNumbers DEF C!Init, C!TypedIn, C!Views
  <1>3. C!TypeOK
    <2>1. url.page \in Nat \ {0}
      BY SMT, <1>1
    <2>2. astray \in BOOLEAN
      BY DEF C!Init
    <2> QED
      BY <1>1, <1>2, <2>1, <2>2 DEF C!TypeOK
  <1>4. OnItsPage
    BY <1>1 DEF OnItsPage
  <1> QED
    BY <1>3, <1>4 DEF CatalogInv

\* Every action keeps the invariant.
LEMMA CatalogGoesOn == CatalogInv /\ [C!Next]_(C!catalogVars) => CatalogInv'
  <1> SUFFICES ASSUME CatalogInv, [C!Next]_(C!catalogVars)
               PROVE  CatalogInv'
    OBVIOUS
  <1>a. C!TypeOK /\ (~astray => OnItsPage)
    BY DEF CatalogInv
  <1>b. ASSUME NEW u, NEW key, NEW text
        PROVE  /\ C!Put(u, key, text).page = 1
               /\ DOMAIN u.filters = C!CatalogKeys => DOMAIN C!Put(u, key, text).filters = C!CatalogKeys
               /\ DOMAIN C!Put(u, key, text) = {"filters", "page"}
    BY DEF C!Put
  <1>c. /\ C!NoCatalogFilters.page = 1 /\ DOMAIN C!NoCatalogFilters.filters = C!CatalogKeys
        /\ DOMAIN C!NoCatalogFilters = {"filters", "page"}
    BY DEF C!NoCatalogFilters
  <1>1. ASSUME NEW key, NEW text, C!SetField(key, text)
        PROVE  CatalogInv'
    BY <1>1, <1>a, <1>b, CatalogClick, FilterKeeps DEF C!SetField, C!TypeOK
  <1>2. ASSUME NEW key, C!RemoveChip(key)
        PROVE  CatalogInv'
    BY <1>2, <1>a, <1>b, CatalogClick, FilterKeeps DEF C!RemoveChip, C!TypeOK
  <1>3. CASE C!ClearAll
    BY <1>3, <1>a, <1>c, CatalogClick, FilterKeeps DEF C!ClearAll
  <1>4. ASSUME NEW p \in {url.page - 1, url.page + 1}, C!TurnPage(p)
        PROVE  CatalogInv'
    BY <1>4, TurnKeeps
  <1>5. ASSUME NEW term, C!Search(term)
        PROVE  CatalogInv'
    BY <1>5, <1>a, <1>b, <1>c, CatalogClick, FilterKeeps DEF C!Search
  <1>6. ASSUME NEW key \in C!Delayed, C!Settle(key)
        PROVE  CatalogInv'
    <2>1. C!TypeOK'
      BY <1>6, <1>a DEF C!Settle, C!TypeOK
    <2>2. ~C!Settled
      BY <1>6 DEF C!Settle, C!Settled, C!TypedIn
    <2> QED
      BY <1>6, <1>a, <2>1, <2>2 DEF C!Settle, CatalogInv, OnItsPage
  <1>7. ASSUME NEW shelf \in Shelves, C!Answer(shelf)
        PROVE  CatalogInv'
    <2>1. C!TypeOK'
      BY <1>7, <1>a DEF C!Answer, C!Arrived, C!Views, C!TypeOK
    <2>2. view.status # "success"
      BY <1>7 DEF C!Answer, C!Loading
    <2> QED
      BY <1>7, <1>a, <2>1, <2>2 DEF C!Answer, CatalogInv, OnItsPage
  <1>8. CASE C!Fail
    <2>1. C!TypeOK'
      BY <1>8, <1>a DEF C!Fail, C!Views, C!TypeOK
    <2>2. view.status # "success"
      BY <1>8 DEF C!Fail, C!Loading
    <2> QED
      BY <1>8, <1>a, <2>1, <2>2 DEF C!Fail, CatalogInv, OnItsPage
  <1>9. CASE C!Retry
    <2>1. C!TypeOK'
      BY <1>9, <1>a, CatalogClick DEF C!Retry, C!Views, C!TypeOK
    <2>2. view.status # "success"
      BY <1>9 DEF C!Retry, C!Failed
    <2> QED
      BY <1>9, <1>a, <2>1, <2>2 DEF C!Retry, CatalogInv, OnItsPage
  <1>10. CASE C!Reload
    <2>1. C!TypeOK'
      BY <1>10, <1>a, CatalogClick DEF C!Reload, C!Views, C!TypeOK, C!TypedIn
    <2> QED
      BY <1>10, <2>1 DEF C!Reload, CatalogInv, OnItsPage
  <1>11. CASE UNCHANGED (C!catalogVars)
    <2>1. C!Visible' = C!Visible /\ (C!Settled' <=> C!Settled)
      BY <1>11, SameVisible DEF C!catalogVars
    <2>2. C!TypeOK'
      BY <1>11, <1>a DEF C!catalogVars, C!TypeOK
    <2> QED
      BY <1>11, <1>a, <2>1, <2>2 DEF C!catalogVars, CatalogInv, OnItsPage
  <1> QED
    BY <1>1, <1>2, <1>3, <1>4, <1>5, <1>6, <1>7, <1>8, <1>9, <1>10, <1>11 DEF C!Next

LEMMA CatalogShows == CatalogInv => C!MatchesAreShown
  <1> SUFFICES ASSUME CatalogInv, view.status = "success", C!Visible # <<>>, ~astray
               PROVE  C!Cards # <<>>
    BY DEF C!MatchesAreShown
  <1>1. PICK s : s = C!Visible
    OBVIOUS
  <1>2. IsSeq(s) /\ Len(s) \in Nat /\ s # <<>> /\ DOMAIN s = 1 .. Len(s)
    BY <1>1, VisibleCounts, Indices DEF CatalogInv
  <1>3. Len(s) > 0
    <2>1. s \in Seq({s[i] : i \in DOMAIN s})
      BY <1>2 DEF IsSeq
    <2> QED
      BY <1>2, <2>1, EmptySeq
  <1>4. PICK lo : lo = (url.page - 1) * CardsPerPage
    OBVIOUS
  <1>5. lo \in Nat /\ lo < Len(s) /\ url.page * CardsPerPage = lo + CardsPerPage
        /\ CardsPerPage \in Nat \ {0}
    <2>1. url.page \in Nat \ {0} /\ CardsPerPage \in Nat \ {0}
      BY CatalogNumbers DEF CatalogInv, C!TypeOK
    <2>2. PICK k : k = url.page - 1
      OBVIOUS
    <2>3. k \in Nat /\ url.page = k + 1
      BY <2>1, <2>2
    <2>4. lo \in Nat /\ url.page * CardsPerPage = lo + CardsPerPage
      BY <1>4, <2>1, <2>2, <2>3
    <2>5. lo < Len(s)
      <3>1. CASE url.page = 1
        BY <1>2, <1>3, <1>4, <2>1, <3>1
      <3>2. CASE url.page # 1
        BY <1>1, <1>4, <3>2 DEF CatalogInv, OnItsPage
      <3> QED
        BY <3>1, <3>2
    <2> QED
      BY <2>1, <2>4, <2>5
  <1>6. PICK hi : hi = C!Min({url.page * CardsPerPage, Len(s)})
    OBVIOUS
  <1>7. hi \in Nat /\ hi > lo
    <2>1. PICK a : a = url.page * CardsPerPage
      OBVIOUS
    <2>2. a \in Nat /\ a > lo
      BY <1>5, <2>1
    <2>3. \E x \in {a, Len(s)} : \A y \in {a, Len(s)} : x <= y
      BY <1>2, <2>2
    <2>4. hi = CHOOSE x \in {a, Len(s)} : \A y \in {a, Len(s)} : x <= y
      BY <1>6, <2>1 DEF C!Min
    <2>5. hi \in {a, Len(s)}
      BY <2>3, <2>4
    <2> QED
      BY <1>2, <1>5, <2>2, <2>5
  <1>8. PICK rows : rows = SubSeq(s, lo + 1, hi)
    OBVIOUS
  <1>9. 1 \in DOMAIN rows
    BY <1>5, <1>7, <1>8
  <1>10. DOMAIN C!Cards = DOMAIN rows
    BY <1>1, <1>4, <1>6, <1>8 DEF C!Cards, C!PageRows
  <1> QED
    BY <1>9, <1>10

-----------------------------------------------------------------------------
(***************************************************************************)
(* Scenes                                                                  *)
(***************************************************************************)

\* A scene is that of one page.
LEMMA SceneStays ==
  ASSUME [FrontendNext]_frontendVars
  PROVE  mounted' = mounted
  <1>1. OnList \/ OnCatalog \/ OnPanel \/ OnItem \/ OnOffer \/ OnBell \/ OnSession
          => mounted' = mounted
    BY DEF OnList, OnCatalog, OnPanel, OnItem, OnOffer, OnBell, OnSession
  <1>2. FrontendNext
          => OnList \/ OnCatalog \/ OnPanel \/ OnItem \/ OnOffer \/ OnBell \/ OnSession
    BY Zenon DEF FrontendNext
  <1>3. UNCHANGED frontendVars => mounted' = mounted
    BY DEF frontendVars
  <1> QED
    BY <1>1, <1>2, <1>3

\* The other pages take no step.
LEMMA OthersRest ==
  /\ ItemIsMounted => ~(OnList \/ OnCatalog \/ OnPanel \/ OnOffer \/ OnBell \/ OnSession)
  /\ ListIsMounted => ~(OnItem \/ OnCatalog \/ OnPanel \/ OnOffer \/ OnBell \/ OnSession)
  /\ OfferIsMounted => ~(OnItem \/ OnCatalog \/ OnPanel \/ OnList \/ OnBell \/ OnSession)
  /\ CatalogIsMounted => ~(OnItem \/ OnList \/ OnPanel \/ OnOffer \/ OnBell \/ OnSession)
  /\ PanelIsMounted => ~(OnItem \/ OnList \/ OnCatalog \/ OnOffer \/ OnBell \/ OnSession)
  /\ BellIsMounted => ~(OnItem \/ OnList \/ OnCatalog \/ OnPanel \/ OnOffer \/ OnSession)
  BY DEF ItemIsMounted, ListIsMounted, OnList, OnCatalog, OnPanel, OnItem, OnOffer, OnBell,
         OnSession, CatalogIsMounted, PanelIsMounted, OfferIsMounted, BellIsMounted, SessionIsMounted

\* A step of the frontend is one of the page of an item, where that is mounted.
LEMMA ItemSteps ==
  ASSUME ItemIsMounted, [FrontendNext]_frontendVars
  PROVE  [I!Next]_(I!itemVars)
  <1>1. CASE FrontendNext
    BY Zenon, <1>1, OthersRest DEF FrontendNext, I!Next
  <1>2. CASE UNCHANGED frontendVars
    BY <1>2 DEF frontendVars, itemOnly, rowVars, I!itemVars
  <1> QED
    BY <1>1, <1>2

\* Or one of the list.
LEMMA ListSteps ==
  ASSUME ListIsMounted, [FrontendNext]_frontendVars
  PROVE  [L!Next]_(L!listVars)
  <1>1. CASE FrontendNext
    BY Zenon, <1>1, OthersRest DEF FrontendNext, L!Next, Texts, L!Texts
  <1>2. CASE UNCHANGED frontendVars
    BY <1>2 DEF frontendVars, urlVars, L!listVars
  <1> QED
    BY <1>1, <1>2

\* Or one of the forms of an offer.
LEMMA OfferSteps ==
  ASSUME OfferIsMounted, [FrontendNext]_frontendVars
  PROVE  [F!Next]_(F!formVars)
  <1>1. CASE FrontendNext
    BY Zenon, <1>1, OthersRest DEF FrontendNext, F!Next
  <1>2. CASE UNCHANGED frontendVars
    BY <1>2 DEF frontendVars, offerOnly, rowVars, F!formVars
  <1> QED
    BY <1>1, <1>2

\* Or one of the catalog.
LEMMA CatalogSteps ==
  ASSUME CatalogIsMounted, [FrontendNext]_frontendVars
  PROVE  [C!Next]_(C!catalogVars)
  <1>1. CASE FrontendNext
    BY Zenon, <1>1, OthersRest DEF FrontendNext, C!Next
  <1>2. CASE UNCHANGED frontendVars
    BY <1>2 DEF frontendVars, urlVars, C!catalogVars
  <1> QED
    BY <1>1, <1>2

\* Or one of the panel.
LEMMA PanelSteps ==
  ASSUME PanelIsMounted, [FrontendNext]_frontendVars
  PROVE  [P!Next]_(P!panelVars)
  <1>1. CASE FrontendNext
    BY Zenon, <1>1, OthersRest DEF FrontendNext, P!Next
  <1>2. CASE UNCHANGED frontendVars
    BY <1>2 DEF frontendVars, panelOnly, P!panelVars
  <1> QED
    BY <1>1, <1>2

\* Or one of the bell.
LEMMA BellSteps ==
  ASSUME BellIsMounted, [FrontendNext]_frontendVars
  PROVE  [B!Next]_(B!bellVars)
  <1>1. CASE FrontendNext
    BY Zenon, <1>1, OthersRest DEF FrontendNext, B!Next
  <1>2. CASE UNCHANGED frontendVars
    BY <1>2 DEF frontendVars, bellOnly, rowVars, B!bellVars
  <1> QED
    BY <1>1, <1>2

\* A step of the frontend is one of the session, or leaves the session alone.
LEMMA SessionSteps == [FrontendNext]_frontendVars => [Next]_sessionVars
  <1>1. OnList \/ OnCatalog \/ OnPanel \/ OnItem \/ OnOffer \/ OnBell => UNCHANGED sessionVars
    BY DEF OnList, OnCatalog, OnPanel, OnItem, OnOffer, OnBell
  <1>2. FrontendNext
          => OnList \/ OnCatalog \/ OnPanel \/ OnItem \/ OnOffer \/ OnBell \/ Next
    BY Zenon DEF FrontendNext, Next
  <1>3. UNCHANGED frontendVars => UNCHANGED sessionVars
    BY DEF frontendVars
  <1> QED
    BY <1>1, <1>2, <1>3

-----------------------------------------------------------------------------
(***************************************************************************)
(* The page of an item: I and IP take the same steps                       *)
(***************************************************************************)
IP == INSTANCE ItemPageProofs WITH MaxClicks <- ItemClicks

\* They start alike.
LEMMA ItemStart == I!Init => IP!Init
  BY DEF I!Init, IP!Init, I!Loading, IP!Loading, I!Fetch, IP!Fetch

LEMMA ItemNext == [I!Next]_(I!itemVars) => [IP!Next]_(IP!itemVars)
  <1> USE DEF I!Loading, IP!Loading, I!Failed, IP!Failed, I!Success, IP!Success, I!Requested,
      IP!Requested, I!Arrived, IP!Arrived, I!Click, IP!Click
  <1>a. I!Rows = IP!Rows
    BY DEF I!Rows, IP!Rows, I!OrderItemStatus, IP!OrderItemStatus, I!OrderItemForwardStatus,
       IP!OrderItemForwardStatus
  <1>b. I!Shown = IP!Shown /\ I!ShownState = IP!ShownState /\ \A t : I!PageOf(t) = IP!PageOf(t)
    BY DEF I!Shown, IP!Shown, I!ShownState, IP!ShownState, I!PageOf, IP!PageOf,
       I!SellerOrderItemDetailPage, IP!SellerOrderItemDetailPage,
       I!BuyerOrderItemDetailPage, IP!BuyerOrderItemDetailPage,
       I!OpsConversationDetailPage, IP!OpsConversationDetailPage,
       I!InternalCommentsPanel, IP!InternalCommentsPanel
  <1>c. \A s : I!Buttons(s) = IP!Buttons(s)
    BY DEF I!Buttons, IP!Buttons, I!StatusActions, IP!StatusActions, I!BuyerCancelActions,
       IP!BuyerCancelActions, I!PriorityActions, IP!PriorityActions, I!NextStatus, IP!NextStatus,
       I!STATUS_SEQUENCE, IP!STATUS_SEQUENCE, I!CANCELLABLE, IP!CANCELLABLE,
       I!BUYER_CANCELLABLE, IP!BUYER_CANCELLABLE
  <1>d. \A op, to, meant : I!Mutation(op, to, meant) = IP!Mutation(op, to, meant)
    BY <1>b DEF I!Mutation, IP!Mutation
  <1>e. ASSUME NEW pipe, NEW t, NEW still, I!Load(pipe, t, still)
        PROVE  IP!Load(pipe, t, still)
    BY <1>e DEF I!Load, IP!Load, I!Unmounted, IP!Unmounted, I!Fetch, IP!Fetch, I!Fetches, IP!Fetches
  <1>f. ASSUME NEW op, NEW to, I!Ask(op, to)
        PROVE  IP!Ask(op, to)
    BY <1>b, <1>d, <1>f DEF I!Ask, IP!Ask
  <1>1. ASSUME NEW t \in Things, I!ChangeRoute(t)
        PROVE  IP!ChangeRoute(t)
    BY <1>b, <1>e, <1>1 DEF I!ChangeRoute, IP!ChangeRoute
  <1>2. I!Retry => IP!Retry
    BY <1>e DEF I!Retry, IP!Retry
  <1>3. /\ I!HandleAdvance => IP!HandleAdvance
        /\ I!RunPriority => IP!RunPriority
    BY <1>b, <1>c, <1>f DEF I!HandleAdvance, IP!HandleAdvance, I!RunPriority, IP!RunPriority,
       I!ButtonsLive, IP!ButtonsLive
  <1>4. I!RegisterComment => IP!RegisterComment
    BY DEF I!RegisterComment, IP!RegisterComment
  <1>5. I!OpenDialog => IP!OpenDialog
    BY <1>b, <1>c DEF I!OpenDialog, IP!OpenDialog, I!ButtonsLive, IP!ButtonsLive
  <1>6. I!CloseDialog => IP!CloseDialog
    BY DEF I!CloseDialog, IP!CloseDialog
  <1>7. I!Confirm => IP!Confirm
    BY <1>b, <1>d DEF I!Confirm, IP!Confirm, I!DialogShown, IP!DialogShown, I!ButtonsLive,
       IP!ButtonsLive, I!BUYER_CANCELLABLE, IP!BUYER_CANCELLABLE
  <1>8. \A i : I!ServeFetch(i) => IP!ServeFetch(i)
    BY DEF I!ServeFetch, IP!ServeFetch, I!Waits, IP!Waits, I!Answered, IP!Answered, I!Held, IP!Held,
       I!ClientUnchanged, IP!ClientUnchanged
  <1>g. /\ \A b, c : I!ForwardTransition(b, c) <=> IP!ForwardTransition(b, c)
        /\ \A b, by : I!CanCancel(b, by) <=> IP!CanCancel(b, by)
    BY DEF I!ForwardTransition, IP!ForwardTransition, I!FORWARD, IP!FORWARD,
       I!CanCancel, IP!CanCancel,
       I!BUYER_CANCEL_STATUSES, IP!BUYER_CANCEL_STATUSES,
       I!SELLER_CANCEL_STATUSES, IP!SELLER_CANCEL_STATUSES
  <1>h. \A r : I!Outcome(r) = IP!Outcome(r)
    BY DEF I!Outcome, IP!Outcome
  <1>i. \A r : I!Allowed(r) <=> IP!Allowed(r)
    BY <1>g DEF I!Allowed, IP!Allowed
  <1>j. /\ \A i : I!Waits(i) <=> IP!Waits(i)
        /\ \A i, a : I!Answered(i, a) <=> IP!Answered(i, a)
        /\ I!ClientUnchanged <=> IP!ClientUnchanged
        /\ \A i : I!Comes(i) <=> IP!Comes(i)
    BY DEF I!Waits, IP!Waits, I!Answered, IP!Answered, I!ClientUnchanged, IP!ClientUnchanged,
       I!Comes, IP!Comes
  <1>k. \A s, i : I!RemoveAt(s, i) = IP!RemoveAt(s, i)
    BY DEF I!RemoveAt, IP!RemoveAt
  <1>9. \A i : I!Accept(i) => IP!Accept(i)
    BY <1>h, <1>i, <1>j DEF I!Accept, IP!Accept
  <1>10. \A i : I!Refuse(i) => IP!Refuse(i)
    BY <1>i, <1>j DEF I!Refuse, IP!Refuse
  <1>11. \A i : I!ShowFetched(i) => IP!ShowFetched(i)
    BY <1>j, <1>k DEF I!ShowFetched, IP!ShowFetched
  <1>12. \A i : I!ShowDone(i) => IP!ShowDone(i)
    BY <1>e, <1>j, <1>k DEF I!ShowDone, IP!ShowDone
  <1>13. \A i : I!ShowError(i) => IP!ShowError(i)
    BY <1>k DEF I!ShowError, IP!ShowError
  <1>14. \A t, to : I!Elsewhere(t, to) => IP!Elsewhere(t, to)
    BY <1>g, <1>j DEF I!Elsewhere, IP!Elsewhere
  <1>15. I!itemVars = IP!itemVars
    BY DEF I!itemVars, IP!itemVars
  <1> QED
    BY <1>a, <1>1, <1>2, <1>3, <1>4, <1>5, <1>6, <1>7, <1>8, <1>9, <1>10, <1>11, <1>12, <1>13,
       <1>14, <1>15 DEF I!Next, IP!Next, I!itemVars, IP!itemVars

-----------------------------------------------------------------------------
(***************************************************************************)
(* The panel of a conversation: P and IP!P take the same steps             *)
(***************************************************************************)

LEMMA PanelAlike ==
  /\ P!panelVars = IP!P!panelVars
  /\ \A s, i : P!RemoveAt(s, i) = IP!P!RemoveAt(s, i)
  /\ \A thread : P!Ordered(thread) <=> IP!P!Ordered(thread)
  /\ P!Messages = IP!P!Messages /\ P!Conversations = IP!P!Conversations
  BY DEF P!panelVars, IP!P!panelVars, P!RemoveAt, IP!P!RemoveAt, P!Ordered, IP!P!Ordered,
     P!Messages, IP!P!Messages, P!Conversations, IP!P!Conversations

LEMMA PanelAssumption == IP!P!PanelConstants
  BY FrontendAssumption, PanelAlike DEF P!PanelConstants, IP!P!PanelConstants

\* They start alike.
LEMMA PanelStart == P!Init => IP!P!Init
  BY DEF P!Init, IP!P!Init, P!NoConversation, IP!P!NoConversation, P!ListRequest,
     IP!P!ListRequest, P!Pending, IP!P!Pending

LEMMA PanelNext == [P!Next]_(P!panelVars) => [IP!P!Next]_(IP!P!panelVars)
  <1> USE DEF P!Click, IP!P!Click, P!ClientUnchanged, IP!P!ClientUnchanged, P!ServerUnchanged,
      IP!P!ServerUnchanged, P!Elsewhere, IP!P!Elsewhere, P!Answered, IP!P!Answered, P!Pending,
      IP!P!Pending, P!Ok, IP!P!Ok, P!Refused, IP!P!Refused, P!NoConversation, IP!P!NoConversation
  <1>a. /\ P!Open = IP!P!Open
        /\ \A c, by : P!Said(c, by) = IP!P!Said(c, by)
    BY DEF P!Open, IP!P!Open, P!Said, IP!P!Said
  <1>b. /\ \A c : P!Expired(c) = IP!P!Expired(c)
    BY <1>a DEF P!Expired, IP!P!Expired
  <1>c. \A those : P!Reads(those) = IP!P!Reads(those)
    BY <1>a, <1>b DEF P!Reads, IP!P!Reads
  <1>d. \A rows : P!Preferred(rows) = IP!P!Preferred(rows)
    BY DEF P!Preferred, IP!P!Preferred, P!Conversation, IP!P!Conversation, P!LastInteraction,
       IP!P!LastInteraction, P!Last, IP!P!Last
  <1>e. \A thread, time : P!WrittenBefore(thread, time) = IP!P!WrittenBefore(thread, time)
    BY DEF P!WrittenBefore, IP!P!WrittenBefore, P!Cardinality, IP!P!Cardinality
  <1>f. \A thread, time, before :
          P!Window(thread, time, before) = IP!P!Window(thread, time, before)
    BY <1>e DEF P!Window, IP!P!Window
  <1>g. \A request, pipe : P!Overlaps(request, pipe) <=> IP!P!Overlaps(request, pipe)
    BY DEF P!Overlaps, IP!P!Overlaps, P!TouchesThread, IP!P!TouchesThread
  <1>h. /\ P!ListRequest = IP!P!ListRequest
        /\ \A c, before, older :
             P!MessagesRequest(c, before, older) = IP!P!MessagesRequest(c, before, older)
        /\ \A op, c : P!MutationRequest(op, c) = IP!P!MutationRequest(op, c)
    BY DEF P!ListRequest, IP!P!ListRequest, P!MessagesRequest, IP!P!MessagesRequest,
       P!MutationRequest, IP!P!MutationRequest
  <1>i. ASSUME NEW request, P!Issue(request)
        PROVE  IP!P!Issue(request)
    BY <1>g, <1>i DEF P!Issue, IP!P!Issue
  <1>j. ASSUME NEW c, NEW before, NEW older, P!LoadMessages(c, before, older)
        PROVE  IP!P!LoadMessages(c, before, older)
    BY <1>h, <1>i, <1>j DEF P!LoadMessages, IP!P!LoadMessages
  <1>k. ASSUME NEW pipe, NEW conversation, P!Select(pipe, conversation)
        PROVE  IP!P!Select(pipe, conversation)
    BY <1>g, <1>h, <1>k DEF P!Select, IP!P!Select
  <1>l. /\ \A i, op : P!Waits(i, op) <=> IP!P!Waits(i, op)
        /\ \A i, op : P!Comes(i, op) <=> IP!P!Comes(i, op)
        /\ P!HasThread <=> IP!P!HasThread
    BY DEF P!Waits, IP!P!Waits, P!Comes, IP!P!Comes, P!HasThread, IP!P!HasThread
  <1>1. P!RetryList => IP!P!RetryList
    BY <1>h, <1>i DEF P!RetryList, IP!P!RetryList
  <1>2. P!LoadOlder => IP!P!LoadOlder
    BY <1>j, <1>l DEF P!LoadOlder, IP!P!LoadOlder
  <1>3. P!RetryMessages => IP!P!RetryMessages
    BY <1>j, <1>l DEF P!RetryMessages, IP!P!RetryMessages
  <1>4. P!HandleOpenConversation => IP!P!HandleOpenConversation
    BY <1>h, <1>i DEF P!HandleOpenConversation, IP!P!HandleOpenConversation
  <1>5. P!HandleSend => IP!P!HandleSend
    BY <1>h, <1>i, <1>l DEF P!HandleSend, IP!P!HandleSend
  <1>6. P!HandleClose => IP!P!HandleClose
    BY <1>h, <1>i, <1>l DEF P!HandleClose, IP!P!HandleClose
  <1>7. \A i : P!ServeList(i) => IP!P!ServeList(i)
    BY <1>c, <1>d, <1>l DEF P!ServeList, IP!P!ServeList
  <1>8. \A i : P!ServeMessages(i) => IP!P!ServeMessages(i)
    BY <1>c, <1>f, <1>l DEF P!ServeMessages, IP!P!ServeMessages
  <1>9. \A i : P!ServeSend(i) => IP!P!ServeSend(i)
    BY <1>a, <1>l DEF P!ServeSend, IP!P!ServeSend
  <1>10. \A i : P!ServeClose(i) => IP!P!ServeClose(i)
    BY <1>a, <1>l DEF P!ServeClose, IP!P!ServeClose
  <1>11. \A i : P!ServeOpen(i) => IP!P!ServeOpen(i)
    BY <1>a, <1>d, <1>l DEF P!ServeOpen, IP!P!ServeOpen
  <1>12. \A i : P!ShowList(i) => IP!P!ShowList(i)
    BY <1>k, <1>l, PanelAlike DEF P!ShowList, IP!P!ShowList
  <1>13. \A i : P!ShowMessages(i) => IP!P!ShowMessages(i)
    BY <1>l, PanelAlike DEF P!ShowMessages, IP!P!ShowMessages
  <1>14. \A i : P!ShowSent(i) => IP!P!ShowSent(i)
    BY <1>l, PanelAlike DEF P!ShowSent, IP!P!ShowSent
  <1>15. \A i : P!ShowClosed(i) => IP!P!ShowClosed(i)
    BY <1>k, <1>l, PanelAlike DEF P!ShowClosed, IP!P!ShowClosed
  <1>16. \A i : P!ShowOpened(i) => IP!P!ShowOpened(i)
    BY <1>k, <1>l, PanelAlike DEF P!ShowOpened, IP!P!ShowOpened
  <1>17. \A i : P!ShowError(i) => IP!P!ShowError(i)
    BY PanelAlike DEF P!ShowError, IP!P!ShowError
  <1>18. \A c : P!OtherWrites(c) => IP!P!OtherWrites(c)
    BY <1>a DEF P!OtherWrites, IP!P!OtherWrites
  <1>19. \A c : P!OtherCloses(c) => IP!P!OtherCloses(c)
    BY <1>a DEF P!OtherCloses, IP!P!OtherCloses
  <1>20. \A c : P!Expires(c) => IP!P!Expires(c)
    BY <1>a, <1>b DEF P!Expires, IP!P!Expires
  <1>21. P!Tick => IP!P!Tick
    BY DEF P!Tick, IP!P!Tick
  <1>22. P!ClientUnchanged => IP!P!ClientUnchanged
    OBVIOUS
  <1>23. (UNCHANGED P!panelVars) => UNCHANGED IP!P!panelVars
    BY DEF P!panelVars, IP!P!panelVars
  <1>24. P!Next => IP!P!Next
    BY Zenon, <1>1, <1>2, <1>3, <1>4, <1>5, <1>6, <1>7, <1>8, <1>9, <1>10, <1>11, <1>12, <1>13,
       <1>14, <1>15, <1>16, <1>17, <1>18, <1>19, <1>20, <1>21, <1>22
    DEF P!Next, IP!P!Next
  <1> QED
    BY <1>23, <1>24

-----------------------------------------------------------------------------
(***************************************************************************)
(* The bell: B and IP!B take the same steps                                *)
(***************************************************************************)

LEMMA BellAssumption == IP!B!BellConstants
  BY FrontendAssumption DEF B!BellConstants, IP!B!BellConstants

LEMMA BellAlike ==
  /\ B!bellVars = IP!B!bellVars
  /\ \A s, i : B!RemoveAt(s, i) = IP!B!RemoveAt(s, i)
  /\ \A op, arg : B!Request(op, arg) = IP!B!Request(op, arg)
  /\ B!Unread = IP!B!Unread
  BY DEF B!bellVars, IP!B!bellVars, B!RemoveAt, IP!B!RemoveAt, B!Request, IP!B!Request,
     B!Unread, IP!B!Unread, B!Cardinality, IP!B!Cardinality

\* They start alike.
LEMMA BellStart == B!Init => IP!B!Init
  BY DEF B!Init, IP!B!Init, B!NoList, IP!B!NoList

LEMMA BellNext == [B!Next]_(B!bellVars) => [IP!B!Next]_(IP!B!bellVars)
  <1> USE DEF B!Click, IP!B!Click, B!ApiUnchanged, IP!B!ApiUnchanged, B!ClientUnchanged,
      IP!B!ClientUnchanged, B!listVars, IP!B!listVars, B!NoList, IP!B!NoList, B!RoomFor,
      IP!B!RoomFor, B!Comes, IP!B!Comes
  <1>a. \A n : B!PageOf(n) = IP!B!PageOf(n)
    BY DEF B!PageOf, IP!B!PageOf, B!Min, IP!B!Min
  <1>b. \A ids : B!ShownRead(ids) = IP!B!ShownRead(ids)
    BY DEF B!ShownRead, IP!B!ShownRead
  <1>c. \A id : B!RouteTo(id) = IP!B!RouteTo(id)
    BY DEF B!RouteTo, IP!B!RouteTo, B!resolveNotificationRoute, IP!B!resolveNotificationRoute
  <1>d. \A id : B!Marks(id) = IP!B!Marks(id) /\ B!Lookups(id) = IP!B!Lookups(id)
    BY <1>c, BellAlike DEF B!Marks, IP!B!Marks, B!Lookups, IP!B!Lookups
  <1>1. B!loadUnreadCount => IP!B!loadUnreadCount
    BY BellAlike DEF B!loadUnreadCount, IP!B!loadUnreadCount
  <1>2. B!HandleToggle => IP!B!HandleToggle
    BY BellAlike DEF B!HandleToggle, IP!B!HandleToggle
  <1>3. B!RetryList => IP!B!RetryList
    BY BellAlike DEF B!RetryList, IP!B!RetryList
  <1>4. B!LoadMore => IP!B!LoadMore
    BY BellAlike DEF B!LoadMore, IP!B!LoadMore, B!hasOlder, IP!B!hasOlder
  <1>5. B!HandleMarkAll => IP!B!HandleMarkAll
    BY BellAlike DEF B!HandleMarkAll, IP!B!HandleMarkAll
  <1>6. \A id : B!HandleSelect(id) => IP!B!HandleSelect(id)
    BY <1>b, <1>c, <1>d DEF B!HandleSelect, IP!B!HandleSelect, B!Less, IP!B!Less
  <1>7. \A i : B!Serve(i) => IP!B!Serve(i)
    BY <1>a, BellAlike DEF B!Serve, IP!B!Serve
  <1>8. B!Notify => IP!B!Notify
    BY DEF B!Notify, IP!B!Notify
  <1>9. B!ReadElsewhere => IP!B!ReadElsewhere
    BY BellAlike DEF B!ReadElsewhere, IP!B!ReadElsewhere
  <1>10. \A i : B!ShowCount(i) => IP!B!ShowCount(i)
    BY BellAlike DEF B!ShowCount, IP!B!ShowCount
  <1>11. \A i : B!ShowList(i) => IP!B!ShowList(i)
    BY BellAlike DEF B!ShowList, IP!B!ShowList
  <1>12. \A i : B!ShowAllMarked(i) => IP!B!ShowAllMarked(i)
    BY <1>b, BellAlike DEF B!ShowAllMarked, IP!B!ShowAllMarked
  <1>13. \A i : B!Marked(i) => IP!B!Marked(i)
    BY BellAlike DEF B!Marked, IP!B!Marked
  <1>14. \A i : B!LookedUp(i) => IP!B!LookedUp(i)
    BY <1>c, BellAlike DEF B!LookedUp, IP!B!LookedUp
  <1>15. \A i : B!Fail(i) => IP!B!Fail(i)
    BY BellAlike DEF B!Fail, IP!B!Fail
  <1>16. CASE UNCHANGED B!bellVars
    BY <1>16 DEF B!bellVars, IP!B!bellVars
  <1>17. CASE B!Next
    BY Zenon, <1>1, <1>2, <1>3, <1>4, <1>5, <1>6, <1>7, <1>8, <1>9, <1>10, <1>11, <1>12, <1>13,
       <1>14, <1>15, <1>17 DEF B!Next, IP!B!Next
  <1> QED
    BY <1>16, <1>17

-----------------------------------------------------------------------------
(***************************************************************************)
(* The forms of an offer: F and FP take the same steps                     *)
(***************************************************************************)
FP == INSTANCE OfferPagesProofs WITH MaxClicks <- OfferClicks

LEMMA OfferAlike ==
  /\ F!formVars = FP!formVars
  /\ F!Products = FP!Products /\ F!Prices = FP!Prices /\ F!Rows = FP!Rows
  /\ F!OfferConstants <=> FP!OfferConstants
  BY DEF F!formVars, FP!formVars, F!Products, FP!Products, F!Prices, FP!Prices, F!Rows, FP!Rows,
     F!OfferConstants, FP!OfferConstants, F!IsFiniteSet, FP!IsFiniteSet, F!Cardinality,
     FP!Cardinality

\* They start alike.
LEMMA OfferStart == F!Init => FP!Init
  BY DEF F!Init, FP!Init, F!Products, FP!Products, F!Loading, FP!Loading, F!NoForm, FP!NoForm,
     F!Loads, FP!Loads, F!Waiting, FP!Waiting

LEMMA OfferNext == [F!Next]_(F!formVars) => [FP!Next]_(FP!formVars)
  <1> USE DEF F!Loading, FP!Loading, F!Failed, FP!Failed, F!Success, FP!Success, F!Requested,
      FP!Requested, F!Arrived, FP!Arrived, F!NoForm, FP!NoForm, F!Waiting, FP!Waiting,
      F!ApiUnchanged, FP!ApiUnchanged, F!ClientUnchanged, FP!ClientUnchanged, F!Click, FP!Click,
      F!RemoveAt, FP!RemoveAt
  <1>a. F!Products = FP!Products
    BY OfferAlike
  <1>b. /\ \A r : F!Loads(r) = FP!Loads(r)
        /\ \A data : F!availableOffers(data) = FP!availableOffers(data)
        /\ F!NewOffer = FP!NewOffer
        /\ \A data : F!SellerOfferEditor(data) = FP!SellerOfferEditor(data)
        /\ \A data : F!EditorKey(data) = FP!EditorKey(data)
        /\ \A pipe : F!Unmounted(pipe) = FP!Unmounted(pipe)
    BY DEF F!Loads, FP!Loads, F!availableOffers, FP!availableOffers, F!NewOffer, FP!NewOffer,
       F!SellerOfferEditor, FP!SellerOfferEditor, F!EditorKey, FP!EditorKey, F!Unmounted,
       FP!Unmounted
  <1>c. \A data : F!PurchasePanel(data) = FP!PurchasePanel(data)
    BY <1>b DEF F!PurchasePanel, FP!PurchasePanel
  <1>d. /\ \A data : F!Mounted(data) = FP!Mounted(data)
        /\ \A data : F!Stays(data) <=> FP!Stays(data)
    BY <1>b, <1>c DEF F!Mounted, FP!Mounted, F!Stays, FP!Stays
  <1>e. ASSUME NEW pipe, NEW r, F!Load(pipe, r)
        PROVE  FP!Load(pipe, r)
    BY <1>b, <1>e DEF F!Load, FP!Load
  <1>f. ASSUME NEW new, F!Fill(new)
        PROVE  FP!Fill(new)
    BY <1>f DEF F!Fill, FP!Fill
  <1>g. ASSUME NEW request, F!Send(request)
        PROVE  FP!Send(request)
    BY <1>g DEF F!Send, FP!Send
  <1>h. /\ F!selectedOffer = FP!selectedOffer
        /\ F!Buying <=> FP!Buying
        /\ F!Editing <=> FP!Editing
        /\ F!Publishing <=> FP!Publishing
        /\ F!FormIsValid <=> FP!FormIsValid
    BY <1>b DEF F!selectedOffer, FP!selectedOffer, F!Buying, FP!Buying, F!Editing, FP!Editing,
       F!Publishing, FP!Publishing, F!FormIsValid, FP!FormIsValid
  <1>1. \A r : F!ChangeRoute(r) => FP!ChangeRoute(r)
    BY <1>e DEF F!ChangeRoute, FP!ChangeRoute
  <1>2. F!Retry => FP!Retry
    BY <1>e DEF F!Retry, FP!Retry
  <1>3. \A o : F!SelectOffer(o) => FP!SelectOffer(o)
    BY <1>b, <1>f, <1>h DEF F!SelectOffer, FP!SelectOffer
  <1>4. \A n : F!UpdateQuantity(n) => FP!UpdateQuantity(n)
    BY <1>f, <1>h DEF F!UpdateQuantity, FP!UpdateQuantity
  <1>5. F!HandleBuy => FP!HandleBuy
    BY <1>g, <1>h DEF F!HandleBuy, FP!HandleBuy
  <1>6. /\ \A text : F!EditPrice(text) => FP!EditPrice(text)
        /\ \A text : F!TypePrice(text) => FP!TypePrice(text)
        /\ \A n : F!EditStock(n) => FP!EditStock(n)
        /\ F!ToggleAvailable => FP!ToggleAvailable
    BY <1>f, <1>h DEF F!EditPrice, FP!EditPrice, F!TypePrice, FP!TypePrice, F!EditStock,
       FP!EditStock, F!ToggleAvailable, FP!ToggleAvailable
  <1>7. /\ F!HandleSaveOffer => FP!HandleSaveOffer
        /\ F!HandleSaveProduct => FP!HandleSaveProduct
    BY <1>g, <1>h DEF F!HandleSaveOffer, FP!HandleSaveOffer, F!HandleSaveProduct,
       FP!HandleSaveProduct
  <1>8. /\ \A target : F!AskDelete(target) => FP!AskDelete(target)
        /\ F!CloseDialog => FP!CloseDialog
        /\ F!HandleConfirmDelete => FP!HandleConfirmDelete
    BY <1>g, <1>h DEF F!AskDelete, FP!AskDelete, F!CloseDialog, FP!CloseDialog,
       F!HandleConfirmDelete, FP!HandleConfirmDelete
  <1>9. /\ \A mode : F!SetMode(mode) => FP!SetMode(mode)
        /\ \A p : F!ChooseProduct(p) => FP!ChooseProduct(p)
    BY <1>f, <1>h DEF F!SetMode, FP!SetMode, F!ChooseProduct, FP!ChooseProduct
  <1>i. \A p, f : F!CreateOffer(p, f) = FP!CreateOffer(p, f)
    BY DEF F!CreateOffer, FP!CreateOffer
  <1>10. F!HandleSubmit => FP!HandleSubmit
    BY <1>g, <1>h, <1>i DEF F!HandleSubmit, FP!HandleSubmit
  <1>j. /\ \A i, op : F!Waits(i, op) <=> FP!Waits(i, op)
        /\ \A i, answer : F!Answered(i, answer) <=> FP!Answered(i, answer)
        /\ \A i : F!Refused(i) <=> FP!Refused(i)
        /\ \A i, op : F!Comes(i, op) <=> FP!Comes(i, op)
        /\ \A request : F!CheckoutProblem(request) = FP!CheckoutProblem(request)
        /\ \A p : F!OffersOf(p) = FP!OffersOf(p)
    BY DEF F!Waits, FP!Waits, F!Answered, FP!Answered, F!Refused, FP!Refused, F!Comes, FP!Comes,
       F!CheckoutProblem, FP!CheckoutProblem, F!OffersOf, FP!OffersOf
  <1>k. /\ \A p : F!ProductDetailPage(p) = FP!ProductDetailPage(p)
        /\ \A o : F!SellerOfferDetailPage(o) = FP!SellerOfferDetailPage(o)
    BY <1>j DEF F!ProductDetailPage, FP!ProductDetailPage, F!SellerOfferDetailPage,
       FP!SellerOfferDetailPage
  <1>11. \A i : F!ServeLoad(i) => FP!ServeLoad(i)
    BY <1>j, <1>k DEF F!ServeLoad, FP!ServeLoad
  <1>12. \A i : F!ServeBuy(i) => FP!ServeBuy(i)
    BY <1>j DEF F!ServeBuy, FP!ServeBuy
  <1>13. /\ \A i : F!ServeSave(i) => FP!ServeSave(i)
         /\ \A i : F!ServeSaveProduct(i) => FP!ServeSaveProduct(i)
    BY <1>j DEF F!ServeSave, FP!ServeSave, F!ServeSaveProduct, FP!ServeSaveProduct
  <1>14. \A i : F!ServeDelete(i) => FP!ServeDelete(i)
    BY <1>j DEF F!ServeDelete, FP!ServeDelete
  <1>15. /\ \A i : F!ServeAdd(i) => FP!ServeAdd(i)
         /\ \A i : F!ServePublish(i) => FP!ServePublish(i)
    BY <1>a, <1>j DEF F!ServeAdd, FP!ServeAdd, F!ServePublish, FP!ServePublish, F!Cardinality,
       FP!Cardinality
  <1>16. \A o : F!Elsewhere(o) => FP!Elsewhere(o)
    BY DEF F!Elsewhere, FP!Elsewhere
  <1>17. \A i : F!ShowLoaded(i) => FP!ShowLoaded(i)
    BY <1>b, <1>d, <1>j DEF F!ShowLoaded, FP!ShowLoaded
  <1>18. \A i, op : F!ShowGone(i, op) => FP!ShowGone(i, op)
    BY <1>j DEF F!ShowGone, FP!ShowGone
  <1>19. \A i, op : F!ShowSaved(i, op) => FP!ShowSaved(i, op)
    BY <1>e, <1>j DEF F!ShowSaved, FP!ShowSaved
  <1>20. \A i : F!ShowAdded(i) => FP!ShowAdded(i)
    BY <1>i, <1>j DEF F!ShowAdded, FP!ShowAdded
  <1>21. \A i : F!ShowError(i) => FP!ShowError(i)
    BY <1>b DEF F!ShowError, FP!ShowError
  <1>22. CASE UNCHANGED (F!formVars)
    BY <1>22 DEF F!formVars, FP!formVars
  <1>23. CASE F!Next
    BY Zenon, <1>a, <1>1, <1>2, <1>3, <1>4, <1>5, <1>6, <1>7, <1>8, <1>9, <1>10, <1>11, <1>12,
       <1>13, <1>14, <1>15, <1>16, <1>17, <1>18, <1>19, <1>20, <1>21, <1>23 DEF F!Next, FP!Next
  <1> QED
    BY <1>22, <1>23

-----------------------------------------------------------------------------
(***************************************************************************)
(* What holds whatever page is mounted                                     *)
(***************************************************************************)

SceneInv ==
  /\ SessionInv
  /\ ItemIsMounted => IP!IInv /\ IP!ToldOK /\ IP!Bounded
  /\ ListIsMounted => ListInv /\ ListTyped
  /\ CatalogIsMounted => CatalogInv
  /\ PanelIsMounted => IP!PanelInv
  /\ OfferIsMounted => FP!IInv /\ FP!LostAreTold
  /\ BellIsMounted => IP!BellInv

LEMMA ItemAssumption == IP!ItemConstants
  BY FrontendAssumption DEF I!ItemConstants, IP!ItemConstants

LEMMA OfferAssumption == FP!OfferConstants
  BY FrontendAssumption, OfferAlike

LEMMA SceneInvariant == FrontendSpec => []SceneInv
  <1>1. FrontendInit => SceneInv
    <2> SUFFICES ASSUME FrontendInit
                 PROVE  SceneInv
      OBVIOUS
    <2>1. Init
      BY DEF FrontendInit
    <2>2. ItemIsMounted => I!Init
      BY DEF FrontendInit, ItemIsMounted
    <2>3. ListIsMounted => L!Init
      BY DEF FrontendInit, ListIsMounted
    <2>4. OfferIsMounted => F!Init
      BY DEF FrontendInit, OfferIsMounted
    <2>7. CatalogIsMounted => C!Init
      BY DEF FrontendInit, CatalogIsMounted
    <2>8. PanelIsMounted => P!Init
      BY DEF FrontendInit, PanelIsMounted
    <2>9. BellIsMounted => B!Init
      BY DEF FrontendInit, BellIsMounted
    <2>5. I!Init => IP!IInv /\ IP!ToldOK /\ IP!Bounded
      BY ItemStart, ItemAssumption, IP!InitIInv, IP!InitTold, IP!InitBounded
    <2>6. F!Init => FP!IInv /\ FP!LostAreTold
      BY OfferStart, OfferAssumption, FP!InitIInv, FP!InitTold
    <2> QED
      BY <2>1, <2>2, <2>3, <2>4, <2>5, <2>6, <2>7, <2>8, <2>9, SessionStarts, ListStarts,
         ListTypedStarts, CatalogStarts, PanelStart, PanelAssumption, IP!PanelStarts, BellStart,
         BellAssumption, IP!BellStarts
      DEF SceneInv
  <1>2. SceneInv /\ [FrontendNext]_frontendVars => SceneInv'
    <2> SUFFICES ASSUME SceneInv, [FrontendNext]_frontendVars
                 PROVE  SceneInv'
      OBVIOUS
    <2>1. mounted' = mounted
      BY SceneStays
    <2>2. SessionInv'
      BY SessionSteps, SessionGoesOn DEF SceneInv
    <2>3. ItemIsMounted' => IP!IInv' /\ IP!ToldOK' /\ IP!Bounded'
      <3> SUFFICES ASSUME ItemIsMounted
                   PROVE  IP!IInv' /\ IP!ToldOK' /\ IP!Bounded'
        BY <2>1 DEF ItemIsMounted
      <3>1. [IP!Next]_(IP!itemVars) /\ IP!IInv /\ IP!ToldOK /\ IP!Bounded
        BY ItemSteps, ItemNext DEF SceneInv
      <3> QED
        BY <3>1, ItemAssumption, IP!NextIInv, IP!NextTold, IP!NextBounded
    <2>4. ListIsMounted' => ListInv' /\ ListTyped'
      <3> SUFFICES ASSUME ListIsMounted
                   PROVE  ListInv' /\ ListTyped'
        BY <2>1 DEF ListIsMounted
      <3>1. [L!Next]_(L!listVars) /\ ListInv /\ ListTyped
        BY ListSteps DEF SceneInv
      <3> QED
        BY <3>1, ListGoesOn, ListTypedGoesOn
    <2>5. OfferIsMounted' => FP!IInv' /\ FP!LostAreTold'
      <3> SUFFICES ASSUME OfferIsMounted
                   PROVE  FP!IInv' /\ FP!LostAreTold'
        BY <2>1 DEF OfferIsMounted
      <3>1. [FP!Next]_(FP!formVars) /\ FP!IInv /\ FP!LostAreTold
        BY OfferSteps, OfferNext DEF SceneInv
      <3> QED
        BY <3>1, OfferAssumption, FP!NextIInv, FP!NextTold
    <2>6. CatalogIsMounted' => CatalogInv'
      <3> SUFFICES ASSUME CatalogIsMounted
                   PROVE  CatalogInv'
        BY <2>1 DEF CatalogIsMounted
      <3>1. [C!Next]_(C!catalogVars) /\ CatalogInv
        BY CatalogSteps DEF SceneInv
      <3> QED
        BY <3>1, CatalogGoesOn
    <2>7. PanelIsMounted' => IP!PanelInv'
      <3> SUFFICES ASSUME PanelIsMounted
                   PROVE  IP!PanelInv'
        BY <2>1 DEF PanelIsMounted
      <3>1. [IP!P!Next]_(IP!P!panelVars) /\ IP!PanelInv
        BY PanelSteps, PanelNext DEF SceneInv
      <3> QED
        BY <3>1, PanelAssumption, IP!PanelGoesOn
    <2>8. BellIsMounted' => IP!BellInv'
      <3> SUFFICES ASSUME BellIsMounted
                   PROVE  IP!BellInv'
        BY <2>1 DEF BellIsMounted
      <3>1. [IP!B!Next]_(IP!B!bellVars) /\ IP!BellInv
        BY BellSteps, BellNext DEF SceneInv
      <3> QED
        BY <3>1, BellAssumption, IP!BellGoesOn
    <2> QED
      BY <2>2, <2>3, <2>4, <2>5, <2>6, <2>7, <2>8 DEF SceneInv
  <1> QED
    BY <1>1, <1>2, PTL DEF FrontendSpec

\* The variables of the session and of whatever page is mounted keep their types:
\* no more requests are under way than the bound of the model, a form is filled only
\* from what was loaded, a list that loads awaits an answer, and the badge of the
\* bell never falls below zero.
THEOREM FrontendTypesHold == FrontendSpec => []FrontendTypeOK
  <1>1. SceneInv => TypeOK /\ (CatalogIsMounted => C!TypeOK)
    BY DEF SceneInv, SessionInv, CatalogInv
  <1>2. SceneInv => (BellIsMounted => B!TypeOK) /\ (ListIsMounted => L!TypeOK)
    <2>1. IP!B!TypeOK => B!TypeOK
      BY DEF B!TypeOK, IP!B!TypeOK
    <2> QED
      BY <2>1, IP!BellTypes, ListTypes DEF SceneInv
  <1>3. SceneInv => (PanelIsMounted => P!TypeOK)
    <2>1. P!Open = IP!P!Open /\ \A S : P!Cardinality(S) = IP!P!Cardinality(S)
      BY DEF P!Open, IP!P!Open, P!Cardinality, IP!P!Cardinality
    <2>2. IP!P!TypeOK => P!TypeOK
      BY <2>1 DEF P!TypeOK, IP!P!TypeOK
    <2> QED
      BY <2>2, IP!PanelTyped DEF SceneInv
  <1>4. SceneInv => (ItemIsMounted => I!TypeOK)
    <2>1. I!Rows = IP!Rows
      BY DEF I!Rows, IP!Rows, I!OrderItemStatus, IP!OrderItemStatus, I!OrderItemForwardStatus,
         IP!OrderItemForwardStatus
    <2>2. IP!TypeOK => I!TypeOK
      BY <2>1 DEF I!TypeOK, IP!TypeOK
    <2> QED
      BY <2>2, IP!TypeHolds DEF SceneInv
  <1>5. SceneInv => (OfferIsMounted => F!TypeOK)
    <2>1. FP!TypeOK => F!TypeOK
      BY DEF F!TypeOK, FP!TypeOK, F!NoForm, FP!NoForm
    <2> QED
      BY <2>1, OfferAssumption, FP!TypeHolds DEF SceneInv
  <1>6. SceneInv => FrontendTypeOK
    BY <1>1, <1>2, <1>3, <1>4, <1>5 DEF FrontendTypeOK
  <1> QED
    BY <1>6, SceneInvariant, PTL

\* The session is coherent whatever page is mounted.
THEOREM SessionStaysCoherent == FrontendSpec => []SessionIsCoherent
  <1>1. SceneInv => SessionIsCoherent
    BY DEF SceneInv, SessionInv
  <1> QED
    BY <1>1, SceneInvariant, PTL

\* On every page with a dialog, what is confirmed is done to the thing the dialog
\* was opened for (StatusActions.tsx, BuyerCancelActions.tsx, PriorityActions.tsx).
THEOREM DialogsKeepTheirThing == FrontendSpec => []ConfirmedIsDone
  <1>1. SceneInv => ConfirmedIsDone
    BY IP!ConfirmedHolds DEF SceneInv, ConfirmedIsDone, I!ConfirmedIsDone, IP!ConfirmedIsDone
  <1> QED
    BY <1>1, SceneInvariant, PTL

\* The API refuses what a page offers only if the row changed after the page had
\* read it, and a page shows no older state than a toast announced
\* (statusFlow.ts, orders/status.py, useAsync.ts).
THEOREM OnlyTheStaleIsRefused == FrontendSpec => []RefusedOnlyWhenStale
  <1>1. SceneInv => RefusedOnlyWhenStale
    <2>1. IP!IInv => I!RefusedOnlyWhenStale
      BY IP!RefusedHolds DEF I!RefusedOnlyWhenStale, IP!RefusedOnlyWhenStale
    <2>2. IP!IInv /\ IP!ToldOK => I!ToldIsShown
      <3>1. IP!ToldIsShown => I!ToldIsShown
        BY DEF I!ToldIsShown, IP!ToldIsShown, I!LaterOrSame, IP!LaterOrSame,
         I!STATUS_SEQUENCE, IP!STATUS_SEQUENCE, I!Fetches, IP!Fetches, I!Shown, IP!Shown, I!ShownState, IP!ShownState, I!PageOf, IP!PageOf,
         I!SellerOrderItemDetailPage, IP!SellerOrderItemDetailPage,
         I!BuyerOrderItemDetailPage, IP!BuyerOrderItemDetailPage,
         I!OpsConversationDetailPage, IP!OpsConversationDetailPage,
         I!InternalCommentsPanel, IP!InternalCommentsPanel
      <3> QED
        BY <3>1, IP!ToldHolds
    <2> QED
      BY <2>1, <2>2 DEF SceneInv, RefusedOnlyWhenStale
  <1> QED
    BY <1>1, SceneInvariant, PTL

\* Every settled list shows the answer to what its URL says (useAsync.ts and the
\* pages that call it).
THEOREM ListsAnswerTheirUrl == FrontendSpec => []ShownIsAsked
  <1>1. SceneInv => ShownIsAsked
    BY ListShows DEF SceneInv, ShownIsAsked
  <1> QED
    BY <1>1, SceneInvariant, PTL

\* The catalog shows cards while products match the filters, however the filters,
\* the sorting, the delay of the text fields and the pages are used, unless a page
\* was turned before a text field had settled or the page was reloaded off its
\* first page (ProductListPage.tsx, useUrlFilters.ts).
THEOREM MatchesStayShown == FrontendSpec => []MatchesAreShown
  <1>1. SceneInv => MatchesAreShown
    BY CatalogShows DEF SceneInv, MatchesAreShown
  <1> QED
    BY <1>1, SceneInvariant, PTL

\* The panel shows messages of the selected conversation, in order and each once,
\* however its loads, its messages and the messages of others interleave, unless
\* two requests that change the messages shown were under way together
\* (ConversationPanel.tsx, useAsync.ts).
THEOREM PanelTellsItsThread == FrontendSpec => []PanelTellsTheThread
  <1>1. IP!P!PanelTellsTheThread => P!PanelTellsTheThread
    BY PanelAlike DEF P!PanelTellsTheThread, IP!P!PanelTellsTheThread, P!NoConversation,
       IP!P!NoConversation
  <1>2. SceneInv => PanelTellsTheThread
    BY <1>1, IP!PanelTells DEF SceneInv, PanelTellsTheThread
  <1> QED
    BY <1>2, SceneInvariant, PTL

\* An order is paid at the price that was on the screen when its buyer clicked,
\* for units the screen said were there, whatever others do to the offer and
\* however many loads, purchases and changes of page are under way, unless two
\* loads of the page overlapped (PurchasePanel.tsx:56, checkout.py:43).
THEOREM OrdersArePaidAsShown == FrontendSpec => []BoughtAsShown
  <1>1. SceneInv => BoughtAsShown
    BY FP!BoughtHolds DEF SceneInv, BoughtAsShown, F!BoughtAsShown, FP!BoughtAsShown
  <1> QED
    BY <1>1, SceneInvariant, PTL

\* A save changes a field the seller did not touch only if the row had changed
\* after the form was filled; and a product is left without an offer only after
\* its form told a failure (SellerOfferDetailPage.tsx:100,
\* SellerOfferNewPage.tsx:61).
THEOREM SavesAreOfWhatIsShown == FrontendSpec => []OverwritesOnlyWhenStale
  <1>1. FP!OverwritesOnlyWhenStale => F!OverwritesOnlyWhenStale
    BY DEF F!OverwritesOnlyWhenStale, FP!OverwritesOnlyWhenStale
  <1>2. FP!OrphansAreTold => F!OrphansAreTold
    BY OfferAlike DEF F!OrphansAreTold, FP!OrphansAreTold, F!Cardinality, FP!Cardinality
  <1>3. SceneInv => OverwritesOnlyWhenStale
    BY <1>1, <1>2, OfferAssumption, FP!OverwritesHolds, FP!OrphansHold
    DEF SceneInv, OverwritesOnlyWhenStale
  <1> QED
    BY <1>3, SceneInvariant, PTL
=============================================================================
