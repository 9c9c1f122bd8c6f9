---------------------------- MODULE MCFrontend ----------------------------
(***************************************************************************)
(* The frontend, for TLC: the session of a tab, the bell of the header and *)
(* the pages.  The router mounts one page at a time and a page keeps       *)
(* nothing for the next one; the session and the bell write nothing that a *)
(* page keeps.  So each is explored in a scene of its own: mounted says    *)
(* which, what a scene does not have is NotHere, and the session waits at  *)
(* the login page in every scene but its own.                              *)
(***************************************************************************)
EXTENDS BrowserSession, UrlFilters, Integers, Sequences, TLC

CONSTANTS
    Statuses, Priorities, Dates, Junk, PageSize, MaxTotal, ListClicks,
    Shelves, Terms, PriceOf, NotPrices, CardsPerPage, CatalogClicks,
    Histories, MessageWindow, StartTime, MaxTime, MaxConversations, PanelClicks,
    Things, MaxComments, ItemClicks,
    Offers, ProductOf, Mine, Shelf, ApiPrice, MaxStock, MaxProducts, MaxOthers, OfferClicks,
    EntityOf, MaxSent, MaxFailures, BellClicks,
    MaxRequests,
    t1, t2, u1, u2

VARIABLES
    mounted,
    url, seen, view, net, clicks, overlapped, route, row, pending,
    role, screen,
    astray,
    viewer, server, now, listing, selected, messages, hasOlder, loadingMessages,
    messagesError, opening, sending, closing, crossed,
    kind, confirming, openedFor, told, strayed,
    scene, live, added, orders, published, form, dialog, others,
    sent, read, unreadCount, open, list, total, page, loading, loadError, markingAll, failures

L == INSTANCE ListPage WITH MaxClicks <- ListClicks
C == INSTANCE Catalog WITH MaxClicks <- CatalogClicks
P == INSTANCE ConversationPanel WITH MaxClicks <- PanelClicks
I == INSTANCE ItemPage WITH MaxClicks <- ItemClicks
F == INSTANCE OfferPages WITH MaxClicks <- OfferClicks
B == INSTANCE NotificationBell WITH MaxClicks <- BellClicks

ASSUME FrontendAssumption ==
    /\ L!ListConstants /\ C!CatalogConstants /\ P!PanelConstants
    /\ I!ItemConstants /\ F!OfferConstants /\ B!BellConstants

-----------------------------------------------------------------------------
(* Values of the constants *)

MCOwnerOf == t1 :> u1 @@ t2 :> u2
MCRoleOf == u1 :> "buyer" @@ u2 :> "ops"

MCEntityOf == <<"ORDER_ITEM", "CONVERSATION">>

Product(id, terms) == [id |-> id, terms |-> terms, rank |-> 4 - id]
Offer(product, seller, price, stock, available) ==
    [product |-> product, seller |-> seller, price |-> price, stock |-> stock,
     available |-> available]

\* An empty catalog, and two of three products whose prices, texts and stock
\* tell them apart.
MCShelves ==
    {[products |-> <<>>, offers |-> <<>>],
     [products |-> <<Product(1, {"a"}), Product(2, {"a", "b"}), Product(3, {})>>,
      offers |-> <<Offer(1, "s", 2, 1, TRUE), Offer(1, "t", 1, 1, TRUE),
                   Offer(2, "s", 1, 1, TRUE), Offer(3, "s", 1, 0, TRUE)>>],
     [products |-> <<Product(1, {"a"}), Product(2, {"b"}), Product(3, {"a"})>>,
      offers |-> <<Offer(1, "s", 1, 1, FALSE), Offer(2, "s", 2, 1, TRUE),
                   Offer(3, "t", 1, 3, TRUE)>>]}
MCPriceOf == [text \in {"1", "2"} |-> IF text = "1" THEN 1 ELSE 2]

Message(time) == [at |-> time, by |-> "other"]

\* No conversation; an open one whose messages span two windows; and a closed
\* one whose newest message is older than a window.
MCHistories ==
    {<<>>,
     <<[status |-> "open", opened |-> 0, thread |-> <<Message(0), Message(2), Message(3)>>]>>,
     <<[status |-> "closed", opened |-> 0, thread |-> <<Message(0), Message(1)>>]>>}

\* Two offers of one product and one of another.
MCProductOf == <<1, 1, 2>>
Row(price, stock) == [price |-> price, stock |-> stock, available |-> TRUE]
MCShelf == <<Row("1.00", 1), Row("2.00", 2), Row("1.00", 0)>>
MCApiPrice ==
    [text \in {"1.00", "2.00", "2,0", "x", ""} |->
        CASE text = "1.00" -> "1.00" [] text \in {"2.00", "2,0"} -> "2.00" [] OTHER -> ""]

-----------------------------------------------------------------------------
(* What belongs to which page *)

urlVars == <<url, seen>>
panelOnly == <<viewer, server, now, listing, selected, messages, hasOlder,
               loadingMessages, messagesError, opening, sending, closing, crossed>>
itemOnly == <<kind, confirming, openedFor, told, strayed>>
offerOnly == <<scene, live, added, orders, published, form, dialog, others>>
bellOnly == <<sent, read, unreadCount, open, list, total, page, loading, loadError,
              markingAll>>
rowVars == <<route, row, pending>>

frontendVars == <<sessionVars, mounted, view, net, clicks, role, overlapped, failures, urlVars,
                  screen, astray, panelOnly, itemOnly, offerOnly, bellOnly, rowVars>>

NotHere == "not here"
NoUrl == url = NotHere /\ seen = NotHere
NoPanel ==
    /\ viewer = NotHere /\ server = NotHere /\ now = NotHere /\ listing = NotHere
    /\ selected = NotHere /\ messages = NotHere /\ hasOlder = NotHere /\ loadingMessages = NotHere
    /\ messagesError = NotHere /\ opening = NotHere /\ sending = NotHere /\ closing = NotHere
    /\ crossed = NotHere
NoItem ==
    /\ kind = NotHere /\ confirming = NotHere /\ openedFor = NotHere /\ told = NotHere
    /\ strayed = NotHere
NoOffer ==
    /\ scene = NotHere /\ live = NotHere /\ added = NotHere /\ orders = NotHere
    /\ published = NotHere /\ form = NotHere /\ dialog = NotHere /\ others = NotHere
NoBell ==
    /\ sent = NotHere /\ read = NotHere /\ unreadCount = NotHere /\ open = NotHere
    /\ list = NotHere /\ total = NotHere /\ page = NotHere /\ loading = NotHere
    /\ loadError = NotHere /\ markingAll = NotHere
NoRow == route = NotHere /\ row = NotHere /\ pending = NotHere

ListIsMounted == mounted = "list"
CatalogIsMounted == mounted = "catalog"
PanelIsMounted == mounted = "panel"
ItemIsMounted == mounted = "item"
OfferIsMounted == mounted = "offer"
BellIsMounted == mounted = "bell"
SessionIsMounted == mounted = "session"

OnList == ListIsMounted /\ UNCHANGED <<mounted, sessionVars, failures, astray,
    panelOnly, itemOnly, offerOnly, bellOnly, rowVars>>
OnCatalog == CatalogIsMounted /\ UNCHANGED <<mounted, sessionVars, net, role, overlapped,
    failures, screen, panelOnly, itemOnly, offerOnly, bellOnly, rowVars>>
OnPanel == PanelIsMounted /\ UNCHANGED <<mounted, sessionVars, view, role, overlapped,
    failures, urlVars, screen, astray, itemOnly, offerOnly, bellOnly, rowVars>>
OnItem == ItemIsMounted /\ UNCHANGED <<mounted, sessionVars, role, failures, urlVars,
    screen, astray, panelOnly, offerOnly, bellOnly>>
OnOffer == OfferIsMounted /\ UNCHANGED <<mounted, sessionVars, role, urlVars, screen,
    astray, panelOnly, itemOnly, bellOnly>>
OnBell == BellIsMounted /\ UNCHANGED <<mounted, sessionVars, view, overlapped, urlVars,
    screen, astray, panelOnly, itemOnly, offerOnly, row, pending>>
OnSession == SessionIsMounted /\ UNCHANGED <<mounted, view, net, clicks, role, overlapped,
    failures, urlVars, screen, astray, panelOnly, itemOnly, offerOnly, bellOnly,
    rowVars>>

FrontendInit ==
    /\ Init
    /\ \/ /\ mounted = "list" /\ L!Init
          /\ NoPanel /\ NoItem /\ NoOffer /\ NoBell /\ NoRow
          /\ failures = NotHere
          /\ astray = NotHere
       \/ /\ mounted = "catalog" /\ C!Init
          /\ NoPanel /\ NoItem /\ NoOffer /\ NoBell /\ NoRow
          /\ net = NotHere /\ role = NotHere /\ overlapped = NotHere
          /\ failures = NotHere
          /\ screen = NotHere
       \/ /\ mounted = "panel" /\ P!Init
          /\ NoUrl /\ NoItem /\ NoOffer /\ NoBell /\ NoRow
          /\ view = NotHere /\ role = NotHere /\ overlapped = NotHere
          /\ failures = NotHere
          /\ screen = NotHere /\ astray = NotHere
       \/ /\ mounted = "item" /\ I!Init
          /\ NoUrl /\ NoPanel /\ NoOffer /\ NoBell
          /\ role = NotHere /\ failures = NotHere
          /\ screen = NotHere /\ astray = NotHere
       \/ /\ mounted = "offer" /\ F!Init
          /\ NoUrl /\ NoPanel /\ NoItem /\ NoBell
          /\ role = NotHere
          /\ screen = NotHere /\ astray = NotHere
       \/ /\ mounted = "bell" /\ B!Init
          /\ NoUrl /\ NoPanel /\ NoItem /\ NoOffer
          /\ view = NotHere /\ overlapped = NotHere /\ row = NotHere
          /\ pending = NotHere
          /\ screen = NotHere /\ astray = NotHere
       \/ /\ mounted = "session"
          /\ NoUrl /\ NoPanel /\ NoItem /\ NoOffer /\ NoBell /\ NoRow
          /\ view = NotHere /\ net = NotHere /\ clicks = NotHere
          /\ role = NotHere /\ overlapped = NotHere /\ failures = NotHere
          /\ screen = NotHere /\ astray = NotHere

\* One disjunct per action of a scene.
FrontendNext ==
    \/ OnList /\ \E key \in L!Fields(screen) : \E value \in L!FieldValues(key) :
                 L!SetFilter(key, value)
    \/ OnList /\ \E text \in Texts : L!TypeLookup(text)
    \/ OnList /\ \E chip \in L!Chips(screen, url) : L!RemoveChip(chip)
    \/ OnList /\ L!ClearAll
    \/ OnList /\ L!PreviousPage
    \/ OnList /\ L!NextPage
    \/ OnList /\ \E field \in DOMAIN seen : L!Settle(field)
    \/ OnList /\ \E link \in L!Links : L!FollowHere(link)
    \/ OnList /\ \E link \in L!Links : L!FollowAway(link)
    \/ OnList /\ L!Retry
    \/ OnList /\ \E i \in DOMAIN net : \E data \in L!Answers(net[i]) : L!Answer(i, data)
    \/ OnList /\ \E i \in DOMAIN net : L!Fail(i)
    \/ OnCatalog /\ \E key \in C!CatalogKeys : \E text \in C!FieldTexts(key) :
                    C!SetField(key, text)
    \/ OnCatalog /\ \E key \in C!CatalogChips : C!RemoveChip(key)
    \/ OnCatalog /\ C!ClearAll
    \/ OnCatalog /\ \E n \in {url.page - 1, url.page + 1} : C!TurnPage(n)
    \/ OnCatalog /\ \E term \in Terms : C!Search(term)
    \/ OnCatalog /\ \E key \in C!Delayed : C!Settle(key)
    \/ OnCatalog /\ \E shelf \in Shelves : C!Answer(shelf)
    \/ OnCatalog /\ C!Fail
    \/ OnCatalog /\ C!Retry
    \/ OnCatalog /\ C!Reload
    \/ OnPanel /\ P!RetryList
    \/ OnPanel /\ P!LoadOlder
    \/ OnPanel /\ P!RetryMessages
    \/ OnPanel /\ P!HandleOpenConversation
    \/ OnPanel /\ P!HandleSend
    \/ OnPanel /\ P!HandleClose
    \/ OnPanel /\ \E i \in DOMAIN net : P!ServeList(i) /\ P!ClientUnchanged
    \/ OnPanel /\ \E i \in DOMAIN net : P!ServeMessages(i) /\ P!ClientUnchanged
    \/ OnPanel /\ \E i \in DOMAIN net : P!ServeSend(i) /\ P!ClientUnchanged
    \/ OnPanel /\ \E i \in DOMAIN net : P!ServeClose(i) /\ P!ClientUnchanged
    \/ OnPanel /\ \E i \in DOMAIN net : P!ServeOpen(i) /\ P!ClientUnchanged
    \/ OnPanel /\ \E i \in DOMAIN net : P!ShowList(i)
    \/ OnPanel /\ \E i \in DOMAIN net : P!ShowMessages(i)
    \/ OnPanel /\ \E i \in DOMAIN net : P!ShowSent(i)
    \/ OnPanel /\ \E i \in DOMAIN net : P!ShowClosed(i)
    \/ OnPanel /\ \E i \in DOMAIN net : P!ShowOpened(i)
    \/ OnPanel /\ \E i \in DOMAIN net : P!ShowError(i)
    \/ OnPanel /\ \E c \in DOMAIN server : P!OtherWrites(c)
    \/ OnPanel /\ \E c \in DOMAIN server : P!OtherCloses(c)
    \/ OnPanel /\ \E c \in DOMAIN server : P!Expires(c)
    \/ OnPanel /\ P!Tick
    \/ OnItem /\ \E t \in Things : I!ChangeRoute(t)
    \/ OnItem /\ I!Retry
    \/ OnItem /\ I!HandleAdvance
    \/ OnItem /\ I!RunPriority
    \/ OnItem /\ I!RegisterComment
    \/ OnItem /\ I!OpenDialog
    \/ OnItem /\ I!CloseDialog
    \/ OnItem /\ I!Confirm
    \/ OnItem /\ \E i \in DOMAIN net : I!ServeFetch(i)
    \/ OnItem /\ \E i \in DOMAIN net : I!Accept(i)
    \/ OnItem /\ \E i \in DOMAIN net : I!Refuse(i)
    \/ OnItem /\ \E i \in DOMAIN net : I!ShowFetched(i)
    \/ OnItem /\ \E i \in DOMAIN net : I!ShowDone(i)
    \/ OnItem /\ \E i \in DOMAIN net : I!ShowError(i)
    \/ OnItem /\ \E t \in Things : \E to \in I!Rows : I!Elsewhere(t, to)
    \/ OnOffer /\ \E r \in IF scene = "product" THEN F!Products ELSE Offers : F!ChangeRoute(r)
    \/ OnOffer /\ F!Retry
    \/ OnOffer /\ \E o \in Offers : F!SelectOffer(o)
    \/ OnOffer /\ \E n \in 0..(MaxStock + 1) : F!UpdateQuantity(n)
    \/ OnOffer /\ F!HandleBuy
    \/ OnOffer /\ \E text \in DOMAIN ApiPrice : F!EditPrice(text)
    \/ OnOffer /\ \E text \in DOMAIN ApiPrice : F!TypePrice(text)
    \/ OnOffer /\ \E n \in {-1, MaxStock} : F!EditStock(n)
    \/ OnOffer /\ F!ToggleAvailable
    \/ OnOffer /\ F!HandleSaveOffer
    \/ OnOffer /\ F!HandleSaveProduct
    \/ OnOffer /\ \E target \in {"offer", "product"} : F!AskDelete(target)
    \/ OnOffer /\ F!CloseDialog
    \/ OnOffer /\ F!HandleConfirmDelete
    \/ OnOffer /\ \E mode \in {"existing", "new"} : F!SetMode(mode)
    \/ OnOffer /\ \E p \in F!Products : F!ChooseProduct(p)
    \/ OnOffer /\ F!HandleSubmit
    \/ OnOffer /\ \E i \in DOMAIN net : F!ServeLoad(i)
    \/ OnOffer /\ \E i \in DOMAIN net : F!ServeBuy(i)
    \/ OnOffer /\ \E i \in DOMAIN net : F!ServeSave(i)
    \/ OnOffer /\ \E i \in DOMAIN net : F!ServeSaveProduct(i)
    \/ OnOffer /\ \E i \in DOMAIN net : F!ServeDelete(i)
    \/ OnOffer /\ \E i \in DOMAIN net : F!ServeAdd(i)
    \/ OnOffer /\ \E i \in DOMAIN net : F!ServePublish(i)
    \/ OnOffer /\ \E i \in DOMAIN net : F!ShowLoaded(i)
    \/ OnOffer /\ \E i \in DOMAIN net : F!ShowAdded(i)
    \/ OnOffer /\ \E i \in DOMAIN net : F!ShowError(i)
    \/ OnOffer /\ \E i \in DOMAIN net : \E op \in {"buy", "delete", "publish"} : F!ShowGone(i, op)
    \/ OnOffer /\ \E i \in DOMAIN net : \E op \in {"save", "product"} : F!ShowSaved(i, op)
    \/ OnOffer /\ \E o \in Offers : F!Elsewhere(o)
    \/ OnBell /\ B!loadUnreadCount
    \/ OnBell /\ B!HandleToggle
    \/ OnBell /\ B!RetryList
    \/ OnBell /\ B!LoadMore
    \/ OnBell /\ B!HandleMarkAll
    \/ OnBell /\ \E id \in 1..MaxSent : B!HandleSelect(id)
    \/ OnBell /\ B!Notify
    \/ OnBell /\ B!ReadElsewhere
    \/ OnBell /\ \E i \in DOMAIN net : B!Serve(i)
    \/ OnBell /\ \E i \in DOMAIN net : B!ShowCount(i)
    \/ OnBell /\ \E i \in DOMAIN net : B!ShowList(i)
    \/ OnBell /\ \E i \in DOMAIN net : B!ShowAllMarked(i)
    \/ OnBell /\ \E i \in DOMAIN net : B!Marked(i)
    \/ OnBell /\ \E i \in DOMAIN net : B!LookedUp(i)
    \/ OnBell /\ \E i \in DOMAIN net : B!Fail(i)
    \/ OnSession /\ Reload
    \/ OnSession /\ Vouch
    \/ OnSession /\ BootOk
    \/ OnSession /\ BootFails
    \/ OnSession /\ HandleSubmit
    \/ OnSession /\ CredentialsWrong
    \/ OnSession /\ CredentialsUnanswered
    \/ OnSession /\ MeOk
    \/ OnSession /\ MeRefused
    \/ OnSession /\ MeUnanswered
    \/ OnSession /\ HandleLogout
    \/ OnSession /\ Ask
    \/ OnSession /\ OpenDrawer
    \/ OnSession /\ \E t \in Token : CredentialsOk(t)
    \/ OnSession /\ \E t \in Token : Expire(t)
    \/ OnSession /\ \E t \in Token \cup {NoToken} : Grant(t)
    \/ OnSession /\ \E t \in Token \cup {NoToken} : Deny(t)
    \/ OnSession /\ \E t \in Token \cup {NoToken} : Unauthorized(t)
    \/ OnSession /\ \E t \in Token \cup {NoToken} : OtherTab(t)
    \/ OnSession /\ \E p \in Visited : Go(p)

\* The fairness of the session, and that of the bell where there is a bell: in
\* the other scenes its interval never ticks.
FrontendFairness ==
    /\ Fairness
    /\ WF_frontendVars(OnBell /\ B!loadUnreadCount)
    /\ WF_frontendVars(OnBell /\ \E i \in DOMAIN net : B!Serve(i))
    /\ WF_frontendVars(OnBell /\ \E i \in DOMAIN net :
                          B!ShowCount(i) \/ B!ShowList(i) \/ B!ShowAllMarked(i) \/ B!Marked(i)
                          \/ B!LookedUp(i))

FrontendSpec == FrontendInit /\ [][FrontendNext]_frontendVars /\ FrontendFairness

\* Without fairness, for the properties that a step violates.
StepSpec == FrontendInit /\ [][FrontendNext]_frontendVars

-----------------------------------------------------------------------------
(* Properties: those of the scene that is mounted *)

\* The type invariants of the session, the bell and the pages.
FrontendTypeOK ==
    /\ TypeOK
    /\ BellIsMounted => B!TypeOK
    /\ ListIsMounted => L!TypeOK
    /\ CatalogIsMounted => C!TypeOK
    /\ PanelIsMounted => P!TypeOK
    /\ ItemIsMounted => I!TypeOK
    /\ OfferIsMounted => F!TypeOK

\* A settled list shows the answer to what its URL says (ListPage).
ShownIsAsked == ListIsMounted => L!ShownIsAsked

\* The grid is not empty while products match the filters (Catalog).
MatchesAreShown == CatalogIsMounted => C!MatchesAreShown

\* The panel shows messages of the selected conversation, in order, each once
\* (ConversationPanel).
PanelTellsTheThread == PanelIsMounted => P!PanelTellsTheThread

\* The API refuses a button only if the row changed after the page read it, and
\* the state shown is never older than the one a toast told of (ItemPage).
RefusedOnlyWhenStale == ItemIsMounted => I!RefusedOnlyWhenStale /\ I!ToldIsShown

\* What is confirmed in a dialog is done to the thing it was opened for (ItemPage).
ConfirmedIsDone == ItemIsMounted => I!ConfirmedIsDone

\* A purchase is paid at the price on the screen (OfferPages).
BoughtAsShown == OfferIsMounted => F!BoughtAsShown

\* A save overwrites only what is stale, and a product left without an offer was
\* told of (OfferPages).
OverwritesOnlyWhenStale ==
    OfferIsMounted => F!OverwritesOnlyWhenStale /\ F!OrphansAreTold

\* "Carregar mais antigas" brings older messages (ConversationPanel): it does not
\* when the window of 24 hours before those shown is empty.
OlderBringsMore == [][PanelIsMounted => P!OlderBringsMore]_frontendVars

\* The badge ends up with the number of unread notifications (NotificationBell).
BadgeConverges == <>[](BellIsMounted => unreadCount = B!Unread)

=============================================================================
