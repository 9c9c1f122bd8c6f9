------------------------------ MODULE ListPage ------------------------------
(***************************************************************************)
(* The home page and the lists of the frontend: the seller's order items,  *)
(* the items and the queue of Ops, the buyer's orders, the seller's offers.*)
(* The URL holds the filters, the free text is applied after a delay, the  *)
(* list is asked for again when what it depends on changes, and answers    *)
(* come back in any order.                                                 *)
(***************************************************************************)
EXTENDS AsyncView, FiniteSets, SequencesExt, UrlFilters

CONSTANTS
    Statuses,     \* the statuses of an order item
    Priorities,   \* the effective priorities of a conversation
    Dates,        \* days a date field may hold
    Junk,         \* a value a hand-made link may hold in place of one of those
    PageSize,     \* rows of a page
    MaxTotal,     \* rows the API may report
    MaxClicks,    \* gestures of the user
    MaxRequests   \* requests in flight at once

\* What the constants must be.
ListConstants ==
    /\ PageSize \in Nat \ {0}
    /\ {MaxTotal, MaxClicks} \subseteq Nat /\ MaxRequests \in Nat \ {0}
    /\ "" \notin Statuses \cup Priorities \cup Dates \cup {Junk}
    /\ Junk \notin Statuses \cup Priorities

VARIABLES
    role,         \* the role of the session
    screen,       \* the page the router has mounted
    url,          \* its query string
    seen,         \* the delayed copies of its text fields
    net,          \* the requests in flight
    view,         \* what useAsync holds
    overlapped,   \* history: the newest request left while another was in flight
    clicks        \* gestures made

listVars == <<role, screen, url, seen, net, view, overlapped, clicks>>

-----------------------------------------------------------------------------
(* The pages: what each asks the API for and what the asking depends on *)

Parse(text, allowed) == IF text \in allowed THEN text ELSE ""

\* The text fields whose value is applied after a delay.
Typed(u) == [lookup |-> LookupInput(u), seller |-> u.filters["seller_id"]]

SellerIsValid(k) == k.seller = "" \/ IsCompleteUuid(k.seller)

\* The query string: the filters that are set.
Given(filters) == [key \in {f \in DOMAIN filters : filters[f] # ""} |-> filters[key]]

SellerOrderItemsQuery(page, filters) ==
    [path |-> "/order-items", page |-> page, params |-> Given(filters)]
OpsConversationQueueQuery(page, filters) ==
    [path |-> "/ops/conversations", page |-> page, params |-> Given(filters)]
OpsOrderItemsQuery(page, filters) ==
    [path |-> "/ops/order-items", page |-> page, params |-> Given(filters)]

\* Mutant of SellerOrdersListPage: the first day is missing in the dependencies.
SellerOrdersListPageAnyFrom(u, k) ==
    LET status == Parse(u.filters["status"], Statuses)
    IN  [request |-> SellerOrderItemsQuery(u.page,
                        [status |-> status, from |-> u.filters["from"], to |-> u.filters["to"],
                         order_item_id |-> OnlyIf("uuid", k.lookup),
                         number |-> OnlyIf("number", k.lookup)]),
         deps |-> <<u.page, status, LookupClass(k.lookup), k.lookup, u.filters["to"]>>]

SellerOrdersListPage(u, k) ==
    LET status == Parse(u.filters["status"], Statuses)
        from == u.filters["from"]
        to == u.filters["to"]
    IN  [request |-> SellerOrderItemsQuery(u.page,
                        [status |-> status, from |-> from, to |-> to,
                         order_item_id |-> OnlyIf("uuid", k.lookup),
                         number |-> OnlyIf("number", k.lookup)]),
         deps |-> <<u.page, status, LookupClass(k.lookup), k.lookup, from, to>>]

OpsOrderItemsListPage(u, k) ==
    LET status == Parse(u.filters["status"], Statuses)
        from == u.filters["from"]
        to == u.filters["to"]
    IN  [request |-> OpsOrderItemsQuery(u.page,
                        [status |-> status, from |-> from, to |-> to,
                         order_item_id |-> OnlyIf("uuid", k.lookup),
                         number |-> OnlyIf("number", k.lookup),
                         seller_id |-> IF SellerIsValid(k) THEN k.seller ELSE ""]),
         deps |-> <<u.page, status, SellerIsValid(k), k.seller,
                    LookupClass(k.lookup), k.lookup, from, to>>]

OpsQueuePage(u, k) ==
    LET priority == Parse(u.filters["effective_priority"], Priorities)
    IN  [request |-> OpsConversationQueueQuery(u.page,
                        [effective_priority |-> priority,
                         order_item_id |-> OnlyIf("uuid", k.lookup),
                         number |-> OnlyIf("number", k.lookup),
                         seller_id |-> IF SellerIsValid(k) THEN k.seller ELSE ""]),
         deps |-> <<u.page, SellerIsValid(k), k.seller,
                    LookupClass(k.lookup), k.lookup, priority>>]

\* These are asked for once; the buyer's orders are filtered in the browser.
Whole(path) == [request |-> [path |-> path], deps |-> <<>>]
OrdersListPage(u, k) == Whole("/orders")
SellerOffersListPage(u, k) == Whole("/offers and /products")
DashboardPage(u, k) == Whole("/dashboard")

Page(s, u, k) ==
    CASE s = "seller"    -> SellerOrdersListPage(u, k)
      [] s = "opsItems"  -> OpsOrderItemsListPage(u, k)
      [] s = "opsQueue"  -> OpsQueuePage(u, k)
      [] s = "buyer"     -> OrdersListPage(u, k)
      [] s = "offers"    -> SellerOffersListPage(u, k)
      [] s = "dashboard" -> DashboardPage(u, k)

Request(s, u, k) == Page(s, u, k).request
Deps(s, u, k) == Page(s, u, k).deps

-----------------------------------------------------------------------------
(* The fields, the chips and the sections a page renders *)

SellerFields == {"status", "from", "to"}
OpsItemsFields == {"status", "seller_id", "from", "to"}
OpsQueueFields == {"effective_priority", "seller_id"}

Fields(s) ==
    CASE s = "seller"   -> SellerFields
      [] s = "opsItems" -> OpsItemsFields
      [] s = "opsQueue" -> OpsQueueFields
      [] OTHER          -> {}

HasLookup(s) == s \in {"seller", "opsItems", "opsQueue", "buyer"}

\* The values the field of a key can take.
FieldValues(key) ==
    {""} \cup CASE key = "status"             -> Statuses
                [] key = "effective_priority" -> Priorities
                [] key = "seller_id"          -> Uuids \cup Words
                [] OTHER                      -> Dates

\* A chip for every filter that is applied; a status or a priority that does
\* not exist has none.
Chip(u, key) ==
    CASE key = "status"             -> u.filters[key] \in Statuses
      [] key = "effective_priority" -> u.filters[key] \in Priorities
      [] OTHER                      -> u.filters[key] # ""
LookupChip(u) == IF LookupInput(u) # "" THEN {"lookup"} ELSE {}

SellerChips(u) == {key \in SellerFields : Chip(u, key)} \cup LookupChip(u)
OpsItemsChips(u) == {key \in OpsItemsFields : Chip(u, key)} \cup LookupChip(u)
OpsQueueChips(u) == {key \in OpsQueueFields : Chip(u, key)} \cup LookupChip(u)
OrdersChips(u) == LookupChip(u)

Chips(s, u) ==
    CASE s = "seller"   -> SellerChips(u)
      [] s = "opsItems" -> OpsItemsChips(u)
      [] s = "opsQueue" -> OpsQueueChips(u)
      [] s = "buyer"    -> OrdersChips(u)
      [] OTHER          -> {}

\* The section under the filters.
Section(v, rows, filtered) ==
    CASE v.status = "loading"         -> "skeleton"
      [] v.status = "error"           -> "error"
      [] rows                         -> "table"
      [] ~rows /\ filtered            -> "no match"
      [] OTHER                        -> "empty"

Rows(u, v) == v.status = "success" /\ v.data.total > (u.page - 1) * PageSize

SellerSection(u, v) ==
    Section(v, Rows(u, v), Active(u, SellerFields \cup {"order_item_id", "number"}) # {})
OpsItemsSection(u, v) ==
    Section(v, Rows(u, v), Active(u, OpsItemsFields \cup {"order_item_id", "number"}) # {})
OpsQueueSection(u, v) ==
    Section(v, Rows(u, v), Active(u, OpsQueueFields \cup {"order_item_id", "number"}) # {})

\* The buyer's orders that match the search, by the number of the order or of
\* one of its items, or by the id of either.
MatchesLookup(data, text) ==
    IF text \in Numbers \cup Uuids THEN text \in data.holds ELSE data.total > 0
OrdersSection(u, v) ==
    Section(v, v.status = "success" /\ MatchesLookup(v.data, LookupInput(u)),
            \/ LookupInput(u) \in Numbers \cup Uuids
            \/ v.status = "success" /\ v.data.total > 0)
OffersSection(v) == Section(v, v.status = "success" /\ v.data.total > 0, FALSE)

Shown ==
    CASE screen = "seller"   -> SellerSection(url, view)
      [] screen = "opsItems" -> OpsItemsSection(url, view)
      [] screen = "opsQueue" -> OpsQueueSection(url, view)
      [] screen = "buyer"    -> OrdersSection(url, view)
      [] screen = "offers"   -> OffersSection(view)
      [] OTHER               -> Section(view, TRUE, FALSE)

HasNextPage == url.page * PageSize < view.data.total

-----------------------------------------------------------------------------
(* Links *)

NavItems ==
    [buyer  |-> {To("dashboard"), To("buyer")},
     seller |-> {To("dashboard"), To("seller"), To("offers")},
     ops    |-> {To("dashboard"), To("opsQueue"), To("opsItems")}]

SellerDashboardView ==
    {To("seller")} \cup {With("seller", "status", s) : s \in Statuses}
BuyerDashboardView == {To("buyer")}
OpsDashboardView ==
    {To("opsQueue")} \cup {With("opsQueue", "effective_priority", p) : p \in Priorities}

DashboardLinks ==
    [buyer |-> BuyerDashboardView, seller |-> SellerDashboardView, ops |-> OpsDashboardView]

Links ==
    NavItems[role]
        \cup (IF screen = "dashboard" /\ Shown = "table" THEN DashboardLinks[role] ELSE {})
        \cup {link \in {GlobalSearch(role, text) : text \in Texts \ {""}} :
                 link.screen # "catalog"}

Home == [buyer |-> {"buyer"}, seller |-> {"seller", "offers"}, ops |-> {"opsItems", "opsQueue"}]

\* A page is opened by a link with any filter, or none.
Bookmarks(s) ==
    {NoFilters} \cup {Put(NoFilters, key, Junk) : key \in Fields(s) \cap {"status", "effective_priority"}}

-----------------------------------------------------------------------------
Opened(s, u) ==
    [url |-> u, seen |-> Typed(u), net |-> <<Request(s, u, Typed(u))>>]

Init ==
    /\ role \in DOMAIN NavItems
    /\ screen \in Home[role] \cup {"dashboard"}
    /\ url \in Bookmarks(screen)
    /\ seen = Typed(url)
    /\ net = Opened(screen, url).net
    /\ view = Loading
    /\ overlapped = FALSE
    /\ clicks = 0

Click == clicks < MaxClicks /\ clicks' = clicks + 1

Load(request) ==
    /\ Len(net) < MaxRequests
    /\ net' = Requested(net, request)
    /\ view' = Loading
    /\ overlapped' = (net # <<>>)

\* The page renders with a URL and delayed values: the effect of useAsync runs
\* when one of its dependencies changed.
Render(u, k) ==
    /\ url' = u
    /\ seen' = k
    /\ IF Deps(screen, u, k) = Deps(screen, url, seen)
       THEN UNCHANGED <<net, view, overlapped>>
       ELSE Load(Request(screen, u, k))
    /\ UNCHANGED <<role, screen>>

\* A select, a date or the seller's id changes.
SetFilter(key, value) ==
    /\ Click
    /\ key \in Fields(screen)
    /\ value \in FieldValues(key) \ {url.filters[key]}
    /\ Render(Put(url, key, value), seen)

TypeLookup(text) ==
    /\ Click
    /\ HasLookup(screen)
    /\ text # LookupInput(url)
    /\ Render(ApplyLookup(url, text), seen)

RemoveChip(chip) ==
    /\ Click
    /\ chip \in Chips(screen, url)
    /\ Render(IF chip = "lookup" THEN ClearLookup(url) ELSE Put(url, chip, ""), seen)

\* "Limpar filtros" appears with the second chip.
ClearAll ==
    /\ Click
    /\ Cardinality(Chips(screen, url)) > 1
    /\ Render(NoFilters, seen)

PreviousPage ==
    /\ Click
    /\ Fields(screen) # {} /\ Shown = "table"
    /\ url.page # 1
    /\ Render(PutPage(url, url.page - 1), seen)

NextPage ==
    /\ Click
    /\ Fields(screen) # {} /\ Shown = "table"
    /\ HasNextPage
    /\ Render(PutPage(url, url.page + 1), seen)

\* The timer of a text field fires.
Settle(field) ==
    /\ seen[field] # Typed(url)[field]
    /\ Render(url, [seen EXCEPT ![field] = Typed(url)[field]])
    /\ UNCHANGED clicks

\* A link to the list that is shown changes its URL; a link to another page
\* mounts it, and the answers the old one waits for reach nobody.
FollowHere(link) ==
    /\ Click
    /\ link \in Links
    /\ link.screen = screen /\ link.url # url
    /\ Render(link.url, seen)

FollowAway(link) ==
    /\ Click
    /\ link \in Links
    /\ link.screen # screen
    /\ screen' = link.screen
    /\ url' = link.url
    /\ seen' = Opened(link.screen, link.url).seen
    /\ net' = Opened(link.screen, link.url).net
    /\ view' = Loading
    /\ overlapped' = FALSE
    /\ UNCHANGED role

Retry ==
    /\ Click
    /\ Shown = "error"
    /\ Load(Request(screen, url, seen))
    /\ UNCHANGED <<role, screen, url, seen>>

\* The answer to a request: how many rows there are and, for the buyer's
\* orders, which numbers and ids they have.
Answers(request) ==
    [request : {request}, total : 0..MaxTotal,
     holds : IF request.path = "/orders" THEN SUBSET (Numbers \cup Uuids) ELSE {{}}]

Answer(i, data) ==
    /\ data \in Answers(net[i])
    /\ view' = Arrived(data)
    /\ net' = RemoveAt(net, i)
    /\ UNCHANGED <<role, screen, url, seen, overlapped, clicks>>

Fail(i) ==
    /\ view' = Failed
    /\ net' = RemoveAt(net, i)
    /\ UNCHANGED <<role, screen, url, seen, overlapped, clicks>>

Next ==
    \/ \E key \in Fields(screen) : \E value \in FieldValues(key) : SetFilter(key, value)
    \/ \E text \in Texts : TypeLookup(text)
    \/ \E chip \in Chips(screen, url) : RemoveChip(chip)
    \/ ClearAll
    \/ PreviousPage
    \/ NextPage
    \/ \E field \in DOMAIN seen : Settle(field)
    \/ \E link \in Links : FollowHere(link) \/ FollowAway(link)
    \/ Retry
    \/ \E i \in DOMAIN net :
          \/ \E data \in Answers(net[i]) : Answer(i, data)
          \/ Fail(i)

Spec == Init /\ [][Next]_listVars

-----------------------------------------------------------------------------
(* Properties *)

\* The type invariant of the lists.
TypeOK ==
    /\ role \in DOMAIN NavItems
    /\ screen \in Home[role] \cup {"dashboard"}
    /\ DOMAIN url = {"filters", "page"} /\ DOMAIN url.filters = FilterKeys
    /\ url.page \in 1..(MaxTotal + 1)
    /\ Len(net) <= MaxRequests
    /\ view.status \in {"loading", "error", "success"}
    /\ view.status = "loading" => net # <<>>
    /\ overlapped \in BOOLEAN
    /\ clicks \in 0..MaxClicks

\* When the text fields have settled and nothing is in flight, a list whose
\* last request did not overlap another shows the answer to what its URL says
\* now: whatever the user did to the filters in between, no change of theirs was
\* left out of the dependencies of useAsync (useAsync.ts:20, written with the
\* lint rule about them switched off).
ShownIsAsked ==
    (seen = Typed(url) /\ net = <<>> /\ ~overlapped /\ view.status = "success")
        => view.data.request = Request(screen, url, Typed(url))

=============================================================================
