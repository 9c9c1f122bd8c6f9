------------------------------ MODULE Catalog ------------------------------
(***************************************************************************)
(* The catalog page: products and offers are fetched once, crossed,        *)
(* filtered, sorted and cut into pages in the browser, from a URL whose    *)
(* text filters are applied after a delay.                                 *)
(***************************************************************************)
EXTENDS AsyncView, FiniteSetsExt, SequencesExt, UrlFilters

CONSTANTS
    Shelves,    \* what the API may hold: records of a sequence of products and one of offers
    Terms,      \* texts of the search field
    PriceOf,    \* texts that are a price, with the number each stands for
    NotPrices,  \* other texts of a price field
    CardsPerPage,
    MaxClicks   \* gestures of the user

\* What the constants must be.
CatalogConstants ==
    /\ CardsPerPage \in Nat \ {0} /\ MaxClicks \in Nat
    /\ \A shelf \in Shelves : IsFiniteSet(DOMAIN shelf.products)

VARIABLES
    url,        \* the query string
    seen,       \* the delayed copies of the text fields
    view,       \* what useAsync holds
    astray,     \* history: the page number was kept while what it counts changed
    clicks      \* gestures made

catalogVars == <<url, seen, view, astray, clicks>>

-----------------------------------------------------------------------------
(* catalogRows *)

IsPurchasable(offer) == offer.available /\ offer.stock > 0

\* A product with its purchasable offers summed up; no price is the empty set.
CatalogRow(product, offers) ==
    LET purchasable == {i \in DOMAIN offers :
                           offers[i].product = product.id /\ IsPurchasable(offers[i])}
        prices == {offers[i].price : i \in purchasable}
    IN  [product |-> product,
         lowestPrice |-> IF prices = {} THEN {} ELSE {Min(prices)},
         highestPrice |-> IF prices = {} THEN {} ELSE {Max(prices)},
         sellers |-> {offers[i].seller : i \in purchasable},
         offerCount |-> Cardinality(purchasable),
         inStock |-> purchasable # {}]

DeriveCatalogRows(products, offers) ==
    [i \in DOMAIN products |-> CatalogRow(products[i], offers)]

\* The card shows the lowest price and the stores, or that there is no stock.
ProductCard(row) ==
    [product |-> row.product.id, price |-> row.lowestPrice, sellers |-> row.sellers]

-----------------------------------------------------------------------------
(* catalogFilters *)

ParsePriceInput(text) == IF text \in DOMAIN PriceOf THEN {PriceOf[text]} ELSE {}

IsPriceRangeInverted(min, max) ==
    \E a \in ParsePriceInput(min), b \in ParsePriceInput(max) : a > b

\* Every price the row has lies in the range, and a row without a price is in
\* no range; an inverted range is not applied.
InRange(row, min, max) ==
    LET inverted == IsPriceRangeInverted(min, max)
        lower == IF inverted THEN {} ELSE ParsePriceInput(min)
        upper == IF inverted THEN {} ELSE ParsePriceInput(max)
    IN  lower \cup upper # {} =>
            \E price \in row.lowestPrice :
                (\A a \in lower : a <= price) /\ (\A b \in upper : price <= b)

\* The rows that pass, by their places among all: filtering keeps their order.
ApplyCatalogFilters(rows, values) ==
    {i \in DOMAIN rows :
        /\ values.search # "" => values.search \in rows[i].product.terms
        /\ values.availableOnly => rows[i].inStock
        /\ InRange(rows[i], values.min, values.max)}

-----------------------------------------------------------------------------
(* catalogSort *)

SortValues == {"price_asc", "price_desc", "name_asc"}
ParseCatalogSort(text) == IF text \in SortValues THEN text ELSE "relevance"

\* Rows without a price come last in both directions.
PriceBefore(a, b, ascending) ==
    \/ a.lowestPrice # {} /\ b.lowestPrice = {}
    \/ \E x \in a.lowestPrice, y \in b.lowestPrice : IF ascending THEN x < y ELSE y < x

RowBefore(a, b, sort) ==
    CASE sort = "relevance"  -> FALSE
      [] sort = "name_asc"   -> a.product.rank < b.product.rank
      [] sort = "price_asc"  -> PriceBefore(a, b, TRUE)
      [] sort = "price_desc" -> PriceBefore(a, b, FALSE)

\* A stable sort of the rows at some places: what is not ordered keeps the order
\* of the API.
SortCatalogRows(rows, places, sort) ==
    LET before(i, j) == \/ RowBefore(rows[i], rows[j], sort)
                        \/ ~RowBefore(rows[j], rows[i], sort) /\ i < j
        rank(i) == Cardinality({j \in places : before(j, i)}) + 1
    IN  [n \in 1..Cardinality(places) |-> rows[CHOOSE i \in places : rank(i) = n]]

-----------------------------------------------------------------------------
(* The page *)

CatalogKeys == {"q", "min", "max", "available", "sort"}
NoCatalogFilters == [filters |-> [key \in CatalogKeys |-> ""], page |-> 1]

Delayed == {"q", "min", "max"}
TypedIn(u) == [key \in Delayed |-> u.filters[key]]
Settled == seen = TypedIn(url)

Rows ==
    IF view.status = "success"
    THEN DeriveCatalogRows(view.data.products, view.data.offers) ELSE <<>>

Matching ==
    ApplyCatalogFilters(Rows,
        [search |-> seen["q"], min |-> seen["min"], max |-> seen["max"],
         availableOnly |-> url.filters["available"] = "true"])

Visible == SortCatalogRows(Rows, Matching, ParseCatalogSort(url.filters["sort"]))

PageRows ==
    SubSeq(Visible, (url.page - 1) * CardsPerPage + 1, Min({url.page * CardsPerPage, Len(Visible)}))

HasFilters == Active(url, {"q", "min", "max", "available"}) # {}

CatalogChips == Active(url, Delayed) \cup {k \in {"available"} : url.filters[k] = "true"}

\* The pages are offered when there is more than one; the grid shows its cards
\* and nothing else says that the page is past the last one.
ShowsPages == Len(Visible) > CardsPerPage
Cards == [i \in DOMAIN PageRows |-> ProductCard(PageRows[i])]

FieldTexts(key) ==
    {""} \cup CASE key = "q"         -> Terms
                [] key = "available" -> {"true"}
                [] key = "sort"      -> SortValues
                [] OTHER             -> DOMAIN PriceOf \cup NotPrices

-----------------------------------------------------------------------------
Init ==
    /\ url \in {NoCatalogFilters} \cup {Put(NoCatalogFilters, "q", term) : term \in Terms}
    /\ seen = TypedIn(url)
    /\ view = Loading
    /\ astray = FALSE
    /\ clicks = 0

Click == clicks < MaxClicks /\ clicks' = clicks + 1

\* A filter changes: the page number goes, and with it any doubt about it.
Filter(u) ==
    /\ url' = u
    /\ astray' = FALSE
    /\ UNCHANGED <<seen, view>>

SetField(key, text) ==
    /\ Click
    /\ key = "sort" => view.status = "success"
    /\ text # url.filters[key]
    /\ Filter(Put(url, key, text))

RemoveChip(key) ==
    /\ Click
    /\ key \in CatalogChips
    /\ Filter(Put(url, key, ""))

\* With a second chip, or from the notice that nothing matches.
ClearAll ==
    /\ Click
    /\ \/ Cardinality(CatalogChips) > 1
       \/ view.status = "success" /\ Rows # <<>> /\ Visible = <<>> /\ HasFilters
    /\ Filter(NoCatalogFilters)

TurnPage(page) ==
    /\ Click
    /\ ShowsPages
    /\ \/ page = url.page - 1 /\ url.page # 1
       \/ page = url.page + 1 /\ url.page * CardsPerPage < Len(Visible)
    /\ url' = PutPage(url, page)
    /\ astray' = ((page # 1 /\ ~Settled) \/ (astray /\ page # 1))
    /\ UNCHANGED <<seen, view>>

\* The header's search sends any other text to the catalog.
Search(term) ==
    /\ Click
    /\ Filter(Put(NoCatalogFilters, "q", term))

Settle(key) ==
    /\ seen[key] # url.filters[key]
    /\ seen' = [seen EXCEPT ![key] = url.filters[key]]
    /\ UNCHANGED <<url, view, astray, clicks>>

Answer(shelf) ==
    /\ view = Loading
    /\ view' = Arrived(shelf)
    /\ UNCHANGED <<url, seen, astray, clicks>>

Fail ==
    /\ view = Loading
    /\ view' = Failed
    /\ UNCHANGED <<url, seen, astray, clicks>>

Retry ==
    /\ Click
    /\ view = Failed
    /\ view' = Loading
    /\ UNCHANGED <<url, seen, astray>>

\* The page is reloaded with its URL: another catalog may come.
Reload ==
    /\ Click
    /\ seen' = TypedIn(url)
    /\ view' = Loading
    /\ astray' = (url.page # 1)
    /\ UNCHANGED url

Next ==
    \/ \E key \in CatalogKeys : \E text \in FieldTexts(key) : SetField(key, text)
    \/ \E key \in CatalogChips : RemoveChip(key)
    \/ ClearAll
    \/ \E page \in {url.page - 1, url.page + 1} : TurnPage(page)
    \/ \E term \in Terms : Search(term)
    \/ \E key \in Delayed : Settle(key)
    \/ \E shelf \in Shelves : Answer(shelf)
    \/ Fail
    \/ Retry
    \/ Reload

Spec == Init /\ [][Next]_catalogVars

-----------------------------------------------------------------------------
(* Properties *)

\* The type invariant of the catalog page.
TypeOK ==
    /\ DOMAIN url = {"filters", "page"} /\ DOMAIN url.filters = CatalogKeys
    /\ url.page \in Nat \ {0}
    /\ DOMAIN seen = Delayed
    /\ view \in Views(Shelves)
    /\ astray \in BOOLEAN
    /\ clicks \in 0..MaxClicks

\* When products match the filters the grid is not empty, however filters,
\* sorting, delayed fields and pages were used, unless a page was turned while a
\* text field had not settled, or the page was reloaded off its first page: the
\* pages go away with the last card and the count above the empty grid stays
\* (ProductListPage.tsx:75, 208).
MatchesAreShown ==
    (view.status = "success" /\ Visible # <<>> /\ ~astray) => Cards # <<>>

=============================================================================
