----------------------------- MODULE UrlFilters -----------------------------
(***************************************************************************)
(* Filters kept in the query string (useUrlFilters), the text of the order *)
(* search (orderNumber) and the header's search box (GlobalSearch).  A URL *)
(* is a value for every filter key, "" for an absent one, and a page       *)
(* number, 1 when the key is absent or is not a number.                    *)
(***************************************************************************)
EXTENDS Naturals

CONSTANTS
    Numbers,    \* texts that are a public number: 1042, 1042-1
    Partials,   \* texts that begin with a digit and are not a number: 1042-
    Uuids,      \* complete UUIDs
    Words       \* any other text

ASSUME LookupAssumption ==
    /\ "" \notin Numbers \cup Partials \cup Uuids \cup Words
    /\ \A A, B \in {Numbers, Partials, Uuids, Words} : A # B => A \cap B = {}

Texts == {""} \cup Numbers \cup Partials \cup Uuids \cup Words

FilterKeys ==
    {"status", "effective_priority", "seller_id", "order_item_id", "number", "from", "to"}

NoFilters == [filters |-> [key \in FilterKeys |-> ""], page |-> 1]

-----------------------------------------------------------------------------
(* useUrlFilters *)

\* Mutant of Put: the page stays.
PutOnThisPage(url, key, value) == [url EXCEPT !.filters[key] = value]

\* A filter is written and the list goes back to its first page.
Put(url, key, value) ==
    [filters |-> [url.filters EXCEPT ![key] = value], page |-> 1]

PutPage(url, page) == [url EXCEPT !.page = page]

Active(url, keys) == {key \in keys : url.filters[key] # ""}

IsCompleteUuid(text) == text \in Uuids

\* Two calls of set in one event handler: setSearchParams does not queue its
\* updates, each starts from the URL of the last render and the last one wins.
PutBoth(url, key1, value1, key2, value2) == Put(url, key2, value2)

-----------------------------------------------------------------------------
(* orderNumber *)

LookupClass(text) ==
    CASE text = ""        -> "empty"
      [] text \in Uuids   -> "uuid"
      [] text \in Numbers -> "number"
      [] OTHER            -> "invalid"

NextNumber(text) == IF text \in Numbers \cup Partials THEN text ELSE ""
NextOrderItemId(text) == IF text \in Uuids \cup Words THEN text ELSE ""

\* Typing in the order field writes both keys, the number last.
ApplyLookup(url, text) ==
    PutBoth(url, "order_item_id", NextOrderItemId(text), "number", NextNumber(text))

\* The chip of the order search clears both keys, the id last.
ClearLookup(url) == PutBoth(url, "number", "", "order_item_id", "")

\* The text the order field shows.
LookupInput(url) ==
    IF url.filters["number"] # "" THEN url.filters["number"] ELSE url.filters["order_item_id"]

\* What the list asks the API for.
OnlyIf(class, text) == IF LookupClass(text) = class THEN text ELSE ""

-----------------------------------------------------------------------------
(* Links from one screen to another: a screen with a URL *)

To(screen) == [screen |-> screen, url |-> NoFilters]
With(screen, key, value) == [screen |-> screen, url |-> Put(NoFilters, key, value)]

OrderList == [buyer |-> "buyer", seller |-> "seller", ops |-> "opsItems"]

\* The header's search: a number goes to the order list of the role, a UUID
\* too unless the user is a buyer, anything else to the catalog.
GlobalSearch(role, text) ==
    CASE text \in Numbers                  -> With(OrderList[role], "number", text)
      [] text \in Uuids /\ role # "buyer"  -> With(OrderList[role], "order_item_id", text)
      [] OTHER                             -> To("catalog")

=============================================================================
