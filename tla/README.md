# Market Hub: a TLA+ model of the marketplace

Market Hub is a marketplace: buyers check out carts over the offers of sellers, sellers ship or
cancel order items, both talk about an item in conversations, a support team (Ops) works through the
conversations by priority, and a worker turns committed changes into notifications. The backend
(`app/`) is FastAPI over PostgreSQL at READ COMMITTED, one transaction per request, plus one SQS
queue and a worker process. The frontend (`frontend/src`) is a React application that talks to it
over HTTP.

Sections: [1 Inventory](#1-inventory), [2 Plan](#2-plan), [3 Modules](#3-modules),
[4 Runs](#4-runs), [5 Proofs](#5-proofs), [6 Findings](#6-findings),
[7 What is only model-checked, and what is not modelled](#7-limits).

## 1. Inventory

| component | state | operations | interacts with | hard behaviour | what makes it correct |
|---|---|---|---|---|---|
| Orders (`orders/`) | `orders`, `order_items`, `offers.stock` | checkout, PATCH and cancel of an item | offers by row locks; events after commit | two checkouts for the last unit, buyer and seller cancelling at once, rows locked in different orders | stock never negative, no unit lost or returned twice, the confirmed price is paid |
| Offers and products (`catalog/`) | `offers`, `products` | create, update, delete | checkouts, the RESTRICT key of order items | an offer edited or deleted between the validation of a cart and its purchase | no item without its offer |
| Conversations (`communication/`) | `conversations`, `messages` | open, list, read, talk, close, the batch `close_inactive` | the item's row lock, events | lazy closure by whoever looks, a batch with old ids, SKIP LOCKED | one open conversation per item, nothing said after the closure, closed once |
| Priority (`communication/priority.py`, `reconcile.py`, `support/priority_ops.py`) | `calculated_priority`, `ops_override`, `priority_calculated_at` | refresh, mark and unmark critical, the job `RECONCILE_PRIORITIES` | conversations, item status, worker | the job pages and writes without having locked; the stamp that says "fresh" is itself data | what is not found stale is right (section 6); Ops decides the override and announces what it changes; what is stale is repaired |
| Jobs (`jobs/`) | the queue, `pending_reconcile` of each worker | send, receive, handle, delete, ticker | SQS, handlers | at-least-once delivery, lost responses, crashes, dead letters | an accepted change is not forgotten, the ticker goes on |
| Notifications (`notifications/`) | `notifications`, e-mail | bridge from events, delivery job, inbox endpoints | jobs, users | duplicates, an e-mail inside a transaction, alerts without an address | once per recipient, all or none, an alert was mailed to its addresses, read stays read |
| Core (`core/events.py`, `database.py`) | events pending in a session | commit, rollback, publish | everything | a crash between commit and publication | events tell the truth |
| Auth (`auth/`) | `users`; signed tokens | login, current user | every request | none on the server: stateless | |
| Support listings, comments; dashboard | `internal_comments` | queries, INSERT of a comment | all tables | OFFSET pages over rows that move | read only |
| Session of a tab (`lib/api/client.ts`, `AuthProvider`, `AppRouter`, `LoginPage`) | token in `localStorage`, status and user, route | login in two calls, logout, the check at the start, requests, 401 | the API, other tabs | a 401 for an earlier session, a login that fails half way, a token that another tab replaced | the user shown owns the token, a dead session ends |
| Lists (`useAsync`, `useUrlFilters`, the list pages, the header's search) | URL, delayed text, the last answer | filter, chip, page, link, retry | the listings of the API | answers out of order, dependencies written by hand | the rows answer the URL |
| Catalog page | the same, filtered and cut in the browser | the same | offers and products | pages of one set of filters with the cards of another | matches are shown |
| Item and conversation pages (`StatusActions`, `BuyerCancelActions`, `PriorityActions`, comments) | the loaded row, a dialog | advance, cancel, mark and unmark, comment | the endpoints of items and Ops | the row changes under a button, the route under a dialog | what is confirmed is done, to the thing meant |
| Offers: purchase, editor, new offer | the loaded offers, the form | buy, save, delete, publish | checkout, offers, products | forms filled from an old load, two calls of which one fails | what is bought is what was shown |
| Conversation panel | conversations, messages of the selected one | open, send, close, page back | the conversations' endpoints | requests of two conversations in flight, windows of 24 hours | the messages shown are of the conversation shown |
| Notification bell | count, list, pages | poll, open, mark, mark all, follow | the inbox | poll against optimistic mark | the badge becomes right |
| Migrations, seeds, infrastructure | | run before the program | | | |

`PROJECT.json` lists the components with their files, and the hazards with their lines.

## 2. Plan

Order of work; the most important behaviour comes first.

1. **Orders** with `OrderStatus` and the abstract `OrderBook`. *Done*, with `OrdersProofs`.
2. **Conversations**: every endpoint and the batch. *Done*, with `ConversationsProofs`.
3. **PriorityPolicy** and **Priority**. *Done*, with `PriorityProofs`.
4. **Jobs** over the abstract **Inbox**. *Done*, with `JobsProofs`.
5. **Frontend**: `AsyncView`, `UrlFilters`, and over them `BrowserSession`, `ListPage`, `Catalog`,
   `ItemPage`, `OfferPages`, `ConversationPanel` and `NotificationBell`, each against an API that
   answers in any order and rows that others write; `MCFrontend` puts them together. *Done*, with
   `ItemPageProofs` (the page of an item, the panel, the bell), `OfferPagesProofs` (the purchase and
   the forms of a seller) and, for the session, the lists, the catalog and the whole,
   `FrontendProofs`. The 24 hour window of the messages is in `ConversationPanel`.
6. **Products**: the statements of the products' endpoints, deletion against the creation of an
   offer of the same product.
7. **MarketHub**: events of Conversations and Orders feeding Jobs: what one change, or two closures
   of one conversation, become in the inboxes.

`MCx` modules hold the instances for TLC. Modules with theorems, and those they extend, use no
recursive operator.

## 3. Modules

Common conventions. A process of the program (a server thread that serves one request at a time, a
batch, a run of the job, a worker) has a `pc`; **one action is one SQL statement that can wait or
be overtaken, together with the Python up to the next one**, since at READ COMMITTED nothing else
is visible to others. Row locks are a function from rows to transactions; a statement that finds a
row locked is not enabled. `CloseSession` is `database.session_transaction`: its locks, pending
events and identity map go. `Publish` is `publish_pending`, after the commit; `LoseEvents` is a
crash before it; `Abort` is an exception or crash before the commit. `published` is what was handed
to the publisher by the last step that published.

**OrderStatus** — `orders/status.py`: forward moves, who may cancel from where, what returns stock.

**Orders** — checkout, item requests and offer requests over the same rows.
`Submit`, `ValidateItem` (one `session.get` per line), `ConsumeStock` (the conditional UPDATE and
the item of that line), `RefuseStock`, `CommitCheckout` are `checkout()`. `Receive`, `LockRow` (the
rows of the joined SELECT ... FOR UPDATE, one at a time in join order), `AnswerUnchanged`,
`RefuseTransition`, `UpdateStatus`, `Cancel`, `CommitItem` are PATCH and cancel of an item.
`CreateOffer`, `ReadForUpdate`, `ReadForDelete`, `FlushUpdate`, `FlushDelete`, `RestrictDelete`,
`CommitOffer` are the offers' endpoints: a flush writes only columns that differ from what was
loaded, a delete is refused by the foreign key. `DeadlockVictim` is PostgreSQL's detector: any
transaction of a circle of waiters is rolled back. `moves`, `restored` and `supply` are history.
Items are `<<checkout, line>>`.

**OrderBook** — what Orders promises, with each request taking effect at one instant. Orders
implements it with `order` mapped to the committed carts.

**Conversations** — the six endpoints of `communication/routes.py` and `close_inactive`. The
endpoints but the list lock what they decide upon (`LockItem`, `LockConversation`) and read after
that; the list (`ReadList`) keeps the attributes of its first, unlocked read, as SQLAlchemy's
identity map does. `CloseForInactivity` is the lazy closure in whoever looks. `RefuseClosed` rolls
back, the lazy closure included. The batch scans ids, then takes each in its own transaction and
skips a locked one. Time is a clock of abstract hours.

**PriorityPolicy** — scores in hundredths, buckets, `IsStale` and `StaleClause`, its translation to
SQL in which a comparison with NULL is not true. All boundaries are whole hours or currency units,
so integers are enough.

**Priority** — Ops requests lock a conversation before reading it (`LockForOps`); the job reads
pages without a lock (`ReadPage`), calculates for the moment its run began, and its `Commit` writes
only the columns that differ from what was read. A status change is stamped when handled
(`StampStatus`) and visible when committed (`CommitStatus`). Messages and closures, already in
Conversations, are single steps here.

**Jobs** — a queue of slots with visibility, receive counts and redrive; a worker's loop with the
ticker; the handler of notifications with the e-mail inside its transaction. An e-mail has addresses
of its own (`Addresses`): the seller's, if the item has a seller with a user, and the extra one of the
settings, if it is set; Ops have the row in the inbox only, and an alert without an address commits
its rows and is mailed to nobody (`service.py:129`). **Inbox** is what
recipients are promised: told at once, all of them, once, and read stays read.

**The frontend.** A page has one thread, so an action is one gesture of the user, one timer, or one
answer, with every render and effect that follows from it. `net` is the requests in flight; the API
*serves* a request at one moment and its answer *arrives* at a later one, in any order, or fails, and
others write the same rows in between (`Elsewhere`, `OtherWrites`, `OtherTab`). Where the code leaves
open which of two answers wins, a history variable (`overlapped`, `crossed`, `strayed`, `astray`,
`disturbed`) records that the page got into that situation, and the properties say what holds
outside it; section 6 describes what happens inside it.

* **AsyncView** — `useAsync`: loading, error, success; a view keeps no identity of its request.
* **UrlFilters** — `useUrlFilters`, `orderNumber`, the header's search and links. `PutBoth` is two
  calls of `set` in one event handler.
* **BrowserSession** — the token, the check at the start (`Reload`, `BootOk`, `BootFails`), the login
  in two calls (`CredentialsOk`, then `MeOk`, `MeRefused`, `MeUnanswered`), `apiRequest` (`Ask`, then
  `Grant` or `Deny`), the handler of a 401 (`Unauthorized`), other tabs, the guards of the routes
  (`Settled`).
* **ListPage** — six pages in one module. `Page(screen, url, seen)` is what the page asks for with
  the dependencies it hands to `useAsync`, page by page; `Render` is a render with a new URL or new
  delayed values, which loads when a dependency changed. The links between the pages are followed.
* **Catalog** — `catalogRows`, `catalogFilters`, `catalogSort` as operators, the URL with its delayed
  prices and text, the cards of a page.
* **ItemPage** — four kinds of page: the seller's item, the buyer's item, the conversation of Ops,
  the comments. `ServeFetch` reads, `Accept` and `Refuse` apply the rules of the API (`OrderStatus`
  for items), `ShowDone` reloads the page as `onChanged` does.
* **OfferPages** — three scenes: the product with its purchase panel, the editor with its two forms
  and two deletions, the form of a new offer. A form is filled from the first answer for its key
  (`EditorKey`), edited, and sent as it is.
* **ConversationPanel** — the panel over the conversations of one item: `serve` actions are the
  endpoints as Conversations has them, without their locks and with the lazy closure; `Window` is
  the 24 hours of messages before a moment.
* **NotificationBell** — the count, the list and its pages, the optimistic marks, the lookup of the
  page a notification is about, over the rows of one user.
* **MCFrontend** — the frontend as a whole: the session and the pages in *scenes*. One page is
  mounted at a time and nothing of it survives its page, so a scene explores one page; the variables
  that several pages have under one name (`view`, `net`, `clicks`) are shared.

## 4. Runs

Twelve runs, eight that pass and four that end in a violation. Times are for two TLC workers.

| run | question | instance | size |
|---|---|---|---|
| `orders` | Do stock, prices and foreign keys survive races, and does every request end? | two checkouts in opposite lock order with a seller editing and deleting, *or* one checkout with an item request and a seller who creates, edits and deletes; `FewActors` keeps the two situations apart | 73 000 states, 90 s |
| `orders_items` | Do item requests restock once, tell the truth, avoid deadlock and implement `OrderBook`? | one two-line order, two threads of item requests | 350 000, 25 s |
| `orders_price` (violation) | Is the price paid the current one? | one checkout, one PATCH | |
| `conversations` | One open conversation, nothing said after closing, closures justified? | one item, two conversations, two threads with every endpoint, one batch, two hours | 1.7 M, 60 s |
| `conversations_liveness` | Does every request end? | one conversation, two threads, batch | 20 000, 10 s |
| `conversations_twice` (violation) | Is a conversation closed once? | two threads that open and list | |
| `priority` | Does Ops announce its changes once and truly and decide the override, is staleness always repaired, do Python and SQL agree on it, does waiting never ease? | two conversations in pages of one, one of them from before the migrations (its stamp is NULL); two threads of Ops on that one, status changes, messages and closure on the other; one run of the job, one failure, two days | 180 000, 150 s |
| `priority_overlap` (violation) | Is a priority right that is not stale? | one conversation, two runs of the job, messages, three hours around an age boundary | |
| `jobs_delivery` | Is an accepted change kept, an alert mailed, `Inbox` implemented? | two workers, two slots, one alert to two users with two addresses, one failure, one lost response | 3.0 M, 85 s |
| `jobs_liveness` | Is it told in the end, also without an address, and mailed to nobody then; does the ticker go on? | one worker, four slots, one alert without an address, two deliveries, one failure | 28 000, 10 s |
| `frontend` | Does each page show what was asked for, do what was confirmed, buy what was shown? Is the session coherent, does a dead one end, does the badge become right? | see below | 770 000, 160 s |
| `panel_history` (violation) | Does "Carregar mais antigas" bring older messages? | three histories, windows of two hours | |

**Bounds and why they are enough.** Two rows and two transactions make a lock circle; a third
adds waiters and no new kind of wait. A status has four forward steps, so `orders_items` walks items
through their whole life. Stock and quantities are 0 to 2: refused, exactly enough, and more than
enough. Two conversations of one item let one follow the other; no request looks at two items. In
`priority` the clock moves once, over two days and all boundaries of the age buckets: a run that
began before is then old, one that begins is new. In `priority_overlap` two runs begin on both sides
of one boundary, and a message comes after it. `MaxReceive` is 2 with one failure, so a redelivery
succeeds, and the dead letters are reached when the failure and the lost response combine.
`MaxFailures` bounds failed transactions (in the frontend, failed requests), `MaxLost` lost
responses, `MaxMessages` the messages of a conversation, `MaxTime` and `Moments` the clock.

In `frontend` two requests in flight (`MaxRequests`) are enough for one answer to overtake another,
and a third would be dropped or shown like the second. Three gestures (four in the catalog, two in
the bell) are enough to change a filter, come back, and act on the result; a gesture is `clicks`,
and timers, answers and others' writes are not counted. Texts are one of each class that the code
tells apart: a number, the beginning of one, a UUID, a word; prices as typed are the two the API
takes, one of them written in two ways, and two it does not take. Two rows of a page of one make
page 2 and its end. Three offers of two products, two of them the seller's, give a product with
another seller's offer, one offer to leave alone, and one that is sold out. Two tokens of two users
let one session end and the next begin with a refusal of the first still on its way. The histories
of the panel are none, an open conversation over two windows, and a closed one older than a window.

**Symmetry** is used where no liveness is checked and the permuted values play equal parts (threads,
item requests, workers, slots). **CHECK_DEADLOCK FALSE** where the clock runs out or all requests
are done and the idle system may rest.

**Fairness.** Orders and Conversations: a request that has begun goes on; strong for statements that
wait for a row, because PostgreSQL queues the waiters of a row; nothing is assumed of new requests,
crashes or aborts. Priority: the same, and the ticker starts a run after each run. Jobs: the worker's
loop goes on and SQS offers a visible message until some worker takes it (strong, since a message is
hidden and shown in turns). `jobs_liveness` has fewer failures than deliveries and no lost response:
otherwise a message reaches the dead letters, which is what the queue is configured for. Session:
the layout is mounted and its bell polls as long as the session lasts (weak fairness of `Ask`), the
API answers and the answers arrive. Bell: the interval ticks, the API answers, the answers arrive.
Nothing is assumed of the user, of other tabs or of notifications to come; failures are bounded.

Each property of a passing run has a mutant beside its definition (`\* Mutant of ...`): a dropped
guard, lock, reset or a wrong column, which TLC then refutes.

## 5. Proofs

Eight modules hold theorems, about the specifications themselves and for every value of the
constants that satisfies the assumptions named beside them.

| module | theorems |
|---|---|
| `OrdersProofs` | `TypeCorrect`, `ExpectedPricePaid`, `OffersOfItemsLive`, `RestockedAtMostOnce`, `EventsToldAreTrue`, `NoOtherDeadlock`, `NoUnitLost`, `ImplementsOrderBook` |
| `ConversationsProofs` | `TypeCorrect`, `IndexIsNeverHit`, `EventsHoldTrue`, `SaidOnlyWhileOpen`, `ClosesOnlyWhatItSees`, `ClosedOnceWithoutList` |
| `JobsProofs` | `TypeCorrect`, `AcceptedStaysKept`, `AlertsWereMailed`, `ImplementsInbox` |
| `PriorityProofs` | `TypeCorrect`, `OverrideIsDecided`, `ClauseSelectsStale`, `WaitingNeverEases`, `NotStaleIsAsBefore`, `EventsTellTheTruth`, `ChangesAreAnnounced` |
| `AsyncViewProofs` | lemmas only: what is in flight after a request more or one less |
| `ItemPageProofs` | `DoneAsConfirmed`, `RefusalMeansStale`, `ShownAsTold`, `PagesTypeCorrect`, `ThreadIsTold`, `BellTypeCorrect` |
| `OfferPagesProofs` | `FormsTypeCorrect`, `PaidAsShown`, `OverwritesAreStale`, `FailuresAreTold` |
| `FrontendProofs` | of the session and the lists: `TypeCorrect`, `Coherent`, `ShowsWhatIsAsked`; of the whole: `FrontendTypesHold`, `SessionStaysCoherent`, `DialogsKeepTheirThing`, `OnlyTheStaleIsRefused`, `ListsAnswerTheirUrl`, `MatchesStayShown`, `PanelTellsItsThread`, `OrdersArePaidAsShown`, `SavesAreOfWhatIsShown` |

Each follows the same course: an inductive invariant `IInv`, one lemma per action (or per kind of
action) that preserves it, and frame lemmas for the transactions that do not move.

### Orders

`OrdersProofs` proves eight theorems of `Orders!Spec` for every set of offers,
prices, carts, catalogues and requests that satisfies the assumptions named in `Orders`.

* `TypeCorrect`, `ExpectedPricePaid`, `OffersOfItemsLive`, `RestockedAtMostOnce`: the invariants
  `TypeOK` (which says that stock is a natural number), `PaidAsExpected`, `NoOrphanItem`,
  `RestockedOnce`.
* `ImplementsOrderBook`: `Spec => RefinesOrderBook`; each step is a step of `OrderBook` or leaves
  its variables alone.
* `EventsToldAreTrue`, `NoOtherDeadlock` and `NoUnitLost`: the invariants `EventsAreTrue`,
  `DeadlockNeedsCheckoutsOrDelete` and `StockConserved`, below.

*The inductive invariant* `IInv` adds to `TypeOK` what TypeOK cannot give itself: `PcInv` (which
transactions can be at which step), `ItemsInv` (an item exists exactly if a checkout has consumed
that line, with the price of the cart), and `SessionInv`, made of `CheckoutOK`, `ItemOK` and
`OfferOK`: what each session has read and the locks it holds. Each action has a lemma. The argument
repeats itself for the sessions that do not move, so it is made once: an action of `t` *respects*
the others (leaves their rows, locks and buffers alone), and the lemmas `CheckoutFrame`, `ItemFrame`
and `OfferFrame` conclude that their part of `SessionInv` is preserved. `RestockInv` ties `restored`
to `moves` for the restock theorem. `NoOrphanItem` is inductive relative to `IInv`, because an item
takes the lock of its offer before the delete may test for references. The refinement uses
`TableSteps`: what a step may do to stock, status and orders, by kind of action.

`OrderBook` is deliberately free about `Restock`, since PATCH writes an absolute stock.

*Events* are recorded before the commit and published after it, while others go on. `EventInv` says
of a request about to commit which events it can have recorded (`RecordedOK`); its commit makes them
facts, and `FactStays` that no step takes a fact back: moves are only added, a cancelled item stays
cancelled, a placed order placed.

*Deadlock.* `LockInv` adds to `IInv` what a transaction may hold while it still waits (`HoldsOK`);
`WaitsFor` says for which row each waits. In a circle everybody holds a row that another member
waits for. A thread that is loading an item holds that item's row only, and whoever waits for it, a
deletion apart, holds nothing yet; a thread that has loaded its item holds either the offer it would
wait for (seller) or rows nobody in the circle waits for (buyer). So a circle without a deletion
consists of checkouts, and of more than one, since nobody waits for himself. `NoOtherDeadlock`
assumes finitely many checkouts, because "two" is a statement about `Cardinality`.

*Stock.* `StockConserved` is about a sum over all items of an offer, and the sum is a fold.
The proof does without an induction over data: among the finite sets for which a claim about a
sum fails there is a smallest (`SmallestSubset`, from the well-foundedness of the strict subset), and
an element less gives the contradiction. In this way the order of adding does not matter
(`SumsAnyOrder`), an element more or less changes the sum by its value (`SumWith`, `SumWithout`), and
`OutstandingIsSum` identifies the fold of the model with that sum. The rest is bookkeeping: the
commit of a checkout adds at most one item per offer, since a cart names an offer once, the commit of
a cancellation takes one out, an edit by the seller changes stock and supply alike. That the existing
items are finitely many is part of the invariant and not an assumption.

### Conversations

`ConversationsProofs` is about any items, threads, runs of the batch, conversations and hours of
inactivity. The invariant says of each transaction what it has at each step (`ShapeOK`), that from
its SELECT ... FOR UPDATE to its end it holds the row (`LocksOK`) and, because of that, that what it
has read is still in the tables (`TableOK`): the conversation is open and its last message the one it
saw, or the item has no open one. The list is exempt from the last part, since its attributes are
older than its lock. It follows that the unique index is never hit (whoever is at the INSERT holds
the item), that nothing is said in a closed conversation, and that what closes one has seen it open
and silent. `ClosedOnceWithoutList` shows that the exemption is exactly the finding
`conversations_twice`: if no request is a list, each conversation is closed once at most.
`EventsHoldTrue` is as in Orders: a recorded event is that of the write it is recorded with.

### Jobs

`JobsProofs` is about any changes, recipients, workers, slots, deliveries, failures and lost
responses. `WorkerOK` carries the argument: a message in a worker's hands is of an accepted change,
an alert is mailed to all its addresses before its rows are committed (`DeliverMails`; to nobody if
it has none, and to nobody else), a change is told before its message is deleted, and
while a worker has a message, its slot holds that message or none: a receipt of SQS never stands for
another message, which `FreeSlots` says of the slots. So a deletion by an old receipt takes a message
that has been told. `ImplementsInbox` maps every step: the commit of the notifications tells the
change to all its recipients, or has been made before (`InboxOK`: all are told, or none) and changes
nothing; what a user marks is in the inbox. The assumption about `None` in `Jobs` says that an empty
slot is not a message.

### Priority

`PriorityProofs` proves `TypeCorrect`, `OverrideIsDecided` (`Spec => []OverrideIsLastDecision`) and
`ClauseSelectsStale` (`Spec => []ClauseIsIsStale`) of `Priority!Spec` for any conversations, threads,
runs of the job and moments. `IInv` is `TypeOK`, `OverrideIsLastDecision` and, for each transaction,
`SessionOK`: where it can be (`PcOK`), what it has loaded (`RequestOK`), that what it will write is a
row (`ChangesOK`), and `OverrideOK`, which carries the argument: a refresh or a page of the job may
hold an override that is out of date, but its UPDATE does not name that column, and a mark or an
unmark names it with the value it decides. A transaction that does not move keeps its part
(`SessionFrame`), so each action is checked for the one that does (`OneMoves`). The clause of the SQL
agrees with `is_stale` on every row of the right type, a NULL included, so that theorem needs only
the types.

The module goes on with the policy and the requests of Ops.

* `WaitingNeverEases`: a rank counts the boundaries reached (`RankIs`), the score grows with the rank
  (`OlderIsMoreUrgent`), and nothing but the age moves with the clock. This covers every pair of
  hours, where the run has one step of the clock.
* `NotStaleIsAsBefore` is about the policy alone: `is_stale` compares age buckets instead of
  priorities, and misses no change of the priority by it while the status of the item is the same.
  That the *row* holds the priority of the hour of its stamp is another matter, and false when runs
  of the job overlap (section 6).
* `EventsTellTheTruth` and `ChangesAreAnnounced` are `Spec => EventsMatchRow` and
  `Spec => ChangesAnnounced`, for any number of threads and of runs of the job. `AInv` says that a
  request of Ops holds its conversation and has loaded the row as it is, and that its events are the
  difference between that row and the one it writes; the job takes the same lock for its UPDATE. Of
  the job's own events the like is false (section 6).

### The session of a tab

`FrontendProofs` proves `TypeCorrect` and `Coherent` (`Spec => []SessionIsCoherent`) for any
sets of tokens, users and routes and any `MaxAsked`, by `SessionInv`. From the assumptions of `BrowserSession` about
its constants: every token has an owner, every user a role. What the properties do not say of
themselves is what is known of a token *while its user is being fetched*: `CheckIsFresh` says it is
the stored one unless the session was disturbed, that nobody is logged in meanwhile, and that no page
has asked anything with it, so no refusal of it can be on its way; `OnlyIssuedAsk` that a token not
yet issued has no request of anybody's. `SettledFits` is the part about routes: wherever the guards
send the user, the place fits the session.

### Lists

`FrontendProofs` proves `ShowsWhatIsAsked` (`L!Spec => []L!ShownIsAsked`) for any values of the
filters, any page size and any number of gestures and of requests in flight. `ListInv` says of a page
without overlap that it waits for the request it would send now, or shows its answer; it is
inductive because of `DepsDecide`, page by page: equal dependencies make equal requests. A filter left
out of the dependencies of a page breaks that lemma and no other.

The types of the lists need an invariant of their own, `ListTyped`: the page number of a URL stays
within the pages there can be because a next page is offered only while the pages up to this one do
not reach the total that was loaded (`PagesTurn`), and the links of a role lead to its own pages
(`LinksFit`).

### The catalog

`MatchesStayShown` holds for any products, offers, page size and number of gestures. Its invariant,
`CatalogInv`, is that the URL is on the first page, or that the text fields have settled and the page
it names has cards (`OnItsPage`), unless `astray`. Each filter goes back to the first page
(`FilterKeeps`), a page is turned only to one that has cards (`TurnKeeps`), and what a load brings is
the shelf there was (`SameVisible`). The assumption is that a shelf has finitely many products, which
the cards are counted by. The grid is stated as the positions that match rather than with
`SelectSeq`, which the provers cannot unfold; the two say the same.

### The page of an item

`ItemPageProofs` is about any things, any number of gestures and of requests in flight, and the four
kinds of page. `DoneAsConfirmed` is `Spec => []ConfirmedIsDone`; `RefusalMeansStale` and
`ShownAsTold` are the two halves of what the run checks as `RefusedOnlyWhenStale`.

* `IInv` says of each request in flight that a button of the state recorded with it offered it
  (`Offered`) and that a refusal found another row (`AnswerOK`); of a page without overlap that it
  waits for its only load (`LoadsOK`), so that nothing can be replaced under an open dialog
  (`DialogOK`): the load that would do it is not there. `OfferedIsAllowed` compares the tables of
  `statusFlow.ts` and `orders/status.ts` with those of `orders/status.py`, entry by entry.
* `ToldOK` orders four things that each know the state of an item: what was announced, the answers
  under way, the rows a load has brought, the row itself. A row moves forward or is cancelled
  (`AcceptMoves`), "not older" is kept by such a move (`LaterStill`), and a load that leaves after an
  announcement brings a row that leads it. With an overlapping load this fails, since the older one
  may be shown last: the finding of `useAsync.ts` in section 6.
* `Removed` and `Appended` (in `AsyncViewProofs`) say what removing and adding a request leaves where;
  the requests are a sequence because an answer is one of those in flight, in no order.
* `PagesTypeCorrect` needs `Bounded`: that every row a request makes is a row of the page's kind
  (`OutcomeIsRow`).

### The panel of a conversation

`ThreadIsTold` (`P!Spec => []P!PanelTellsTheThread`, in `ItemPageProofs`) is about any threads, any
window and any number of requests. `PanelInv` says of the API that the threads are in the order of
their times, before now, and that at most one conversation is open (`ServerOK`), and that they only
grow (`Grows`): so what was once an answer stays a piece of its thread. Of the panel, unless `crossed`,
it says that what it shows is of the selected conversation and in order, that one request at most
that changes the messages shown is in flight, and that each such request fits (`Fits`): an older
window was asked for before the oldest message that is still shown, and a message that
was sent is later than all of them. That
the selected conversation is what the answer was asked for is not in the code, which puts an answer
into whatever is shown: it follows from there being one such request. `PieceOfThread` says what a
window cut out of a thread keeps. `PanelConstants` says of the threads at the start what the API keeps
of them: the unique index `uq_conversations_open_order_item` and the order by time.

### The bell

`BellTypeCorrect` (in `ItemPageProofs`) has the one invariant `BellInv`: what is asked, answered and
shown names notifications that were sent (`Asked`, `Notices`), which a new notification does not
disturb (`MoreAreSent`). It follows that a click on one marks one that exists, and that the badge,
which the browser lowers by itself, does not pass zero. That the badge becomes right is liveness, and
stays with TLC.

### The purchase and the forms of a seller

`OfferPagesProofs` is about any offers, prices, numbers of other users' changes, gestures and requests
in flight. `IInv` is made of `ApiOK` (rows of their types, `live` among the offers), `ViewOK` (what a
page shows is of its route), `RequestsOK` (what each request was made from), `LoadsOK` (a page without
overlap waits for its only load), `PanelOK` and `EditorOK` (a form was filled from the data shown, and
which fields the user has touched since).

* `PaidAsShown`: a purchase carries the price of the offer that was selected when it was clicked
  (`HandleBuyIInv`), the selected offer is one of those shown (`PanelOK`), and the API refuses another
  price (`CheckoutFinds`).
* `OverwritesAreStale`: a field of the form that was not touched is the one loaded, so if it differs
  from the row, the row has moved since. This needs that a price, read from the field and written to
  the request, is the price the row had: the hypothesis of `OfferConstants` that `ApiPrice` yields
  only prices that it leaves as they are, or none, is what `toApiPrice` in `price.ts` does.
* `FailuresAreTold` is a count: the products without an offer are those `added` minus those
  `published`, minus those carried by a second call that is still under way; `LostAreTold` says there
  are never more of these than failures told. The count goes up only where a call fails
  (`ErrorTold`), and no more products are carried than there are calls to carry them
  (`CarriedCount`).

`OfferConstants` says besides that the offers are finitely many and that products are numbered, as in
the catalog.

### The frontend as a whole

The run `frontend` does not check the specifications of the pages but `FrontendSpec`, where they are
scenes beside each other. `FrontendProofs` carries the theorems over, so that what is proved is what
the run checks: every state invariant of `MCFrontend`, for every value of its constants that
`FrontendAssumption` allows. A scene stays (`SceneStays`), and a step in it is a step of its page
(`ItemSteps`, `ListSteps`, `OfferSteps`, `CatalogSteps`, `PanelSteps`, `BellSteps`). The session, the
lists and the catalog are proved about in this module itself; the others are instances twice, once as
a scene (`I`, `P`, `B`, `F`) and once with what is proved about them (`IP`, `IP!P`, `IP!B`, `FP`), and
take the same steps (`ItemNext`, `PanelNext`, `BellNext`, `OfferNext`), operator by operator, as they
are the same definitions. `SceneInv` puts the invariants of the pages together.

## 6. Findings

Runs that end in a violation, with the text they contradict in `PROJECT.json`:

* `orders_price`: the seller raises the price after the cart was validated and before its stock is
  taken; the order is placed at the old price (`checkout.py:76`), although `docs/p2_order.md:112`
  says it is not.
* `conversations_twice`: two listings close one inactive conversation, with two system messages
  (`communication/routes.py:129`).
* `panel_history`: "Carregar mais antigas" asks for the 24 hours before the oldest message shown; if
  nobody wrote in those, it brings nothing and asks for the same hours again
  (`ConversationPanel.tsx:239`), so what was said before a pause of a day cannot be reached, and the
  panel of a conversation whose last message is older than a day is empty.

* `priority_overlap`: one run of the job begins before an age boundary and another one after it. The
  newer run commits `high`; the older one finds that row stale for its own moment and plans `medium`;
  after a message the newer one reads `high` again, leaves that column out of its UPDATE and plans a
  new stamp; then both commit. The row says `medium` under the newest stamp and no run selects it
  (`reconcile.py:104`, `FreshIsCurrent`) until its next age bucket, message or change of status,
  although `docs/P6.1_Foundation_Worker.md:401-415` and 452-459 call overlapping runs safe.

Behaviour the models contain, seen while modelling and not kept as runs of its own. In the backend:

* *Announced twice*: two runs of the job that overlap read the same stale row, and both write and
  announce its change (`reconcile.py:99`).
* *A ticker that stops*: `pending_reconcile` is reset only by a RECONCILE message that is received
  (`worker.py:80`). A read timeout counts as an empty queue (`queue.py:94`); if each delivery of the
  message is lost that way, it goes to the dead letters and the worker never publishes again. With
  `MCJobs`, one worker, three slots, three deliveries, no failure and three lost responses, TLC shows
  it as a violation of `ReconcilesForever`.
* *Status stamp before commit* (`orders/routes.py:53`). A refresh or a page that reads the item
  between the stamp and the commit of a status change leaves the old priority with a later stamp;
  it stays until the age bucket changes. The model has the two steps; its clock counts hours, so it
  cannot tell this from a status change in the very hour of a calculation, which microseconds
  separate in the code, and no run checks it.
* *False event*: a page read before Ops marks a conversation critical and committed after it
  announces a change of an effective priority that stays critical (`reconcile.py:104`).
* *Closed rows*: the job may write a conversation closed after its page was read
  (`reconcile.py:57`).
* *Rollback of the lazy closure*: a message to an inactive conversation is answered 409 "closed",
  and the exception rolls the closure back (`lifecycle.py:164`, `database.py:35`), while
  `docs/CURRENT_STATE.md:405` describes it as persisted.
* *Deadlock*: a cancellation that restocks and the deletion of the offer it restocks, or two carts in
  opposite orders, can wait for each other; PostgreSQL aborts one, which the client sees as an
  error 500. No data is harmed (`orders`).

In the frontend:

* *Last answer wins* (`useAsync.ts:13`): when two requests of a page overlap, the one that arrives
  last is shown, under the URL of the other. The properties about lists, dialogs and purchases
  exclude exactly this situation (`overlapped`).
* *Two `set` calls in one event* (`orderNumber.ts:81`): both start from the URL of the last render
  and the second wins. A UUID typed or pasted in the order field is lost, though
  `docs/FRONTEND_F8_SPEC.md:439` lists the search by exact UUID, and the chip of a number cannot be
  removed.
* *Back does not undo a filter*: every change is made with `{ replace: true }`, while the comment of
  `useUrlFilters.ts:15-17` says that it does.
* *Page of another filter* (`ProductListPage.tsx:75`): a page turned within the 300 ms of the delay,
  or a reload on page 2 with fewer products, shows an empty grid under a count (`astray`).
* *A 401 ends whatever session there is* (`client.ts:66`): the refusal of an old token drops the new
  one; a wrong password in one tab drops the token of the others; a 401 between the two calls of a
  login leaves a session on the screen without a token until its next request is refused; a check at
  the start that fails for any reason drops the token. The routes do not check roles.
* *Stale forms* (`SellerOfferDetailPage.tsx:100`): a save writes the stock as it was when the form
  was filled, over units sold since. Saving one of the two forms of the editor discards edits of
  the other; "Excluir produto" is always refused there, since the offer being edited exists.
* *A product without an offer* (`SellerOfferNewPage.tsx:61`): when the second call fails, the product
  stays, and a second try creates one more. `OverwritesOnlyWhenStale` includes that the user was
  told (`OrphansAreTold`).
* *Dialogs*: Escape and the backdrop close a dialog while its request is in flight; moving from one
  item of an order to another keeps the dialog and the panel of the first (`strayed`).
* *Purchase*: an error of a purchase in flight may appear under another offer, and a late success
  leaves the page the user has gone on to.
* *Drafts*: the answer to a message or a comment empties the field, with what was typed meanwhile.
* *Notifications twice*: the pages of the list are appended by number, so a notification that came
  since the first page shows an older one twice (`NotificationBell.tsx:82`).

## 7. Limits

*Only model-checked*: liveness, since the provers cannot reason about fairness and ENABLED, which
leaves `BadgeConverges` of the frontend and the liveness properties of the backend to TLC. Every
state invariant that a passing run checks is a theorem too. `EventsMatchRow` and `ChangesAnnounced`
are about the commits of Ops; for those of the job they are false, as `FreshIsCurrent` is of the rows
(section 6).

*External*: PostgreSQL's row locks, waits and deadlock detector, SQS's visibility timeout and
redrive, as far as the code relies on them.

*Abstracted*: authentication in the backend's models (a request's role is taken for granted), texts,
ids, currency digits, microseconds. Time passes in hours. In the frontend: the text of drafts and
errors, toasts, focus, layout, the wording of what is shown.

*Partly modelled*: the products' endpoints, comments and listings of Ops, and authentication, as far
as the pages that call them can tell; `OrderDetailPage` and `OpsOrderItemDetailPage`, which load one
thing and have no operation of their own, are left out.

*Not modelled yet*: see the plan (6, 7). *Not modelled at all*: wording, formatting, health, logging,
migrations, seeds, presentation, and queries that only read and promise no snapshot (dashboard).
