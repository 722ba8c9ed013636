# AgriNexis in TLA+

AgriNexis is a market for farm produce. Farmers list a harvest, buyers and FPOs
post demands and make offers, and a farmer's acceptance of an offer turns it
into an order that draws the listing down and fills the demand. This directory
holds TLA+ models of the parts of the program where order, failure and
concurrency matter, the TLC runs that check them, and proofs.

Every definition is translated from the code at the lines `PROJECT.json` names
under "map". File references below are relative to the repository's root;
`016:87` is line 87 of the migration numbered 016, routes.py is
`services/api/app/routes.py`, and the pages of the two web applications are
named by their directories under `src/app`.

## 1. The system

| part | state | operations | talks to |
|---|---|---|---|
| PostgreSQL schema (`database/migrations`) | listings, demands, offers, quotes, recommendations, orders, history, payments, ratings, audit, idempotency records, mandis, observations and price history | functions `accept_offer` (016), `transition_payment` (017), `reset_sih_demo` (018); triggers on orders, payments, ratings (012, 017); RLS (014) | called by the API and the engines; clients insert ratings directly |
| API (`services/api/app`) | a connection pool, a JWKS cache | one handler per endpoint, each one or two database calls | PostgreSQL, the engines (in process), the token issuer |
| Market engine (`services/market-engine`) | mandis, observations and history, in tables that several processes share | observe: fetch, normalise, store record by record, deliver live, cached or demo data | a provider, PostgreSQL |
| Buyer web (`apps/buyer-web`) | demands, offers, orders and grievances in the memory of each tab, and in localStorage | post, close, withdraw, move an order, complain, reset the demo, switch demo and role | nothing: the workspace runs on its own lists |
| Admin web (`apps/admin-web`) | the context (demo or live, server, token) in memory and localStorage; the rows, spinner and dialog of the mounted page | load, look up, move orders and payments, publish and cancel listings, change the context | the API, or its own fixtures |
| Recommendations (`orchestration.py`) | rows of `logistics_quotes` and `recommendations` | read listing and offers, quote each, run the matching, upsert each option | matching, logistics and prediction engines |
| Transactions package (`services/transactions`) | behind repository ports; an in-memory idempotency store | order and payment workflows, idempotency guard | used by its tests only: the API calls the SQL functions |
| Matching, prediction, logistics and quality engines | none | pure calculations | called by the API |
| Farmer app | screens; a local demo store | calls of the API; retries; offline behaviour | the API |

There is no queue and no background job. Concurrency is of three kinds:

* **Requests on the database.** Each is one or more PostgreSQL transactions
  under READ COMMITTED. `accept_offer` is fourteen statements: three take row
  locks, one waits for another transaction's uncommitted index entry, and the
  time it compares expiries with is the time at which the transaction started,
  before any wait. Other endpoints are single UPDATEs that may fall between any
  two of those statements, or a read in one call and an UPDATE in the next. The
  market engine commits every statement by itself. A call is cut off by a 15 s
  command timeout or a lost connection at any statement, and an answer may be
  lost after the commit; clients then retry, with or without the same key. The
  demo's reset deletes and restores rows that acceptances are reading, and
  locks them in the opposite order.
* **Tasks of one process.** All requests of an API process share one cache of
  keys, its lock, and one event loop.
* **A browser.** Loads and commands of a page are in flight while the person
  changes the context or the page; nothing aborts them or orders their answers.
  Tabs share one localStorage, read it once, and save whole lists.

"hazards" in `PROJECT.json` lists what can go wrong, each at its line, with the
properties that would notice. Hazards without a property name the module that
is planned for them.

### What makes each part correct

* **Acceptance.** One order per accepted offer; nothing sold twice and no
  quantity lost; the order is what the farmer acknowledged, out of the versions
  the farmer had seen and while everything it rests on was valid; a retry gets
  the same order; a failed call leaves nothing; every call ends.
* **Orders.** The history is the whole and unbroken story of the status, in
  the order of its times; whoever is told "ok" has moved the order; a rating is
  only ever of a completed order.
* **Payments.** Every transition is made once and audited once; the trail is
  unbroken; the time of payment is never lost.
* **Reset.** It ends; it leaves no half of an order; and it leaves none of the
  demo's orders behind (it does not keep this last promise, see section 4).
* **Tokens.** A valid token is not refused because of a rotation; a withdrawn
  key does not live on; every verification ends.
* **Market data.** A record is stored once, whoever sends it and however often;
  LIVE stands for a batch that is stored whole; a fallback takes the best there
  is; nothing is shown as fresher or more genuine than it is.
* **Buyer's workspace.** A tab that is up to date shows what a reload would;
  what is finished stays finished; an offer asks for a positive part of what is
  left at a positive price, and a demand is for a range that is in order; the
  pages, which each count for themselves, tell one story.
* **Admin's console.** What is on the screen comes from a context the page has
  been in, and from the present one unless a load failed or was overtaken;
  a live server gets commands about rows of its own; no page stays on its
  spinner; an error in live mode never shows fixtures (it can, see section 4).
* **Recommendations, transactions package, farmer's app** (planned): a run is
  stored as a whole; events and states agree; a retry is recognised as one.

## 2. The modules

| module | what it models | code |
|---|---|---|
| `AtomicSale` | what an acceptance promises: an open offer is sold in one step, or closed | docs/DATABASE.md, docs/ARCHITECTURE.md |
| `OfferAcceptance` | concurrent calls of `accept_offer` beside the commands on offers, listings and demands | 016, routes.py:178-497, database.py |
| `StatusLog` | what the record of a lifecycle promises: moves along edges, each logged with the move | - |
| `OrderLifecycle` | the transition endpoint, the order triggers, ratings | routes.py:545-583, 012, 014:115-122 |
| `PaymentTransitions` | the payment endpoint, the trusted function, its trigger and audit | routes.py:593-608, 017 |
| `DemoReset` | the reset of the demo, running beside `OfferAcceptance`, which it extends | 018, seeds/001 |
| `JwksVerifier` | the cache of the identity provider's keys, shared by concurrent requests | auth.py:21-91 |
| `MarketIngest` | concurrent calls of `observe_subject` on one database | market_engine, 004, 019 |
| `BuyerWorkspace` | the buyer's lists in several tabs and in localStorage, the rules of forms, buttons and dialogs | buyer-web: DemoContext.tsx and the pages |
| `BuyerPages` | what the buyer's pages count and show of those lists; extends `BuyerWorkspace` | buyer-web: pages and components |
| `BuyerSeeds` | the rows the workspace starts with | buyer-web: mockData.ts |
| `AdminPages` | a table of the console's pages: what each loads, in which stages, and what it does with errors | admin-web: pages, endpoints.ts |
| `AdminConsole` | one tab of the console: its context, its mounted page and what is in flight; extends `AdminPages` | admin-web: demoContext.tsx, client.ts and the pages |
| `MC...` | instances for TLC | |
| `Totals` | no code: what a sum over a finite set is worth, for the proofs about quantities and money | |
| `OfferAcceptance_proofs`, `OrderLifecycle_proofs`, `PaymentTransitions_proofs`, `JwksVerifier_proofs`, `MarketIngest_proofs`, `BuyerWorkspace_proofs`, `AdminConsole_proofs` | theorems and proofs; the first is about `DemoReset` too, the sixth about `BuyerPages` too | |

### OfferAcceptance

`offers`, `listings`, `demands`, `orders` and `receipts` are the committed
tables, cut down to the columns that any check or write looks at; columns that
never change are constants (`Terms`, `Owner`, `Stock`, `Wanted`, `Quote`,
`Rec`). `marker`, `offerLock`, `listingLock` and `demandLock` are what other
sessions can notice of a transaction that has not committed: its idempotency
marker and its row locks. `pc`, `cmd`, `began` and `reply` belong to a call.

A call goes through the statements of the function in order, one action each:
`Lookup` (016:59-73), `Mark` (75-78), `Reread` (79-85), `LockOffer` (87-90),
`LockListing` (92-97), `CheckTerms` (99-131), `LockDemand` (133-147), `Settle`
(149-183). Since its writes are visible to nobody before the commit, they are
all applied in `Settle`, in the same step as the commit. Any statement can
refuse, which rolls back, and `Abort` can end the call before its commit at any
place. A lost answer needs no action: a call never learns whether its client
listens, and the client's retry is another call with the same command.

`CreateOffer`, `WithdrawOffer`, `RejectOffer`, `PublishListing`,
`CancelListing`, `PublishDemand`, `CancelDemand` are the endpoints beside it.
Each is one statement, which waits for the row lock and then acts on the row
that is there.

Data that only has to match is abstracted: a quote is a listing, a demand, an
expiry and a total; a recommendation is the offers and quotes it agrees with in
all the fields that 016:110-131 compares; a demand `fits` the offers whose
buyer, crop and variety agree; the SHA-256 fingerprint is the tuple it is made
from, which takes the hash to be injective.

### OrderLifecycle

`Ask`, `ReadOrder`, `StartUpdate`, `ApplyUpdate` are the four moments of a
request that matter: its arrival, its first database call, the start of the
second (which fixes `now()` and the snapshot) and the moment that the UPDATE
has the row. The trigger's effects (`Move`) are part of `ApplyUpdate`. Since
the endpoint turns every exception into `ORDER_TRANSITION_INVALID` (routes.py:579),
a committed move may be answered "refused". A rating is checked in one step and
appears in a later one: neither its policy nor its trigger locks the order.

### PaymentTransitions

A request comes `via` the endpoint or from a service with the service role. The
endpoint reads the mode in one call and moves the payment in another. The
function locks the row (`Lock`), compares the status, and updates and audits
(`Update`). The endpoint's SQL expands a composite result, so its statement
runs the function more than once: this is the second disjunct of `Update` and
the finding below. Nothing in the repository creates payments but the seed, so
`CreatePayment` is marked external.

### DemoReset

The reset is a transaction of its own with the places `note`, `delete` and
`restore`. `Restore` locks one row after another in the order of the UPDATEs
(018:48-67), and the values, which do not depend on what is there, appear at
`CommitReset`. A reset and a call that wait for each other are found by
PostgreSQL's detector, and `BreakDeadlock` ends either. Since the reset puts
versions back to 1, "final" is no longer final here and the promises of
`OfferAcceptance` are replaced by weaker ones that must survive the reset.

018:44-45 deletes every acceptance receipt of the demo farmer, also of orders
outside the demo: their quantity and order remain, and only their keys are
forgotten. The model has this; the properties do not object, because an
acceptance that is repeated after it finds its offer ACCEPTED.

### JwksVerifier

One process of the API: its requests are tasks of one event loop, so a step is
what a task does between two awaits. `Begin` is a call of `verify` up to its
first await or its end, `Wake` the next in line getting the lock (asyncio's lock
is first come, first served: a task that gives it back and wants it again stands
behind those that wait), `Answer` the moment at which the provider looks up its
keys, `Store` the arrival of what it found. `Store` and `Wake` go on into
`verify` (`LeaveRefresh`), whose second refresh may begin in the same step
(`TryAgain`). `knew` is a history variable for the property. Keys are published
once and withdrawn once, as ids are not reused. httpx bounds each phase of an
exchange by 5 s (auth.py:43); `FetchTime` stands for what that makes of the
whole. Signature and claims are taken as good, since their check keeps nothing.

### MarketIngest

A call of `observe_subject` is at the next thing it awaits: `fetch`, then for
each record of the answer `resolve`, `upsert` (a mandi that was not found),
`insert`, `existing` (the row that was in the way) and `history`, then perhaps
`fallback` and `demo`. Every statement commits by itself, so what a call has
stored stays when `Fail` ends it, at any place: by a refused credential, an
invalid answer, a lost connection or the end of the process. What follows a
statement up to the next await is part of its action: `StoreHistory` goes on
to the next record, delivers LIVE or turns to the fallback.

The catalogue of crops and varieties is constant, which makes the three
statements that read it one. A mandi's id is its identity at the provider and
the call that created it; `mode` stands for source_name too, since there is one
provider beside the demo; prices are whole paise, and stand for everything that
the checksum covers and the key does not. Rows of equal time are taken in any
order, since their ids are random. `known`, what was stored when the call
began, is a history variable. The time `asOf` is the caller's: the engine has
no clock. Nothing is assumed about what the provider sends; in particular LIVE
is of the batch, and nothing in the code compares the batch with the subject.

### BuyerWorkspace, BuyerPages, BuyerSeeds

One person with several tabs. Each tab has its own lists; an edit computes the
new list from the tab's, shows it, and saves it whole (`saveToStorage`), unless
the storage refuses, which is swallowed. A tab reads the storage when it is
loaded (`LoadTab`) and never again. `current` is a history variable: the tabs
that have loaded or saved what is stored now. The context's operations have no
guards of their own, so the guards of the actions are those of the buttons,
forms and dialogs: `BrowserAccepts` is what the browser checks (min, max and
step), `OfferError` and `DemandError` what the handlers check, `WithdrawButton`
and `CloseButton` when a button is there, `page` the dialog's target, which
survives the status it was picked for. New rows are numbered by the time of
their creation, since their ids are made from Date.now(). The rows of the
repository (`BuyerSeeds`) have the same columns, in kilograms (grams for a
demand) and paise.

The form of a demand checks the numbers as they were typed and saves them rounded
(demands/new/page.tsx:41-60), so `DemandForms` are in tenths of a gram and of a
paisa, and `toFixed` rounds them. A reset sets the lists and then removes three
keys of the storage one by one, outside of any try (DemoContext.tsx:195-204):
`Removals` are the keys that it comes to remove. A tab that cannot read the
storage (DemoContext.tsx:71) shows the seed, as one does that finds nothing
saved; such a tab is never current, and is left out of `LoadTab`.

`BuyerPages` has an operator for what each page computes of the lists: its counts,
and which buttons, badges, links and steps it shows. The marketplace is what
passes the filter by crop that a person picks; the link from a demand names a crop
in its address, which the page does not read.

### AdminPages, AdminConsole

`Pages` gives each of the eighteen pages its plan of loading: stages of slots
that are fetched together, whether an error stops the load or empties a slot,
whether a stage is skipped when there is nothing to ask about, and whether the
live API has a route for it at all. `frail` names the slots that a page cannot
render when an answer carries no data for them.

`AdminConsole` runs them. `flights` is a bag, since a person can start the same
load twice: loads by the page's effect, reloads after a command, lookups and
commands. A load keeps the context it began with and writes its rows whenever it
is answered; that a command's reload uses the captured context, too, is
`CommandSucceeds`. Flights of a page that is left end without an effect on the
tab, and are forgotten. After a hard reload the page loads with the defaults of
the build and again with the saved context (`HardReload`). What needs no network
is answered before anything else happens (`Settled`).

A command is about the order of the page, the payment that the dialog keeps
(`picked`), or one of the listings (`Lots`), each of which has buttons of its own
(listings/page.tsx:149-169): a second listing's command may be sent while the
first is under way, and whichever ends first enables all buttons again (`busy`).
What the server does with a command is in the modules of orders, payments and
offers; here it succeeds, and the page loads again, or fails. The demo's own
commands fail for rows that are not its fixtures (endpoints.ts:163, 176, 258, 307).

Where no API answers a fetch fails, or, as an empty URL leads to the console's own
pages, it may be answered 200 with a text that is no JSON: `apiRequest` then
returns an object without data and no error (client.ts:69-87). A page that touches
the missing rows throws as it renders, and since there is no error page nothing is
left of it (`BrokenPage`) until it is loaded anew; the others go on with empty
slots (`FetchesNothing`).

Of data the model keeps where it came from and whether there was any. `been` and
`spoilt` are history variables of the properties: the contexts since the page was
mounted, and whether a load failed, overlapped with another, or followed a command
sent in another context.

## 3. The runs

| run | instance | states | question |
|---|---|---|---|
| `race` | 3 calls with 3 commands, 2 offers of 1 and 2 units on one listing of 3 and one demand of 3, keys shared between offers, fresh and stale versions, clock 0..1, an offer and a quote that expire at 1 and others that do not | 570,821 | do interleaved acceptances sell atomically, once, what was seen, and what was acknowledged and still valid? |
| `duplicate` | 2 calls, two quotes, fairness | - | are duplicates in progress refused, as documented? (violated) |
| `order_moves` | 1 order, 2 requests at a time, 9 different wishes, clock 0..1, ratings | 87,115 | does the history tell the truth, and the answer too? |
| `payment_moves` | 1 demo and 1 live payment, 2 requests at a time, every edge and a wrong one, clock 0..1 | 43,336 | is each transition made and audited once? |
| `payment_endpoint` | the same | - | does the endpoint's transition succeed where the function's does? (violated) |
| `reset` | the seed's listing with 2 offers for 2 demands, 2 calls, resets without number, fairness | 170,500 | do orders, offers and receipts still agree, and do resets and calls end, though they deadlock? |
| `reset_survivor` | the same | - | does the reset leave no demo order? (violated) |
| `rotation` | 2 tokens of a new key and 1 of the old, cache and exchange of 1 unit each, clock 0..2, fairness | 202,513 | does a rotation of keys refuse nobody, and end? |
| `ingest` | 2 calls, 2 services, 5 batches, ages 1 and 2, two times to ask for | 361,513 | are records stored once and whole, and delivered as what they are? |
| `buyer` | 2 tabs, the repository's seed with two demands and two offers, forms on both sides of each rule, a storage that may refuse, 2 changes | 258,822 | do tabs, storage and pages agree, and are rows kept and sound? |
| `admin` | all pages, 2 servers, an input that can be cleared, a token, 2 listings, 5 steps by people, live by default, fairness | 116,197 | is what is shown, and what commands are about, from where it should be, and do loads end? |
| `admin_fallback` | the same, demo by default, 1 step | - | does live mode show no fixtures? (violated) |

Bounds. Two offers on one listing and one demand are the least that can
compete for both rows; quantities of 1 and 2 out of 3 reach "partly" and
"exactly". Three calls give two competitors and a retry. Versions are bounded
because each row has finitely many status changes. With `MaxTime` 1 an offer
and a quote expire between the starts of two calls, and while calls wait.
Handlers of orders and payments are
reused, so their requests are unlimited in number and two overlap at any time;
a third could only stand where one of the two stands. In `rotation` three
calls are the least at which one holds the lock, one waits for the first time
and one for the second; the clock reaches the end of the cache's life and of the
longest exchange after the rotation.

In `ingest` two calls are two competitors, or one that fails and its
successor, or a batch and its repetition. The records are in each unit; two have
the same key and different contents; one cannot be converted, one names another
crop's variety, one is from the future; the times asked for are such that the
ages are within, at and beyond both limits, and the demo's row is older than any
of them. In `buyer` two changes are an edit in each tab, or two in one, or an
edit and a switch of the mode; loads, resets and picks in the dialog are not
counted. `Addresses` holds the order that is delivered, whose dialog starts with a
status that is behind it, and an order that does not exist, whose page shows the
first one, which can still be cancelled. One demand that is typed is for less than
half a gram at less than half a paisa. In `admin` five steps by people, beside any
number of answers, failures and picks, are two changes of context, two commands
and a visit, or the settings, a hard reload, a switch and a command.

Symmetry over calls, handlers and tabs is used in runs whose temporal properties
are of the form `[][A]_v` or refinements of safety; none of them is ordered or
named anywhere in the modules. Deadlock checking is off for the runs of
`OfferAcceptance`, `rotation`, `ingest` and the console, which do stop: their
calls have all ended, or a page is at rest and people have used up their steps.
In `reset`, `order_moves`, `payment_moves` and `buyer` it is on.

The type invariants of `OfferAcceptance`, `OrderLifecycle`,
`PaymentTransitions`, `JwksVerifier`, `BuyerWorkspace` and `MarketIngest` are
proved (section 5) and not run; that of `AdminConsole` says more than types and
is both.

Fairness. PostgreSQL goes on with a statement as soon as the lock it waits for
is free: weak fairness of a call's `Proceed`. A client is never obliged to
call, and no command or failure is fair. In `DemoReset` a call's fairness is
strong, because reset after reset can take the row lock that the call waits
for, and PostgreSQL queues the waiters of a row lock. The deadlock detector
runs after `deadlock_timeout`: weak fairness of `BreakDeadlock`. In
`JwksVerifier` the event loop runs tasks that can go on (`Wake`), and httpx ends
an exchange after its timeout (`Store` or `FetchFails`); the provider need not
answer. In `AdminConsole` whatever is asked is answered or fails, if only by a
timeout of the browser: weak fairness of `Answers` as a whole, which is enough,
since people have finitely many steps and each answer leaves less to be answered.

Each property of a passing run has a mutant in `PROJECT.json`: an operator of
the module marked "Broken", which in the place of the real one makes TLC find a
violation.

## 4. What the code does not keep

* **Duplicates in progress** (`duplicate`). docs/DATABASE.md:272-273 promises
  `IDEMPOTENCY_CONFLICT`. The marker of a call in progress is not visible to the
  lookup, and the INSERT at 016:75 waits for it. The duplicate is then answered
  with the first call's order, or goes on itself if that call failed. This is
  safe, and `RetryGetsTheOrder` holds; it is not what the document says.
* **No payment moves through the API** (`payment_endpoint`). routes.py:605
  selects `(internal.transition_payment(...)).*`, which PostgreSQL evaluates once
  per column. The second call finds the status the first one wrote, raises
  `PAYMENT_STATE_CONFLICT`, and everything is rolled back. `payment_moves`
  therefore speaks of services that call the function for one value. That it is
  so for every payment, status and request is proved (`EndpointMovesNothing`).
* **A demo order survives the reset** (`reset_survivor`). An acceptance that
  commits between 018:28 and the lock at 018:48 leaves its order, while its
  offer becomes PENDING again. `orders.accepted_offer_id` is unique, so the
  offer cannot be sold again until the next reset, which removes the order.
  `AcceptedHasOneOrder` and `ReceiptsNameOrders` say what does hold.
* **Live mode may show fixtures** (`admin_fallback`). The settings promise that
  live failures "never silently fall back to demo data" (settings/page.tsx:102-105).
  When the demo is switched off and the first live load fails, pages that only log
  the error (orders/page.tsx:33-47) go on showing the demo's rows under the live
  header. `RowsStemFromOwnContexts` and `CurrentUnlessOvertaken` say what holds.

Also noticed and without a run.

*Database and API.* The actor of a history row is always NULL for moves through
the API. EXPIRED statuses (002:8-10) are never set. A cancelled order does not
give its quantity back. transition_order takes no idempotency key, although
docs/API_CONTRACT.md:33 names it among the commands that accept one.

*Market engine.* engines.py:62-65 of the API imports
`market_engine.repositories.memory` and `market_engine.settings`, which do not
exist; nothing calls it. A variety is looked up by its name alone, so a name that
two crops share makes one crop's records, and their whole batches, fail. The
checksum covers observed_at as it was written, the dataset and the source's
version, which the key does not: the same instant in another offset, or the same
record in a new version, is a collision, and its batch fails every time. A
failure between an observation and its history leaves it without, until the
record is sent again. LIVE may be older than what is stored, and about another
subject. The warning of CACHED says "unavailable or bypassed" also when the
provider answered with old data. An observation from the future is FRESH, and as
the newest hides the others of its batch.

*Buyer's workspace.* Tabs overwrite each *Buyer's workspace.* Tabs overwrite each other's lists. A demand for less than half
a gram, or at less than half a paisa, passes the check "Target price must be
positive." (demands/new/page.tsx:46) and is saved as 0. The link from a demand to
its supply names a crop that the marketplace does not read. The reset of the demo
removes saved keys outside of any try (DemoContext.tsx:201-203): a storage that
fails leaves the tab with the seed and the storage with the old lists. A price field that
counts that
counts steps of 0.25 from 0.01 refuses whole rupees, the form's own default of
31.00 among them. The page of an unknown order shows the first one. The dialog's
target outlives its status: untouched, it submits IN_TRANSIT for an order that is
already there or beyond. Grievances are not saved. The card of a listing heads
the demo's facts "Authoritative".

*Console.* The options of the demo stay when a live listing list is empty. A
command's reload uses the context the command was sent in, although it may have
changed. The settings' inputs are initialised before the saved context is read,
so saving them untouched after a hard reload overwrites the token. A cleared URL
falls back to the default at the next reload only; until then requests go to the
console's own pages, some of which answer 200, and a page that is given no data
throws, with no error page to catch it (orders/page.tsx:49). While commands about
two listings are under way, the end of one enables the buttons of the other
(listings/page.tsx:50, 64). After a failed live load a fixture that is still shown
can be sent to the live server, by its id.

## 5. What is proved

Proofs are for all values of the constants that satisfy the named assumptions
(`ConstantTypes`, `NoneIsNoRow`; `DemoConstants`; `LifecycleConstants`;
`PaymentConstants`; `VerifierConstants`; `MarketConstants`; `BuyerConstants`,
`BuyerSeed`, `NoneIsNothing`; `ConsoleConstants`): the constants have their
types, and None is none of the rows, calls, crops or timelines.

**`OfferAcceptance_proofs`.** The inductive invariant `IInv` says

1. `TypeInv`: the types, and that a call which is running or done has a request;
2. `LocksHeld`: the place of a call tells exactly which marker and locks it holds;
3. `Checked`: what a call has checked under a lock still holds while it is past
   the check. The lock keeps everybody else from writing the row; this is what
   makes the check-then-write of 016 sound, and why the plain read of 016:99-131
   is sound too: those columns never change;
4. `OrdersSound`, `OneOrderPerOffer`, `ReceiptsSound`: every order belongs to a
   call that is done, is what that call asked for, and has its receipt;
5. `StatusTellsQuantity`, `NeverReserved`.

None of the properties is inductive by itself: that a second order does not
appear needs that the offer is still PENDING in `Settle`, which needs 3, which
needs 2. From `IInv` follow the invariants of the table below, the action
properties (`SellsWhatWasSeen`, `DecisionsAreFinal`, `RetryGetsTheOrder`) and the
refinement `ImplementsAtomicSale`: `Settle` maps to `Sell`, offer commands to
`Post` and `Close`, everything else stutters. `StepKinds` sorts the actions by
what they write, so that each proof goes through nine kinds of step instead of
twenty.

`QuantityConserved` is inductive once `IInv` is there and the orders are finitely
many (`QuantityInv`): a sale takes from the listing and adds to the demand what
its order adds to the two sums, since the order is a new one, and stays within the
demand's maximum, since the demand is still as it was checked (`Checked`). Nothing
else writes any of the three.

`CallsNeverDeadlock` is the half of `EveryCallEnds` that needs no fairness. Calls
wait for a marker or for one of three locks (`WaitsFor`), and take them in the
same order, so whoever is waited for is further on than whoever waits
(`HolderIsAhead`). Hence nobody waits in a ring (`NoRing`: of any calls, one waits
for none of the others), and while a call is under way there is one that nothing
hinders (`SomebodyGoesOn`). The reset locks in another order, so the theorem is
about acceptances alone; with the reset it needs `BreakDeadlock`.

Of the reset, `DemoInv` says that every order belongs to a call that is done
(`OrdersOfEnded`), that the reset has noted orders that exist (`DoomedExist`), and
that once it has looked for receipts it has found all of those orders
(`ReceiptsFound`). The last one is the point, as sales go on meanwhile: a sale's
receipt names its own order, which is new and so none of those noted. The
invariant needs no locks: the constraints of the tables (`ConstraintsHold`) are
what keeps a survivor's offer from a second order.

**`OrderLifecycle_proofs`.** `IInv` adds to the properties what a request knows
between its two database calls (`Read`: the order exists and is at least at the
version that was read) and about time (`Timely`: an update that has started is
no older than the rows up to the version it expects). The second one is the
reason why changed_at is in order although it is taken before the wait for the
row. `OkMeansMoved` and the refinement of `StatusLog` follow.

**`PaymentTransitions_proofs`.** A payment's lock is held exactly by the request
that is about to update it (`LocksHeld`), and that request has found the status it
expects, which the lock keeps as it is (`Checked`): so the trail stays unbroken
(`AuditTells`). No edge leads to where it starts (`RepeatableByService`), so the
second evaluation of the endpoint's statement finds another status than it
expects, whatever was asked for: `EndpointMovesNothing`. Payments only ever move upwards in `Rank`, so a trail climbs
(`TrailsClimb`), and no row of it repeats. With that, a second request for an edge
that was already taken can never be told "ok" (`OkOnce`): the status it expects
is behind.

**`JwksVerifier_proofs`.** Everything rests on `Lock`: whoever awaits an answer
has the lock, so the cache stays as it is meanwhile. An answer therefore knows
all published keys of the cache it will replace (`Complete`), which gives
`NoKeyIsForgotten`. A call that stands in line for its second refresh has marked
the cache stale, at a moment when nobody was fetching; whatever is stored later
was asked for later, and knows its key (`SecondTime`): hence
`RotationRefusesNobody`. `Ages` bounds how old answers and cached keys are. All
steps that end or begin a refresh are brought into one form first (`Serves`).

**`MarketIngest_proofs`.** The tables only grow, and their keys keep them free
of duplicates (`TablesInv`): so a record that is `Kept` stays so, and what a call
has stored (`Behind`), has in hand (`InHand`), seen and passed over (`Falling`,
`Best`, `Honest`) stays true of it while others go on (`CallStays`). The point is
a new observation of another call, which could be one that a call has just passed
over: it is not, because the call's own batch is stored whole by then and records
are stored once (`NothingNewMatters`). No set need be finite: if a newest row is
stale, all rows are.

**`BuyerWorkspace_proofs`.** `Typed` is the type invariant in parts, one per list.
`CurrentTabsAgree` is inductive with it: a tab enters `current` only with what it
loads or saves, and whoever writes a key puts everybody else out. Soundness of
posted rows needs the same of the storage (`PostedInv`), since a load brings it
back. `FinishedRowsStay` follows from the types and the guards. `PagesAgree` is
about operators more than steps: from `Typed` alone it is shown that each page's
count is the size of the same set (`CountsAgree`), that what is procured and what
is cancelled add up (`MoneyAddsUp`), and that badges, buttons, links and timelines
follow from the status (`RowsAgree`). The steps are needed for one thing, that no
order's page is open outside of the demo (`PagesInDemo`).

**`AdminConsole_proofs`.** `ContextTyped` gives `ReloadRestores`. `ScreenInv` says
that every flight of the mounted page began in a context the page has been in:
`RowsStemFromOwnContexts` follows. `SpinnerInv` counts the bag: a turning spinner
has a load in flight, disabled buttons have a command or its reload about the row
they belong to, and off the page of the listings, whose buttons are a listing's
own, at most one flight is a command or its reload (`Solo`). `FreshInv` says what `CurrentUnlessOvertaken` needs
while a load is under way: as long as nothing is spoilt there is at most one load,
it began in the present context (`Alone`), and every slot that loads fill comes
from this context or is still to be written by that load (`Expected`). When the
load has ended nothing is left to be written. Each stage of a page hands over to
the rest of its plan what it does not write itself (`RestOfPlan`); this goes by the
table of pages, none of which has more than three stages (`PagePlans`).
`CommandsKeepToTheirServer` adds to `FreshInv` what a dialog keeps (`KeepInv`): a
payment that was picked when nothing was spoilt is of the present server, or the
demo's while in the demo; when the context changes, either the dialog is not open
or the demo is entered, where commands reach no server.

**`Totals`.** A sum of the model is a `MapThenSumSet`, which recurs over a set in an
order nobody knows. The library's induction theorems take a predicate as a
parameter; here the induction is over a set of subsets instead
(`SubsetInduction`), and rests on the well-foundedness of the finite subsets of a
set. `TotalWith` and `TotalOfParts` are what the proofs above use.

| theorem | property |
|---|---|
| `TypeCorrect`, `LifecycleTypes`, `PaymentTypes`, `VerifierTypes`, `BuyerTypes`, `MarketTypes` | the type invariants |
| `OneOrderPerAcceptedOffer` | `AcceptedIffOneOrder` |
| `ReceiptsLeadToOrders` | `ReceiptsMatchOrders` |
| `StatusesTellQuantities` | `StatusTellsQuantity` |
| `OrdersAreAcknowledged` | `OrderAsAcknowledged` |
| `SalesAreOfWhatWasSeen` | `SellsWhatWasSeen` |
| `DecisionsStand` | `DecisionsAreFinal` |
| `RetriesGetTheOrder` | `RetryGetsTheOrder` |
| `CallsNeverDeadlock` | - (the safe half of `EveryCallEnds`) |
| `QuantitiesAreConserved` | `QuantityConserved` |
| `TransactionsAreAtomicSales` | `ImplementsAtomicSale` |
| `DemoOffersHaveOneOrder`, `DemoReceiptsNameOrders` | `AcceptedHasOneOrder`, `ReceiptsNameOrders` |
| `HistoryIsTheStory`, `TimesAreInOrder` | `HistoryTellsStatus`, `HistoryInTimeOrder` |
| `AnswersAreTrue` | `OkMeansMoved` |
| `RatingsAreOfCompletedOrders` | `RatedOrdersAreCompleted` |
| `LifecycleKeepsTheLog`, `PaymentsKeepTheLog` | `ImplementsStatusLog` |
| `TrailsTellStatuses` | `AuditTellsStatus` |
| `TransitionsAreAppliedOnce` | `AppliedOnce` |
| `PaidTimesStand` | `PaidTimeStands` |
| `EndpointMovesNothing` | - |
| `RotationIsHarmless` | `RotationRefusesNobody` |
| `CacheNeverGoesBack` | `NoKeyIsForgotten` |
| `WithdrawnKeysAreShortLived` | `WithdrawnKeysExpire` |
| `RecordsOnce` | `RecordsAreStoredOnce` |
| `BatchIsWhole` | `WholeBatchBehindLive` |
| `FallbackIsBest` | `FallbackTakesTheBest` |
| `DeliveriesAreHonest` | `DeliveryIsHonest` |
| `CurrentAgree` | `CurrentTabsAgree` |
| `PostedSound` | `PostedRowsAreSound` |
| `FinishedStay` | `FinishedRowsStay` |
| `PagesTellOneStory` | `PagesAgree` |
| `AdminTypes` | `AdminTypeOK` |
| `ContextSurvives` | `ReloadRestores` |
| `RowsStem` | `RowsStemFromOwnContexts` |
| `CommandsKeep` | `CommandsKeepToTheirServer` |
| `CurrentWhenSettled` | `CurrentUnlessOvertaken` |
| `TotalWith`, `TotalOfParts` | - |

Every safety property of the passing runs is proved. Only model-checked is
liveness (`EveryCallEnds`, `EveryResetEnds`, `EveryVerificationEnds`,
`LoadingEnds`), since fairness and ENABLED are beyond the prover.
`EveryCallEnds` is checked in the demo's instance only, where resets may or may
not come.

## 6. What is not modelled

The matching, prediction, logistics and quality engines compute and keep
nothing. The market engine's queries (comparison, price history) and the adapter
that shapes its answers read only. The persistence of recommendations, the
transactions package and the farmer's app do keep state and are next
(section 7). Quality images, private locations, notifications, grievances and
profiles are single statements that nothing else depends on. The size of the
connection pool, readiness checks and deployment scripts are left out: they add
waiting, but no step to the database. Roles and ownership appear where a check
can race with something (`Owner`, `Parties`); they are constant columns
otherwise. Audit rows of acceptances and request ids are never read by the
program.

Of the buyer's application, the information pages (FPO, intelligence, logistics)
show constants, and no page calls the API client. Of the console, the
walkthrough, the comparison page and the quality page show constants too, and
the decimal and unit helpers are arithmetic without state.

## 7. Plan

Done: acceptance with its abstract specification, orders, payments, the
verifier, market data, the reset, the buyer's workspace and the console, each with
proofs. Next, in this order:

1. `DraftEditing`: patch, publish, cancel and acceptance on listings and demands;
   the edit reads the status and updates by version alone. Question: is an edit
   ever applied to anything but a draft, and is the quantity always the stock?
2. `TransactionsPackage`: the workflows over repository and event log, which are
   written one after the other, against `StatusLog`; the idempotency guard, whose
   key stays IN_PROGRESS after a failure.
3. `RecommendationRuns`: a run's separate transactions, concurrent runs and the
   partial upsert; with it the pure operators of matching and money, against
   reference definitions over bounded inputs.
4. `FarmerClient` composed with `OfferAcceptance`: new keys on retries, timeouts
   and demo-mode orders.
5. Proofs for 1 to 3.
