----------------------------- MODULE AdminPages -----------------------------
(***************************************************************************)
(* The pages of the administrators' console, src/apps/admin-web, as a      *)
(* table: what a page's effect fetches, in which stages, what it does with *)
(* an error, and what a person can do with the rows it shows.              *)
(*                                                                         *)
(* A stage fetches the rows of some slots together.                        *)
(*   onError  "stop": the load ends and the slots keep what they had;      *)
(*            "clear": a slot whose fetch failed is emptied                *)
(*   needs    the stage is skipped when this slot was answered empty       *)
(*   finds    it looks one row up, which may fail in the demo too          *)
(*   local    no route serves it yet: live mode answers "none" by itself   *)
(* A page's frail slots are those it cannot render when an answer carries no *)
(* data for them: it throws at once, or if the slot that is named has rows.  *)
(***************************************************************************)
EXTENDS Integers, Sequences

Fetch(slots) ==
  [slots |-> slots, onError |-> "stop", needs |-> "", finds |-> FALSE, local |-> FALSE]

Find(slot)   == [Fetch({slot}) EXCEPT !.finds = TRUE]
Local(slots) == [Fetch(slots) EXCEPT !.local = TRUE]

Clearing(stage) == [stage EXCEPT !.onError = "clear"]

\* A page that only loads and renders whatever it is given; the others have a
\* drawer for a row of one slot, a lookup by id, commands, or frail slots.
ReadOnly(load) ==
  [load |-> load, summary |-> {}, drawer |-> "", lookup |-> FALSE, command |-> FALSE,
   frail |-> <<>>]

\* The eight fetches are settled one by one; the counts are set at the end.
OverviewPage ==
  [ReadOnly(<<Clearing(Fetch({"listings", "orders"})),
              [Clearing(Fetch({"recommendations"})) EXCEPT !.needs = "listings"]>>)
     EXCEPT !.summary = {"stats"},
            !.frail = [orders |-> "", listings |-> "recommendations"]]

OrdersPage ==
  [ReadOnly(<<Fetch({"orders"})>>) EXCEPT !.frail = [orders |-> ""]]

TransactionsPage ==
  [ReadOnly(<<Fetch({"demands", "offers"})>>)
     EXCEPT !.frail = [demands |-> "", offers |-> ""]]

MarketsPage ==
  [ReadOnly(<<Fetch({"prices", "markets", "crops"})>>)
     EXCEPT !.frail = [prices |-> "", crops |-> ""]]

MarketHealthPage ==
  [ReadOnly(<<Fetch({"prices", "markets"})>>) EXCEPT !.frail = [prices |-> ""]]

AnalyticsPage ==
  [ReadOnly(<<Fetch({"listings", "orders", "demands", "prices", "users"})>>)
     EXCEPT !.frail = [listings |-> "", orders |-> "", prices |-> ""]]

LogisticsPage  == ReadOnly(<<Local({"quotes"})>>)
GrievancesPage == ReadOnly(<<Local({"grievances"})>>)
AuditPage      == ReadOnly(<<Local({"events"})>>)
SettingsPage   == ReadOnly(<<>>)

UsersPage  == [ReadOnly(<<Local({"users"})>>) EXCEPT !.drawer = "users", !.lookup = TRUE]
FPOsPage   == [ReadOnly(<<Local({"fpos"})>>) EXCEPT !.drawer = "fpos", !.lookup = TRUE]
BuyersPage == [ReadOnly(<<Local({"buyers"})>>) EXCEPT !.drawer = "buyers"]

ListingDetailPage ==
  [ReadOnly(<<Find("listing"), Clearing(Fetch({"recommendations"})),
              Clearing(Fetch({"prediction"}))>>)
     EXCEPT !.frail = [recommendations |-> "listing"]]

\* An error leaves the options of the listing that was shown before.
RecommendationsPage ==
  [ReadOnly(<<Fetch({"listings"}),
              [Fetch({"recommendations"}) EXCEPT !.needs = "listings"]>>)
     EXCEPT !.frail = [listings |-> ""]]

\* Each listing has buttons of its own, to publish it and to cancel it.
ListingsPage ==
  [ReadOnly(<<Fetch({"listings"})>>) EXCEPT !.command = TRUE, !.frail = [listings |-> ""]]

OrderDetailPage ==
  [ReadOnly(<<Find("order"), Fetch({"history", "payments"})>>)
     EXCEPT !.command = TRUE, !.frail = [payments |-> "order"]]

\* fetchAllPayments swallows every error: what it could not fetch is missing.
PaymentsPage == [ReadOnly(<<Clearing(Fetch({"payments"}))>>) EXCEPT !.command = TRUE]

\* What is left when a page throws while it renders: there is no error page.
BrokenPage == ReadOnly(<<>>)

Pages ==
  [overview |-> OverviewPage, orders |-> OrdersPage, order |-> OrderDetailPage,
   transactions |-> TransactionsPage, users |-> UsersPage, buyers |-> BuyersPage,
   fpos |-> FPOsPage, listings |-> ListingsPage, listing |-> ListingDetailPage,
   recommendations |-> RecommendationsPage, payments |-> PaymentsPage,
   markets |-> MarketsPage, health |-> MarketHealthPage, analytics |-> AnalyticsPage,
   logistics |-> LogisticsPage, grievances |-> GrievancesPage, audit |-> AuditPage,
   settings |-> SettingsPage, broken |-> BrokenPage]

\* The slots that a page's load fills, and all that it shows.
LoadedSlots(p) == UNION {Pages[p].load[i].slots : i \in DOMAIN Pages[p].load}

SlotsOf(p) ==
  LoadedSlots(p) \union Pages[p].summary
    \union (IF Pages[p].drawer # "" THEN {"selected"} ELSE {})

\* The slots that some loads leave alone.
SkippedSlots(p) ==
  UNION {Pages[p].load[i].slots :
           i \in {j \in DOMAIN Pages[p].load : Pages[p].load[j].needs # ""}}

\* The slot whose rows the page's command is about.
CommandSlot(p) == CASE p = "order" -> "order" [] p = "payments" -> "payments"
                    [] p = "listings" -> "listings"
=============================================================================
