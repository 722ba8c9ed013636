----------------------------- MODULE BuyerPages -----------------------------
(***************************************************************************)
(* What the pages of the buyer's workspace show of a tab's lists: the      *)
(* counts of the dashboard and the sidebar, the buttons of each row, the   *)
(* timeline of an order and the marketplace behind its filter.  Each page  *)
(* computes what it shows from the lists by rules of its own.              *)
(***************************************************************************)
EXTENDS BuyerWorkspace, Sequences, FiniteSetsExt

Count(rows, Test(_)) == Cardinality({i \in DOMAIN rows : Test(rows[i])})

\* Broken: what is disputed still counts as a delivery.
DashboardAll(t) ==
  [demands    |-> Count(demands[t], LAMBDA d : d.status = "ACTIVE"),
   offers     |-> Count(offers[t], LAMBDA o : o.status = "PENDING"),
   deliveries |-> Count(orders[t], LAMBDA o :
                    o.status \notin {"DELIVERED", "COMPLETED", "CANCELLED"}),
   procured   |-> MapThenSumSet(LAMBDA o : orders[t][o].gross,
                    {o \in DOMAIN orders[t] : orders[t][o].status # "CANCELLED"})]

Dashboard(t) ==
  [demands    |-> Count(demands[t], LAMBDA d : d.status = "ACTIVE"),
   offers     |-> Count(offers[t], LAMBDA o : o.status = "PENDING"),
   deliveries |-> Count(orders[t], LAMBDA o :
                    o.status \in {"CONFIRMED", "PICKUP_SCHEDULED", "IN_TRANSIT"}),
   procured   |-> MapThenSumSet(LAMBDA o : orders[t][o].gross,
                    {o \in DOMAIN orders[t] : orders[t][o].status # "CANCELLED"})]

\* The fulfilments the dashboard lists beside its counts.
FulfilmentBadge(s) ==
  CASE s \in {"DELIVERED", "COMPLETED"} -> "success"
    [] s = "DISPUTED"                   -> "danger"
    [] OTHER                            -> "warning"

Sidebar(t) ==
  [listings  |-> Count(SeedListings, LAMBDA l : l.status = "ACTIVE"),
   confirmed |-> Count(orders[t], LAMBDA o : o.status = "CONFIRMED"),
   fpo       |-> role[t] = "FPO"]

\* The listings that pass the filter by crop, None for all of them.  The page
\* opens with all, by whichever link: it does not read the crop of its address,
\* and a person picks the filter.
Marketplace(crop) ==
  {l \in DOMAIN SeedListings :
     SeedListings[l].status = "ACTIVE" /\ (crop = None \/ SeedListings[l].crop = crop)}

DemandsPage(t) ==
  [d \in DOMAIN demands[t] |->
     [close    |-> CloseButton(demands[t][d]),
      matching |-> {l \in DOMAIN SeedListings :
                      /\ SeedListings[l].crop = demands[t][d].crop
                      /\ SeedListings[l].status = "ACTIVE"}]]

OffersPage(t) ==
  [o \in DOMAIN offers[t] |->
     [withdraw |-> WithdrawButton(offers[t][o]), link |-> ViewOrderLink(offers[t][o])]]

OrdersPage(t) ==
  [o \in DOMAIN orders[t] |->
     CASE orders[t][o].status \in {"COMPLETED", "DELIVERED"}         -> "success"
       [] orders[t][o].status \in {"IN_TRANSIT", "PICKUP_SCHEDULED"} -> "warning"
       [] orders[t][o].status \in {"DISPUTED", "CANCELLED"}          -> "danger"
       [] OTHER                                                      -> "info"]

Steps == <<"CONFIRMED", "PICKUP_SCHEDULED", "IN_TRANSIT", "DELIVERED", "COMPLETED">>

\* "All crops" is no crop, and a banner is not a timeline.
ASSUME NoneIsNothing == None \notin Crop /\ \A S \in SUBSET DOMAIN Steps : S # None

\* The steps the timeline shows as done, or None for a banner in their place.
OrderTimeline(s) ==
  IF s \in {"DISPUTED", "CANCELLED"} THEN None
  ELSE {i \in DOMAIN Steps : \E now \in i .. Len(Steps) : Steps[now] = s}

OnItsWay(s) == OrderTimeline(s) # None /\ OrderTimeline(s) \subseteq 1 .. 3

(***************************************************************************)
(* Pages computed apart tell one story, in every tab and after any mix of  *)
(* edits, loads and resets.  The dashboard counts the demands that can be  *)
(* closed, the offers that can be withdrawn and the orders whose timeline  *)
(* has not come to the delivery; its total leaves out just the orders that *)
(* a banner calls cancelled.  Badges and timelines agree on what is over.  *)
(* The link of an accepted offer leads to an order, not to the page's      *)
(* fallback; the lots a demand counts are those of the marketplace, once   *)
(* its filter is set to that crop; and outside of the demo no order page   *)
(* is open (page.tsx:34-41, OrderTimeline.tsx:17-80, offers/page.tsx:      *)
(* 86-102, demands/page.tsx:52-56, 90-99, marketplace/page.tsx:28-34).     *)
(***************************************************************************)
PagesAgree ==
  \A t \in Tabs :
    LET on == {o \in DOMAIN orders[t] : OnItsWay(orders[t][o].status)}
        cancelled == {o \in DOMAIN orders[t] : orders[t][o].status = "CANCELLED"}
        gross(S) == MapThenSumSet(LAMBDA o : orders[t][o].gross, S)
    IN  /\ Dashboard(t).demands = Count(DemandsPage(t), LAMBDA row : row.close)
        /\ Dashboard(t).offers = Count(OffersPage(t), LAMBDA row : row.withdraw)
        /\ Dashboard(t).deliveries = Cardinality(on)
        /\ Sidebar(t).confirmed <= Dashboard(t).deliveries
        /\ Dashboard(t).procured + gross(cancelled) = gross(DOMAIN orders[t])
        /\ Sidebar(t).listings = Cardinality(Marketplace(None))
        /\ \A o \in DOMAIN orders[t] :
             /\ (OrdersPage(t)[o] = "danger") = (OrderTimeline(orders[t][o].status) = None)
             /\ OnItsWay(orders[t][o].status) =>
                  FulfilmentBadge(orders[t][o].status) = "warning"
        /\ \A o \in DOMAIN offers[t] :
             OffersPage(t)[o].link =>
               \A id \in offers[t][o].order : OrderAt(t, id) = id
        /\ \A d \in DOMAIN demands[t] :
             DemandsPage(t)[d].matching = Marketplace(demands[t][d].crop)
        /\ page[t] # None => mode[t]
=============================================================================
