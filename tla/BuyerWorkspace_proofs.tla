------------------------ MODULE BuyerWorkspace_proofs ------------------------
(***************************************************************************)
(* What holds of the buyer's workspace for any number of tabs, any seed    *)
(* and anything that is typed.                                             *)
(***************************************************************************)
EXTENDS BuyerPages, Totals, TLAPS

-----------------------------------------------------------------------------
(***************************************************************************)
(* Lists of rows.                                                          *)
(***************************************************************************)

\* A row that is added is of its list's kind and is numbered after the others.
LEMMA AddedRow ==
  ASSUME NEW S, NEW rows, NEW row \in S, clock \in Nat, Within(rows, S)
  PROVE  /\ DOMAIN Added(rows, row) \subseteq 0 .. Epoch + clock
         /\ Added(rows, row) \in [DOMAIN Added(rows, row) -> S]
<1>1. Epoch \in Nat  BY BuyerConstants
<1> DEFINE added == [i \in DOMAIN rows \union {Epoch + clock} |->
                       IF i = Epoch + clock THEN row ELSE rows[i]]
<1>2. Added(rows, row) = added  BY DEF Added
<1>3. DOMAIN added = DOMAIN rows \union {Epoch + clock}  OBVIOUS
<1>4. DOMAIN rows \subseteq 0 .. Epoch + clock - 1 /\ rows \in [DOMAIN rows -> S]
  BY DEF Within
<1>6. DOMAIN added \subseteq 0 .. Epoch + clock  BY <1>1, <1>3, <1>4
<1>7. added \in [DOMAIN added -> S]  BY <1>3, <1>4
<1> QED BY <1>2, <1>6, <1>7

\* The rows that were there stay as they are.
LEMMA AddedRows ==
  ASSUME NEW rows, NEW row
  PROVE  /\ DOMAIN Added(rows, row) = DOMAIN rows \union {Epoch + clock}
         /\ Added(rows, row)[Epoch + clock] = row
BY DEF Added

LEMMA OlderRow ==
  ASSUME NEW S, NEW rows, NEW row, clock \in Nat, Within(rows, S), NEW i \in DOMAIN rows
  PROVE  i # Epoch + clock /\ Added(rows, row)[i] = rows[i]
<1>1. Epoch \in Nat  BY BuyerConstants
<1>2. i # Epoch + clock  BY <1>1 DEF Within
<1> QED BY <1>2 DEF Added

\* A row whose status changes stays in its place, and the others stay as they
\* are.
LEMMA ChangedRow ==
  ASSUME NEW rows, NEW id, NEW s
  PROVE  DOMAIN WithStatus(rows, id, s) = DOMAIN rows
BY DEF WithStatus

LEMMA OtherRow ==
  ASSUME NEW rows, NEW id, NEW s, NEW i \in DOMAIN rows, i # id
  PROVE  WithStatus(rows, id, s)[i] = rows[i]
BY DEF WithStatus

LEMMA OfferFields ==
  ASSUME NEW rows, NEW id, NEW s, NEW i \in DOMAIN rows, rows[i] \in Offer
  PROVE  /\ WithStatus(rows, id, s)[i].qty = rows[i].qty
         /\ WithStatus(rows, id, s)[i].listing = rows[i].listing
         /\ WithStatus(rows, id, s)[i].price = rows[i].price
BY DEF WithStatus, Offer

LEMMA DemandFields ==
  ASSUME NEW rows, NEW id, NEW s, NEW i \in DOMAIN rows, rows[i] \in BuyerDemand
  PROVE  /\ WithStatus(rows, id, s)[i].min = rows[i].min
         /\ WithStatus(rows, id, s)[i].max = rows[i].max
         /\ WithStatus(rows, id, s)[i].price = rows[i].price
BY DEF WithStatus, BuyerDemand

LEMMA ChangedDemand ==
  ASSUME NEW rows, NEW id, rows \in [DOMAIN rows -> BuyerDemand]
  PROVE  WithStatus(rows, id, "CANCELLED") \in [DOMAIN rows -> BuyerDemand]
<1>0. ASSUME NEW row \in BuyerDemand, NEW n \in Nat
      PROVE  [row EXCEPT !.status = "CANCELLED", !.version = n] \in BuyerDemand
  BY DEF BuyerDemand, DemandStatus
<1>1. \A i \in DOMAIN rows : rows[i].version + 1 \in Nat  BY DEF BuyerDemand
<1>2. \A i \in DOMAIN rows : rows[i] \in BuyerDemand  OBVIOUS
<1> DEFINE changed(i) == [rows[i] EXCEPT !.status = "CANCELLED", !.version = rows[i].version + 1]
<1>3. \A i \in DOMAIN rows : changed(i) \in BuyerDemand  BY <1>0, <1>1, <1>2
<1>4. WithStatus(rows, id, "CANCELLED") = [i \in DOMAIN rows |-> IF i = id THEN changed(i) ELSE rows[i]]
  BY DEF WithStatus
<1> QED
  <2> HIDE DEF changed
  <2> QED BY <1>2, <1>3, <1>4

LEMMA ChangedOffer ==
  ASSUME NEW rows, NEW id, rows \in [DOMAIN rows -> Offer]
  PROVE  WithStatus(rows, id, "WITHDRAWN") \in [DOMAIN rows -> Offer]
<1>0. ASSUME NEW row \in Offer, NEW n \in Nat
      PROVE  [row EXCEPT !.status = "WITHDRAWN", !.version = n] \in Offer
  BY DEF Offer, OfferStatus
<1>1. \A i \in DOMAIN rows : rows[i].version + 1 \in Nat  BY DEF Offer
<1>2. \A i \in DOMAIN rows : rows[i] \in Offer  OBVIOUS
<1> DEFINE changed(i) == [rows[i] EXCEPT !.status = "WITHDRAWN", !.version = rows[i].version + 1]
<1>3. \A i \in DOMAIN rows : changed(i) \in Offer  BY <1>0, <1>1, <1>2
<1>4. WithStatus(rows, id, "WITHDRAWN") = [i \in DOMAIN rows |-> IF i = id THEN changed(i) ELSE rows[i]]
  BY DEF WithStatus
<1> QED
  <2> HIDE DEF changed
  <2> QED BY <1>2, <1>3, <1>4

LEMMA ChangedOrder ==
  ASSUME NEW rows, NEW id, NEW s \in OrderStatus, rows \in [DOMAIN rows -> Order]
  PROVE  WithStatus(rows, id, s) \in [DOMAIN rows -> Order]
<1>0. ASSUME NEW row \in Order, NEW n \in Nat
      PROVE  [row EXCEPT !.status = s, !.version = n] \in Order
  BY DEF Order
<1>1. \A i \in DOMAIN rows : rows[i].version + 1 \in Nat  BY DEF Order
<1>2. \A i \in DOMAIN rows : rows[i] \in Order  OBVIOUS
<1> DEFINE changed(i) == [rows[i] EXCEPT !.status = s, !.version = rows[i].version + 1]
<1>3. \A i \in DOMAIN rows : changed(i) \in Order  BY <1>0, <1>1, <1>2
<1>4. WithStatus(rows, id, s) = [i \in DOMAIN rows |-> IF i = id THEN changed(i) ELSE rows[i]]
  BY DEF WithStatus
<1> QED
  <2> HIDE DEF changed
  <2> QED BY <1>2, <1>3, <1>4

-----------------------------------------------------------------------------
(***************************************************************************)
(* Types.                                                                  *)
(***************************************************************************)

LEMMA TypesAtFirst == Init => BuyerTypeOK
<1> SUFFICES ASSUME Init PROVE BuyerTypeOK  OBVIOUS
<1>1. Epoch \in Nat /\ MaxEdits \in Nat /\ DemoByDefault \in BOOLEAN  BY BuyerConstants
<1>2. /\ Within(SeedDemands, BuyerDemand)
      /\ Within(SeedOffers, Offer)
      /\ SeedOrders \in [DOMAIN SeedOrders -> Order]
      /\ Within(SeedGrievances, Grievance)
  BY <1>1, BuyerSeed DEF Init, Within
<1>3. /\ clock \in 0 .. MaxEdits
      /\ mode \in [Tabs -> BOOLEAN]
      /\ role \in [Tabs -> Role]
      /\ DOMAIN page = Tabs
      /\ DOMAIN demands = Tabs /\ DOMAIN offers = Tabs
      /\ DOMAIN orders = Tabs /\ DOMAIN grievances = Tabs
      /\ DOMAIN stored = AllKeys
      /\ current \in [AllKeys -> SUBSET Tabs]
  BY <1>1 DEF Init, Role
<1>4. /\ stored["mode"] = DemoByDefault
      /\ stored["demands"] = SeedDemands
      /\ stored["offers"] = SeedOffers
      /\ stored["orders"] = SeedOrders
  BY DEF Init, Seed, AllKeys, ListKeys
<1>5. \A t \in Tabs : /\ page[t] = None
                      /\ demands[t] = SeedDemands
                      /\ offers[t] = SeedOffers
                      /\ orders[t] = SeedOrders
                      /\ grievances[t] = SeedGrievances
  BY DEF Init
<1> QED BY <1>1, <1>2, <1>3, <1>4, <1>5 DEF BuyerTypeOK

\* What may change without a word of the lists: a list that stays, or that is
\* taken from the storage or the seed, is of its kind at a later time too.
LEMMA WithinLater ==
  ASSUME NEW S, NEW rows, clock \in Nat, clock' \in Nat, clock <= clock', Within(rows, S)
  PROVE  /\ DOMAIN rows \subseteq 0 .. Epoch + clock' - 1
         /\ rows \in [DOMAIN rows -> S]
<1>1. Epoch \in Nat  BY BuyerConstants
<1> QED BY <1>1 DEF Within

\* What is rounded keeps its order, and does not become negative.
LEMMA Rounding ==
  ASSUME NEW x \in Int, NEW y \in Int, x <= y
  PROVE  /\ toFixed(x) \in Int /\ toFixed(y) \in Int
         /\ toFixed(x) <= toFixed(y)
         /\ x > 0 => toFixed(x) >= 0
BY DEF toFixed

\* A demand and an offer as their forms make them.
LEMMA NewDemandTyped ==
  ASSUME NEW form \in DemandForms, NEW r \in Role
  PROVE  [status |-> "ACTIVE", version |-> 1, by |-> r, crop |-> form.crop,
          min |-> toFixed(form.min), max |-> toFixed(form.max), price |-> toFixed(form.price)] \in BuyerDemand
<1>1. \A x \in Int : toFixed(x) \in Int  BY Rounding
<1>2. form \in [crop : Crop, min : Int, max : Int, price : Int]  BY BuyerConstants
<1> QED BY <1>1, <1>2 DEF BuyerDemand, DemandStatus

LEMMA NewOfferTyped ==
  ASSUME NEW form \in OfferForms
  PROVE  [status |-> "PENDING", version |-> 1, listing |-> form.listing,
          qty |-> form.qty, price |-> form.price, order |-> {}] \in Offer
BY BuyerConstants DEF Offer, OfferStatus

\* The parts of the type invariant.
DemandsTyped ==
  /\ DOMAIN demands = Tabs
  /\ \A t \in Tabs : Within(demands[t], BuyerDemand)
  /\ Within(stored["demands"], BuyerDemand)

OffersTyped ==
  /\ DOMAIN offers = Tabs
  /\ \A t \in Tabs : Within(offers[t], Offer)
  /\ Within(stored["offers"], Offer)

OrdersTyped ==
  /\ DOMAIN orders = Tabs
  /\ \A t \in Tabs : orders[t] \in [DOMAIN SeedOrders -> Order]
  /\ stored["orders"] \in [DOMAIN SeedOrders -> Order]

GrievancesTyped ==
  /\ DOMAIN grievances = Tabs
  /\ \A t \in Tabs : Within(grievances[t], Grievance)

PagesTyped ==
  /\ DOMAIN page = Tabs
  /\ \A t \in Tabs : page[t] = None \/ page[t] \in [order : Addresses, target : OrderStatus]

ModesTyped ==
  /\ mode \in [Tabs -> BOOLEAN]
  /\ role \in [Tabs -> Role]
  /\ stored["mode"] \in BOOLEAN

StorageTyped == DOMAIN stored = AllKeys /\ current \in [AllKeys -> SUBSET Tabs]

Typed == /\ clock \in 0 .. MaxEdits
         /\ DemandsTyped /\ OffersTyped /\ OrdersTyped /\ GrievancesTyped
         /\ PagesTyped /\ ModesTyped /\ StorageTyped

LEMMA TypedParts == BuyerTypeOK <=> Typed
BY DEF BuyerTypeOK, Typed, DemandsTyped, OffersTyped, OrdersTyped, GrievancesTyped,
       PagesTyped, ModesTyped, StorageTyped

\* The clock stays or ticks.
Later == clock' = clock \/ (clock < MaxEdits /\ clock' = clock + 1)

LEMMA LaterClock ==
  ASSUME clock \in 0 .. MaxEdits, Later
  PROVE  clock \in Nat /\ clock' \in Nat /\ clock <= clock' /\ clock' \in 0 .. MaxEdits
BY BuyerConstants DEF Later

\* What a step leaves alone keeps its type.
LEMMA TypesOfTheRest ==
  ASSUME Typed, Later
  PROVE  /\ UNCHANGED demands /\ stored'["demands"] = stored["demands"] => DemandsTyped'
         /\ UNCHANGED offers /\ stored'["offers"] = stored["offers"] => OffersTyped'
         /\ UNCHANGED orders /\ stored'["orders"] = stored["orders"] => OrdersTyped'
         /\ UNCHANGED grievances => GrievancesTyped'
         /\ UNCHANGED page => PagesTyped'
         /\ UNCHANGED <<mode, role>> /\ stored'["mode"] = stored["mode"] => ModesTyped'
         /\ UNCHANGED <<stored, current>> => StorageTyped'
<1>1. clock \in Nat /\ clock' \in Nat /\ clock <= clock'  BY LaterClock DEF Typed
<1>2. \A S, rows : Within(rows, S) =>
        DOMAIN rows \subseteq 0 .. Epoch + clock' - 1 /\ rows \in [DOMAIN rows -> S]
  BY <1>1, WithinLater
<1>3. ASSUME UNCHANGED demands, stored'["demands"] = stored["demands"]
      PROVE  DemandsTyped'
  BY <1>2, <1>3 DEF Typed, DemandsTyped, Within
<1>4. ASSUME UNCHANGED offers, stored'["offers"] = stored["offers"]
      PROVE  OffersTyped'
  BY <1>2, <1>4 DEF Typed, OffersTyped, Within
<1>5. ASSUME UNCHANGED orders, stored'["orders"] = stored["orders"]
      PROVE  OrdersTyped'
  BY <1>5 DEF Typed, OrdersTyped
<1>6. ASSUME UNCHANGED grievances
      PROVE  GrievancesTyped'
  BY <1>2, <1>6 DEF Typed, GrievancesTyped, Within
<1>7. UNCHANGED page => PagesTyped'  BY DEF Typed, PagesTyped
<1>8. UNCHANGED <<mode, role>> /\ stored'["mode"] = stored["mode"] => ModesTyped'
  BY DEF Typed, ModesTyped
<1>9. UNCHANGED <<stored, current>> => StorageTyped'  BY DEF Typed, StorageTyped
<1> QED BY <1>3, <1>4, <1>5, <1>6, <1>7, <1>8, <1>9

\* Saving touches one key.
LEMMA Saved ==
  ASSUME Typed, NEW t \in Tabs, NEW k \in AllKeys, NEW data, saveToStorage(t, k, data)
  PROVE  /\ StorageTyped'
         /\ stored'[k] = data \/ stored'[k] = stored[k]
         /\ \A j \in AllKeys : j # k => stored'[j] = stored[j]
BY DEF Typed, StorageTyped, saveToStorage

LEMMA LeftPages ==
  ASSUME Typed, NEW t \in Tabs, LeavesOrderPage(t)
  PROVE  PagesTyped'
BY DEF Typed, PagesTyped, LeavesOrderPage

\* A list that is edited and saved stays of its kind.
LEMMA EditedDemands ==
  ASSUME Typed, Later, clock' \in 0 .. MaxEdits, NEW t \in Tabs, NEW data,
         DOMAIN data \subseteq 0 .. Epoch + clock' - 1, data \in [DOMAIN data -> BuyerDemand],
         demands' = [demands EXCEPT ![t] = data], saveToStorage(t, "demands", data)
  PROVE  DemandsTyped'
<1>1. \A rows : Within(rows, BuyerDemand) =>
        DOMAIN rows \subseteq 0 .. Epoch + clock' - 1 /\ rows \in [DOMAIN rows -> BuyerDemand]
  BY LaterClock, WithinLater DEF Typed
<1>2. DOMAIN demands = Tabs  BY DEF Typed, DemandsTyped
<1>3. DOMAIN demands' = Tabs  BY <1>2
<1>4. \A u \in Tabs : demands'[u] = data \/ demands'[u] = demands[u]  BY <1>2
<1>5. stored'["demands"] = data \/ stored'["demands"] = stored["demands"]  BY Saved DEF AllKeys, ListKeys
<1> QED BY <1>1, <1>3, <1>4, <1>5 DEF Typed, DemandsTyped, Within

LEMMA EditedOffers ==
  ASSUME Typed, Later, clock' \in 0 .. MaxEdits, NEW t \in Tabs, NEW data,
         DOMAIN data \subseteq 0 .. Epoch + clock' - 1, data \in [DOMAIN data -> Offer],
         offers' = [offers EXCEPT ![t] = data], saveToStorage(t, "offers", data)
  PROVE  OffersTyped'
<1>1. \A rows : Within(rows, Offer) =>
        DOMAIN rows \subseteq 0 .. Epoch + clock' - 1 /\ rows \in [DOMAIN rows -> Offer]
  BY LaterClock, WithinLater DEF Typed
<1>2. DOMAIN offers = Tabs  BY DEF Typed, OffersTyped
<1>3. DOMAIN offers' = Tabs  BY <1>2
<1>4. \A u \in Tabs : offers'[u] = data \/ offers'[u] = offers[u]  BY <1>2
<1>5. stored'["offers"] = data \/ stored'["offers"] = stored["offers"]  BY Saved DEF AllKeys, ListKeys
<1> QED BY <1>1, <1>3, <1>4, <1>5 DEF Typed, OffersTyped, Within

LEMMA EditedOrders ==
  ASSUME Typed, Later, NEW t \in Tabs, NEW data \in [DOMAIN SeedOrders -> Order],
         orders' = [orders EXCEPT ![t] = data], saveToStorage(t, "orders", data)
  PROVE  OrdersTyped'
<1>2. DOMAIN orders = Tabs  BY DEF Typed, OrdersTyped
<1>3. DOMAIN orders' = Tabs  BY <1>2
<1>4. \A u \in Tabs : orders'[u] = data \/ orders'[u] = orders[u]  BY <1>2
<1>5. stored'["orders"] = data \/ stored'["orders"] = stored["orders"]  BY Saved DEF AllKeys, ListKeys
<1> QED BY <1>3, <1>4, <1>5 DEF Typed, OrdersTyped

\* A reload takes every list from the storage or the seed.
LEMMA TypesAfterLoad ==
  ASSUME Typed, NEW t \in Tabs, LoadTab(t)
  PROVE  Typed'
<1>1. clock' = clock /\ stored' = stored  BY DEF LoadTab
<1>2. Within(SeedGrievances, Grievance)
  <2>1. Epoch \in Nat /\ clock \in Nat  BY BuyerConstants DEF Typed
  <2> QED BY <2>1, BuyerSeed DEF Within
<1>3. DemandsTyped'  BY <1>1 DEF LoadTab, Typed, DemandsTyped, Within
<1>4. OffersTyped'  BY <1>1 DEF LoadTab, Typed, OffersTyped, Within
<1>5. OrdersTyped'  BY <1>1 DEF LoadTab, Typed, OrdersTyped
<1>6. GrievancesTyped'  BY <1>1, <1>2 DEF LoadTab, Typed, GrievancesTyped, Within
<1>7. PagesTyped'  BY DEF LoadTab, Typed, PagesTyped
<1>8. ModesTyped'  BY DEF LoadTab, Typed, ModesTyped, Role
<1>9. StorageTyped'  BY DEF LoadTab, Typed, StorageTyped
<1> QED BY <1>1, <1>3, <1>4, <1>5, <1>6, <1>7, <1>8, <1>9 DEF Typed

\* A reset removes no key but those of the lists.
LEMMA RemovedKeys ==
  ASSUME NEW removed \in Removals
  PROVE  removed \subseteq ListKeys
BY BuyerConstants DEF ListKeys

LEMMA TypesAfterReset ==
  ASSUME Typed, NEW t \in Tabs, ResetDemoData(t)
  PROVE  Typed'
<1>1. clock' = clock  BY DEF ResetDemoData
<1>2. /\ Within(SeedDemands, BuyerDemand)
      /\ Within(SeedOffers, Offer)
      /\ Within(SeedGrievances, Grievance)
  <2>1. Epoch \in Nat /\ clock \in Nat  BY BuyerConstants DEF Typed
  <2> QED BY <2>1, BuyerSeed DEF Within
<1>3. /\ stored'["mode"] = stored["mode"]
      /\ stored'["demands"] \in {SeedDemands, stored["demands"]}
      /\ stored'["offers"] \in {SeedOffers, stored["offers"]}
      /\ stored'["orders"] \in {SeedOrders, stored["orders"]}
      /\ StorageTyped'
  <2>1. PICK removed \in Removals :
          /\ stored' = [k \in AllKeys |-> IF k \in removed THEN Seed(k) ELSE stored[k]]
          /\ current' = [k \in AllKeys |-> IF k \in removed THEN {t}
                                           ELSE IF k \in ListKeys THEN current[k] \ {t}
                                           ELSE current[k]]
    BY DEF ResetDemoData
  <2>2. "mode" \notin removed  BY RemovedKeys DEF ListKeys
  <2>3. StorageTyped'  BY <2>1 DEF Typed, StorageTyped
  <2>4. /\ Seed("demands") = SeedDemands
        /\ Seed("offers") = SeedOffers
        /\ Seed("orders") = SeedOrders
    BY DEF Seed
  <2> QED BY <2>1, <2>2, <2>3, <2>4 DEF AllKeys, ListKeys
<1>4. DemandsTyped'  BY <1>1, <1>2, <1>3 DEF ResetDemoData, Typed, DemandsTyped, Within
<1>5. OffersTyped'  BY <1>1, <1>2, <1>3 DEF ResetDemoData, Typed, OffersTyped, Within
<1>6. OrdersTyped'  BY <1>3, BuyerSeed DEF ResetDemoData, Typed, OrdersTyped
<1>7. GrievancesTyped'  BY <1>1, <1>2 DEF ResetDemoData, Typed, GrievancesTyped, Within
<1>8. PagesTyped'  BY DEF ResetDemoData, Typed, PagesTyped
<1>9. ModesTyped'  BY <1>3 DEF ResetDemoData, Typed, ModesTyped
<1> QED BY <1>1, <1>3, <1>4, <1>5, <1>6, <1>7, <1>8, <1>9 DEF Typed

\* The row of a new demand is read from the form and the role of the tab.
LEMMA TypesAfterNewDemand ==
  ASSUME Typed, NEW t \in Tabs, NEW form \in DemandForms, CreateDemand(t, form)
  PROVE  Typed'
<1> DEFINE row == [status |-> "ACTIVE", version |-> 1, by |-> role[t],
                   crop |-> form.crop, min |-> toFixed(form.min),
                   max |-> toFixed(form.max), price |-> toFixed(form.price)]
           list == Added(demands[t], row)
<1>1. row \in BuyerDemand  BY NewDemandTyped DEF Typed, ModesTyped
<1>2. /\ clock < MaxEdits /\ clock' = clock + 1
      /\ LeavesOrderPage(t)
      /\ demands' = [demands EXCEPT ![t] = list]
      /\ saveToStorage(t, "demands", list)
      /\ UNCHANGED <<mode, role, offers, orders, grievances>>
  BY DEF CreateDemand, Tick
<1>3. clock \in Nat /\ clock' \in 0 .. MaxEdits /\ Later  BY <1>2, LaterClock DEF Typed, Later
<1>4. DOMAIN list \subseteq 0 .. Epoch + clock /\ list \in [DOMAIN list -> BuyerDemand]
  <2> HIDE DEF row
  <2>1. Within(demands[t], BuyerDemand)  BY DEF Typed, DemandsTyped
  <2> QED BY <1>1, <1>3, <2>1, AddedRow
<1> HIDE DEF list
<1>5. Epoch + clock = Epoch + clock' - 1  BY <1>2, <1>3, BuyerConstants
<1>6. DemandsTyped'  BY <1>2, <1>3, <1>4, <1>5, EditedDemands
<1>7. StorageTyped' /\ \A j \in AllKeys : j # "demands" => stored'[j] = stored[j]
  BY <1>2, Saved DEF AllKeys, ListKeys
<1>8. /\ stored'["mode"] = stored["mode"]
      /\ stored'["offers"] = stored["offers"]
      /\ stored'["orders"] = stored["orders"]
  BY <1>7 DEF AllKeys, ListKeys
<1>9. PagesTyped'  BY <1>2, LeftPages
<1> QED BY <1>2, <1>3, <1>6, <1>7, <1>8, <1>9, TypesOfTheRest DEF Typed

LEMMA TypesAfterClose ==
  ASSUME Typed, NEW t \in Tabs, NEW d, CloseDemand(t, d)
  PROVE  Typed'
<1> DEFINE list == WithStatus(demands[t], d, "CANCELLED")
<1>2. /\ clock < MaxEdits /\ clock' = clock + 1
      /\ LeavesOrderPage(t)
      /\ demands' = [demands EXCEPT ![t] = list]
      /\ saveToStorage(t, "demands", list)
      /\ UNCHANGED <<mode, role, offers, orders, grievances>>
  BY DEF CloseDemand, ClosedDemands, Tick
<1>3. clock \in Nat /\ clock' \in 0 .. MaxEdits /\ Later  BY <1>2, LaterClock DEF Typed, Later
<1>4. DOMAIN list \subseteq 0 .. Epoch + clock - 1 /\ list \in [DOMAIN list -> BuyerDemand]
  <2>1. Within(demands[t], BuyerDemand)  BY DEF Typed, DemandsTyped
  <2> QED BY <2>1, ChangedDemand, ChangedRow DEF Within
<1> HIDE DEF list
<1>5. DOMAIN list \subseteq 0 .. Epoch + clock' - 1  BY <1>2, <1>3, <1>4, BuyerConstants
<1>6. DemandsTyped'  BY <1>2, <1>3, <1>4, <1>5, EditedDemands
<1>7. StorageTyped' /\ \A j \in AllKeys : j # "demands" => stored'[j] = stored[j]
  BY <1>2, Saved DEF AllKeys, ListKeys
<1>8. /\ stored'["mode"] = stored["mode"]
      /\ stored'["offers"] = stored["offers"]
      /\ stored'["orders"] = stored["orders"]
  BY <1>7 DEF AllKeys, ListKeys
<1>9. PagesTyped'  BY <1>2, LeftPages
<1> QED BY <1>2, <1>3, <1>6, <1>7, <1>8, <1>9, TypesOfTheRest DEF Typed

LEMMA TypesAfterNewOffer ==
  ASSUME Typed, NEW t \in Tabs, NEW form \in OfferForms, CreateOffer(t, form)
  PROVE  Typed'
<1> DEFINE row == [status |-> "PENDING", version |-> 1, listing |-> form.listing,
                   qty |-> form.qty, price |-> form.price, order |-> {}]
           list == Added(offers[t], row)
<1>1. row \in Offer  BY NewOfferTyped
<1>2. /\ clock < MaxEdits /\ clock' = clock + 1
      /\ LeavesOrderPage(t)
      /\ offers' = [offers EXCEPT ![t] = list]
      /\ saveToStorage(t, "offers", list)
      /\ UNCHANGED <<mode, role, demands, orders, grievances>>
  BY DEF CreateOffer, Tick
<1>3. clock \in Nat /\ clock' \in 0 .. MaxEdits /\ Later  BY <1>2, LaterClock DEF Typed, Later
<1>4. DOMAIN list \subseteq 0 .. Epoch + clock /\ list \in [DOMAIN list -> Offer]
  <2> HIDE DEF row
  <2>1. Within(offers[t], Offer)  BY DEF Typed, OffersTyped
  <2> QED BY <1>1, <1>3, <2>1, AddedRow
<1> HIDE DEF list
<1>5. Epoch + clock = Epoch + clock' - 1  BY <1>2, <1>3, BuyerConstants
<1>6. OffersTyped'  BY <1>2, <1>3, <1>4, <1>5, EditedOffers
<1>7. StorageTyped' /\ \A j \in AllKeys : j # "offers" => stored'[j] = stored[j]
  BY <1>2, Saved DEF AllKeys, ListKeys
<1>8. /\ stored'["mode"] = stored["mode"]
      /\ stored'["demands"] = stored["demands"]
      /\ stored'["orders"] = stored["orders"]
  BY <1>7 DEF AllKeys, ListKeys
<1>9. PagesTyped'  BY <1>2, LeftPages
<1> QED BY <1>2, <1>3, <1>6, <1>7, <1>8, <1>9, TypesOfTheRest DEF Typed

LEMMA TypesAfterWithdrawal ==
  ASSUME Typed, NEW t \in Tabs, NEW o, WithdrawOffer(t, o)
  PROVE  Typed'
<1> DEFINE list == WithStatus(offers[t], o, "WITHDRAWN")
<1>2. /\ clock < MaxEdits /\ clock' = clock + 1
      /\ LeavesOrderPage(t)
      /\ offers' = [offers EXCEPT ![t] = list]
      /\ saveToStorage(t, "offers", list)
      /\ UNCHANGED <<mode, role, demands, orders, grievances>>
  BY DEF WithdrawOffer, Tick
<1>3. clock \in Nat /\ clock' \in 0 .. MaxEdits /\ Later  BY <1>2, LaterClock DEF Typed, Later
<1>4. DOMAIN list \subseteq 0 .. Epoch + clock - 1 /\ list \in [DOMAIN list -> Offer]
  <2>1. Within(offers[t], Offer)  BY DEF Typed, OffersTyped
  <2> QED BY <2>1, ChangedOffer, ChangedRow DEF Within
<1> HIDE DEF list
<1>5. DOMAIN list \subseteq 0 .. Epoch + clock' - 1  BY <1>2, <1>3, <1>4, BuyerConstants
<1>6. OffersTyped'  BY <1>2, <1>3, <1>4, <1>5, EditedOffers
<1>7. StorageTyped' /\ \A j \in AllKeys : j # "offers" => stored'[j] = stored[j]
  BY <1>2, Saved DEF AllKeys, ListKeys
<1>8. /\ stored'["mode"] = stored["mode"]
      /\ stored'["demands"] = stored["demands"]
      /\ stored'["orders"] = stored["orders"]
  BY <1>7 DEF AllKeys, ListKeys
<1>9. PagesTyped'  BY <1>2, LeftPages
<1> QED BY <1>2, <1>3, <1>6, <1>7, <1>8, <1>9, TypesOfTheRest DEF Typed

\* The page of an order moves the order it shows to the status its dialog has.
LEMMA TypesAfterMove ==
  ASSUME Typed, NEW t \in Tabs, SubmitUpdate(t)
  PROVE  Typed'
<1> DEFINE list == WithStatus(orders[t], OrderAt(t, page[t].order), page[t].target)
<1>1. page[t].target \in OrderStatus  BY DEF SubmitUpdate, Typed, PagesTyped
<1>2. /\ clock < MaxEdits /\ clock' = clock + 1
      /\ orders' = [orders EXCEPT ![t] = list]
      /\ saveToStorage(t, "orders", list)
      /\ UNCHANGED <<mode, role, demands, offers, grievances, page>>
  BY DEF SubmitUpdate, Tick
<1>3. clock \in Nat /\ clock' \in 0 .. MaxEdits /\ Later  BY <1>2, LaterClock DEF Typed, Later
<1>4. list \in [DOMAIN SeedOrders -> Order]
  <2>1. orders[t] \in [DOMAIN SeedOrders -> Order]  BY DEF Typed, OrdersTyped
  <2> QED BY <1>1, <2>1, ChangedOrder
<1> HIDE DEF list
<1>6. OrdersTyped'  BY <1>2, <1>3, <1>4, EditedOrders
<1>7. StorageTyped' /\ \A j \in AllKeys : j # "orders" => stored'[j] = stored[j]
  BY <1>2, Saved DEF AllKeys, ListKeys
<1>8. /\ stored'["mode"] = stored["mode"]
      /\ stored'["demands"] = stored["demands"]
      /\ stored'["offers"] = stored["offers"]
  BY <1>7 DEF AllKeys, ListKeys
<1> QED BY <1>2, <1>3, <1>6, <1>7, <1>8, TypesOfTheRest DEF Typed

LEMMA TypesAfterGrievance ==
  ASSUME Typed, NEW t \in Tabs, NEW o \in DOMAIN orders[t], CreateGrievance(t, o)
  PROVE  Typed'
<1> DEFINE row == [status |-> "OPEN", by |-> role[t], order |-> o]
           list == Added(grievances[t], row)
<1>1. row \in Grievance
  <2>1. role[t] \in Role /\ o \in DOMAIN SeedOrders  BY DEF Typed, ModesTyped, OrdersTyped
  <2> QED BY <2>1 DEF Grievance, GrievanceStatus
<1>2. /\ clock < MaxEdits /\ clock' = clock + 1
      /\ LeavesOrderPage(t)
      /\ grievances' = [grievances EXCEPT ![t] = list]
      /\ UNCHANGED <<mode, role, demands, offers, orders, stored, current>>
  BY DEF CreateGrievance, Tick
<1>3. clock \in Nat /\ clock' \in 0 .. MaxEdits /\ Later  BY <1>2, LaterClock DEF Typed, Later
<1>4. DOMAIN list \subseteq 0 .. Epoch + clock /\ list \in [DOMAIN list -> Grievance]
  <2> HIDE DEF row
  <2>1. Within(grievances[t], Grievance)  BY DEF Typed, GrievancesTyped
  <2> QED BY <1>1, <1>3, <2>1, AddedRow
<1> HIDE DEF list
<1>5. Epoch + clock = Epoch + clock' - 1  BY <1>2, <1>3, BuyerConstants
<1>6. GrievancesTyped'
  <2>1. \A rows : Within(rows, Grievance) =>
          DOMAIN rows \subseteq 0 .. Epoch + clock' - 1 /\ rows \in [DOMAIN rows -> Grievance]
    BY <1>3, LaterClock, WithinLater DEF Typed
  <2>2. DOMAIN grievances = Tabs  BY DEF Typed, GrievancesTyped
  <2>3. DOMAIN grievances' = Tabs  BY <1>2, <2>2
  <2>4. \A u \in Tabs : grievances'[u] = list \/ grievances'[u] = grievances[u]
    BY <1>2, <2>2
  <2> QED BY <1>4, <1>5, <2>1, <2>3, <2>4 DEF Typed, GrievancesTyped, Within
<1>9. PagesTyped'  BY <1>2, LeftPages
<1> QED BY <1>2, <1>3, <1>6, <1>9, TypesOfTheRest DEF Typed

\* The mode, the role and the page of an order.
LEMMA TypesAfterBrowsing ==
  ASSUME Typed, NEW t \in Tabs, Browse(t)
  PROVE  Typed'
<1>1. ASSUME NEW on \in BOOLEAN, SetDemoMode(t, on)
      PROVE  Typed'
  <2>1. /\ clock < MaxEdits /\ clock' = clock + 1
        /\ mode' = [mode EXCEPT ![t] = on]
        /\ LeavesOrderPage(t)
        /\ saveToStorage(t, "mode", on)
        /\ UNCHANGED <<role, demands, offers, orders, grievances>>
    BY <1>1 DEF SetDemoMode, Tick, lists
  <2>2. clock' \in 0 .. MaxEdits /\ Later  BY <2>1, LaterClock DEF Typed, Later
  <2>3. /\ StorageTyped'
        /\ stored'["mode"] = on \/ stored'["mode"] = stored["mode"]
        /\ \A j \in AllKeys : j # "mode" => stored'[j] = stored[j]
    BY <2>1, Saved DEF AllKeys, ListKeys
  <2>4. /\ stored'["demands"] = stored["demands"]
        /\ stored'["offers"] = stored["offers"]
        /\ stored'["orders"] = stored["orders"]
    BY <2>3 DEF AllKeys, ListKeys
  <2>5. mode' \in [Tabs -> BOOLEAN] /\ role' \in [Tabs -> Role]
    <3>1. mode \in [Tabs -> BOOLEAN] /\ role \in [Tabs -> Role]  BY DEF Typed, ModesTyped
    <3> QED BY <2>1, <3>1
  <2>6. stored'["mode"] \in BOOLEAN  BY <2>3 DEF Typed, ModesTyped
  <2>7. ModesTyped'  BY <2>5, <2>6 DEF ModesTyped
  <2>8. PagesTyped'  BY <2>1, LeftPages
  <2> QED BY <2>1, <2>2, <2>3, <2>4, <2>7, <2>8, TypesOfTheRest DEF Typed
<1>2. ASSUME NEW r \in Role, SwitchRole(t, r)
      PROVE  Typed'
  <2>1. /\ clock < MaxEdits /\ clock' = clock + 1
        /\ role' = [role EXCEPT ![t] = r]
        /\ UNCHANGED <<mode, demands, offers, orders, grievances, page, stored, current>>
    BY <1>2 DEF SwitchRole, Tick, lists
  <2>2. clock' \in 0 .. MaxEdits /\ Later  BY <2>1, LaterClock DEF Typed, Later
  <2>3. ModesTyped'  BY <2>1 DEF Typed, ModesTyped
  <2> QED BY <2>1, <2>2, <2>3, TypesOfTheRest DEF Typed
<1>3. ASSUME NEW new \in [order : Addresses, target : OrderStatus],
             page' = [page EXCEPT ![t] = new],
             UNCHANGED <<mode, role, lists, stored, current, clock>>
      PROVE  Typed'
  <2>1. PagesTyped'  BY <1>3 DEF Typed, PagesTyped
  <2> QED BY <1>3, <2>1, TypesOfTheRest DEF Typed, Later, lists
<1>4. ASSUME NEW id \in Addresses, OpenOrder(t, id)
      PROVE  Typed'
  <2>1. [order |-> id, target |-> "IN_TRANSIT"] \in [order : Addresses, target : OrderStatus]
    BY DEF OrderStatus
  <2> QED BY <1>3, <1>4, <2>1 DEF OpenOrder
<1>5. ASSUME NEW s \in OrderStatus, PickTarget(t, s)
      PROVE  Typed'
  <2>1. page[t].order \in Addresses  BY <1>5 DEF PickTarget, Typed, PagesTyped
  <2>2. [order |-> page[t].order, target |-> s] \in [order : Addresses, target : OrderStatus]
    BY <2>1
  <2> QED BY <1>3, <1>5, <2>2 DEF PickTarget
<1> QED BY <1>1, <1>2, <1>4, <1>5 DEF Browse

LEMMA TypesKept == Typed /\ [Next]_vars => Typed'
<1> SUFFICES ASSUME Typed, [Next]_vars PROVE Typed'  OBVIOUS
<1>1. ASSUME NEW t \in Tabs, Edit(t)
      PROVE  Typed'
  BY <1>1, TypesAfterNewDemand, TypesAfterClose, TypesAfterNewOffer, TypesAfterWithdrawal,
     TypesAfterMove, TypesAfterGrievance DEF Edit
<1>2. CASE UNCHANGED vars
  BY <1>2, TypesOfTheRest DEF vars, lists, Typed, Later
<1> QED BY <1>1, <1>2, TypesAfterBrowsing, TypesAfterReset, TypesAfterLoad DEF Next

\* In any number of tabs, and whatever is typed or fails to be saved, every list
\* shown or saved has rows of its kind that were created by now, and the orders
\* are those of the seed.
THEOREM BuyerTypes == Spec => []BuyerTypeOK
<1>1. Init => Typed  BY TypesAtFirst, TypedParts
<1>2. Typed /\ [Next]_vars => Typed'  BY TypesKept
<1>3. Typed => BuyerTypeOK  BY TypedParts
<1> QED BY <1>1, <1>2, <1>3, PTL DEF Spec

-----------------------------------------------------------------------------
(***************************************************************************)
(* The tabs that are current show what is stored.                          *)
(***************************************************************************)

LEMMA ShownByKey ==
  ASSUME NEW t
  PROVE  /\ Shown(t, "mode") = mode[t]
         /\ Shown(t, "demands") = demands[t]
         /\ Shown(t, "offers") = offers[t]
         /\ Shown(t, "orders") = orders[t]
BY DEF Shown

LEMMA ShownByKeyNext ==
  ASSUME NEW t
  PROVE  /\ Shown(t, "mode")' = mode'[t]
         /\ Shown(t, "demands")' = demands'[t]
         /\ Shown(t, "offers")' = offers'[t]
         /\ Shown(t, "orders")' = orders'[t]
BY DEF Shown

LEMMA SeedByKey ==
  /\ Seed("demands") = SeedDemands
  /\ Seed("offers") = SeedOffers
  /\ Seed("orders") = SeedOrders
BY DEF Seed

\* Whether a save succeeds or fails, who is current then shows what is stored.
LEMMA SavedAgrees ==
  ASSUME Typed, CurrentTabsAgree, NEW t \in Tabs, NEW k \in AllKeys, NEW data,
         saveToStorage(t, k, data),
         Shown(t, k)' = data,
         \A u \in Tabs, j \in AllKeys : u # t => Shown(u, j)' = Shown(u, j),
         \A j \in AllKeys : j # k => Shown(t, j)' = Shown(t, j)
  PROVE  CurrentTabsAgree'
<1> SUFFICES ASSUME NEW j \in AllKeys, NEW u \in current'[j]
             PROVE  Shown(u, j)' = stored'[j]
  BY DEF CurrentTabsAgree
<1>1. DOMAIN stored = AllKeys /\ current \in [AllKeys -> SUBSET Tabs]
  BY DEF Typed, StorageTyped
<1>2. current' \in [AllKeys -> SUBSET Tabs]  BY Saved DEF StorageTyped
<1>3. u \in Tabs  BY <1>2
<1>4. CASE j # k
  <2>1. stored'[j] = stored[j] /\ current'[j] = current[j]
    BY <1>1, <1>4 DEF saveToStorage
  <2>2. Shown(u, j)' = Shown(u, j)  BY <1>3, <1>4
  <2> QED BY <2>1, <2>2 DEF CurrentTabsAgree
<1>5. CASE j = k /\ stored' = [stored EXCEPT ![k] = data] /\ current' = [current EXCEPT ![k] = {t}]
  <2>1. stored'[j] = data /\ u = t  BY <1>1, <1>5
  <2> QED BY <1>5, <2>1
<1>6. CASE j = k /\ stored' = stored /\ current' = [current EXCEPT ![k] = current[k] \ {t}]
  <2>1. u # t /\ u \in current[j]  BY <1>1, <1>6
  <2>2. Shown(u, j)' = Shown(u, j)  BY <1>3, <2>1
  <2> QED BY <1>6, <2>1, <2>2 DEF CurrentTabsAgree
<1> QED BY <1>4, <1>5, <1>6 DEF saveToStorage

LEMMA AgreeAfterEdit ==
  ASSUME Typed, CurrentTabsAgree, NEW t \in Tabs, Edit(t)
  PROVE  CurrentTabsAgree'
<1>1. DOMAIN demands = Tabs /\ DOMAIN offers = Tabs /\ DOMAIN orders = Tabs
  BY DEF Typed, DemandsTyped, OffersTyped, OrdersTyped
<1>2. ASSUME NEW data, demands' = [demands EXCEPT ![t] = data],
             saveToStorage(t, "demands", data), UNCHANGED <<mode, offers, orders>>
      PROVE  CurrentTabsAgree'
  <2>1. "demands" \in AllKeys  BY DEF AllKeys, ListKeys
  <2>2. Shown(t, "demands")' = data  BY <1>1, <1>2, ShownByKeyNext
  <2>3. \A u \in Tabs, j \in AllKeys : u # t => Shown(u, j)' = Shown(u, j)
    BY <1>1, <1>2, ShownByKey, ShownByKeyNext DEF AllKeys, ListKeys
  <2>4. \A j \in AllKeys : j # "demands" => Shown(t, j)' = Shown(t, j)
    BY <1>1, <1>2, ShownByKey, ShownByKeyNext DEF AllKeys, ListKeys
  <2> QED BY <1>2, <2>1, <2>2, <2>3, <2>4, SavedAgrees
<1>3. ASSUME NEW data, offers' = [offers EXCEPT ![t] = data],
             saveToStorage(t, "offers", data), UNCHANGED <<mode, demands, orders>>
      PROVE  CurrentTabsAgree'
  <2>1. "offers" \in AllKeys  BY DEF AllKeys, ListKeys
  <2>2. Shown(t, "offers")' = data  BY <1>1, <1>3, ShownByKeyNext
  <2>3. \A u \in Tabs, j \in AllKeys : u # t => Shown(u, j)' = Shown(u, j)
    BY <1>1, <1>3, ShownByKey, ShownByKeyNext DEF AllKeys, ListKeys
  <2>4. \A j \in AllKeys : j # "offers" => Shown(t, j)' = Shown(t, j)
    BY <1>1, <1>3, ShownByKey, ShownByKeyNext DEF AllKeys, ListKeys
  <2> QED BY <1>3, <2>1, <2>2, <2>3, <2>4, SavedAgrees
<1>4. ASSUME NEW data, orders' = [orders EXCEPT ![t] = data],
             saveToStorage(t, "orders", data), UNCHANGED <<mode, demands, offers>>
      PROVE  CurrentTabsAgree'
  <2>1. "orders" \in AllKeys  BY DEF AllKeys, ListKeys
  <2>2. Shown(t, "orders")' = data  BY <1>1, <1>4, ShownByKeyNext
  <2>3. \A u \in Tabs, j \in AllKeys : u # t => Shown(u, j)' = Shown(u, j)
    BY <1>1, <1>4, ShownByKey, ShownByKeyNext DEF AllKeys, ListKeys
  <2>4. \A j \in AllKeys : j # "orders" => Shown(t, j)' = Shown(t, j)
    BY <1>1, <1>4, ShownByKey, ShownByKeyNext DEF AllKeys, ListKeys
  <2> QED BY <1>4, <2>1, <2>2, <2>3, <2>4, SavedAgrees
<1>5. ASSUME NEW form \in DemandForms, CreateDemand(t, form)
      PROVE  CurrentTabsAgree'
  BY <1>2, <1>5 DEF CreateDemand
<1>6. ASSUME NEW d, CloseDemand(t, d)
      PROVE  CurrentTabsAgree'
  BY <1>2, <1>6 DEF CloseDemand
<1>7. ASSUME NEW form \in OfferForms, CreateOffer(t, form)
      PROVE  CurrentTabsAgree'
  BY <1>3, <1>7 DEF CreateOffer
<1>8. ASSUME NEW o, WithdrawOffer(t, o)
      PROVE  CurrentTabsAgree'
  BY <1>3, <1>8 DEF WithdrawOffer
<1>9. ASSUME SubmitUpdate(t)
      PROVE  CurrentTabsAgree'
  BY <1>4, <1>9 DEF SubmitUpdate
<1>10. ASSUME NEW o, CreateGrievance(t, o)
       PROVE  CurrentTabsAgree'
  <2>1. UNCHANGED <<mode, demands, offers, orders, stored, current>>
    BY <1>10 DEF CreateGrievance
  <2>2. \A u, j : Shown(u, j)' = Shown(u, j)  BY <2>1 DEF Shown
  <2> QED BY <2>1, <2>2 DEF CurrentTabsAgree
<1> QED BY <1>5, <1>6, <1>7, <1>8, <1>9, <1>10 DEF Edit

LEMMA AgreeAfterBrowsing ==
  ASSUME Typed, CurrentTabsAgree, NEW t \in Tabs, Browse(t)
  PROVE  CurrentTabsAgree'
<1>1. ASSUME NEW on \in BOOLEAN, SetDemoMode(t, on)
      PROVE  CurrentTabsAgree'
  <2>1. DOMAIN mode = Tabs  BY DEF Typed, ModesTyped
  <2>2. /\ mode' = [mode EXCEPT ![t] = on]
        /\ saveToStorage(t, "mode", on)
        /\ UNCHANGED <<demands, offers, orders>>
    BY <1>1 DEF SetDemoMode, lists
  <2>3. "mode" \in AllKeys  BY DEF AllKeys
  <2>4. Shown(t, "mode")' = on  BY <2>1, <2>2, ShownByKeyNext
  <2>5. \A u \in Tabs, j \in AllKeys : u # t => Shown(u, j)' = Shown(u, j)
    BY <2>1, <2>2, ShownByKey, ShownByKeyNext DEF AllKeys, ListKeys
  <2>6. \A j \in AllKeys : j # "mode" => Shown(t, j)' = Shown(t, j)
    BY <2>1, <2>2, ShownByKey, ShownByKeyNext DEF AllKeys, ListKeys
  <2> QED BY <2>2, <2>3, <2>4, <2>5, <2>6, SavedAgrees
<1>2. ASSUME UNCHANGED <<mode, lists, stored, current>>
      PROVE  CurrentTabsAgree'
  <2>1. \A u, j : Shown(u, j)' = Shown(u, j)  BY <1>2 DEF Shown, lists
  <2> QED BY <1>2, <2>1 DEF CurrentTabsAgree
<1> QED BY <1>1, <1>2 DEF Browse, SwitchRole, OpenOrder, PickTarget

LEMMA AgreeAfterLoad ==
  ASSUME Typed, CurrentTabsAgree, NEW t \in Tabs, LoadTab(t)
  PROVE  CurrentTabsAgree'
<1> SUFFICES ASSUME NEW j \in AllKeys, NEW u \in current'[j]
             PROVE  Shown(u, j)' = stored'[j]
  BY DEF CurrentTabsAgree
<1>1. /\ DOMAIN mode = Tabs /\ DOMAIN demands = Tabs /\ DOMAIN offers = Tabs
      /\ DOMAIN orders = Tabs
      /\ current \in [AllKeys -> SUBSET Tabs]
  BY DEF Typed, ModesTyped, DemandsTyped, OffersTyped, OrdersTyped, StorageTyped
<1>2. stored' = stored /\ current'[j] = current[j] \union {t}  BY DEF LoadTab
<1>3. CASE u = t
  <2>1. /\ mode'[t] = stored["mode"]
        /\ demands'[t] = stored["demands"]
        /\ offers'[t] = stored["offers"]
        /\ orders'[t] = stored["orders"]
    BY <1>1 DEF LoadTab
  <2> QED BY <1>2, <1>3, <2>1, ShownByKeyNext DEF AllKeys, ListKeys
<1>4. CASE u # t
  <2>1. u \in current[j]  BY <1>2, <1>4
  <2>2. /\ mode'[u] = mode[u] /\ demands'[u] = demands[u]
        /\ offers'[u] = offers[u] /\ orders'[u] = orders[u]
    BY <1>1, <1>4, <2>1 DEF LoadTab
  <2>3. Shown(u, j)' = Shown(u, j)  BY <2>2, ShownByKey, ShownByKeyNext DEF AllKeys, ListKeys
  <2> QED BY <1>2, <2>1, <2>3 DEF CurrentTabsAgree
<1> QED BY <1>3, <1>4

LEMMA AgreeAfterReset ==
  ASSUME Typed, CurrentTabsAgree, NEW t \in Tabs, ResetDemoData(t)
  PROVE  CurrentTabsAgree'
<1> SUFFICES ASSUME NEW j \in AllKeys, NEW u \in current'[j]
             PROVE  Shown(u, j)' = stored'[j]
  BY DEF CurrentTabsAgree
<1>1. DOMAIN demands = Tabs /\ DOMAIN offers = Tabs /\ DOMAIN orders = Tabs
  BY DEF Typed, DemandsTyped, OffersTyped, OrdersTyped
<1>0. PICK removed \in Removals :
        /\ stored' = [k \in AllKeys |-> IF k \in removed THEN Seed(k) ELSE stored[k]]
        /\ current' = [k \in AllKeys |-> IF k \in removed THEN {t}
                                         ELSE IF k \in ListKeys THEN current[k] \ {t}
                                         ELSE current[k]]
  BY DEF ResetDemoData
\* A key that was removed: the tab that reset shows the seed.
<1>2. CASE j \in removed
  <2>1. j \in ListKeys  BY <1>2, RemovedKeys
  <2>2. u = t /\ stored'[j] = Seed(j)  BY <1>0, <1>2
  <2>3. /\ demands'[t] = SeedDemands /\ offers'[t] = SeedOffers /\ orders'[t] = SeedOrders
    BY <1>1, <2>2, <1>2, <1>0 DEF ResetDemoData, Typed, StorageTyped
  <2> QED BY <2>1, <2>2, <2>3, SeedByKey, ShownByKeyNext DEF ListKeys
\* One that was not: the other tabs show what they did.
<1>3. CASE j \in ListKeys /\ j \notin removed
  <2>1. u # t /\ u \in current[j] /\ stored'[j] = stored[j]  BY <1>0, <1>3
  <2>2. /\ demands'[u] = demands[u] /\ offers'[u] = offers[u] /\ orders'[u] = orders[u]
    BY <1>1, <2>1 DEF ResetDemoData, Typed, StorageTyped
  <2>3. Shown(u, j)' = Shown(u, j)  BY <1>3, <2>2, ShownByKey, ShownByKeyNext DEF ListKeys
  <2> QED BY <2>1, <2>3 DEF CurrentTabsAgree
<1>4. CASE j = "mode"
  <2>1. j \notin removed /\ j \notin ListKeys  BY <1>4, RemovedKeys DEF ListKeys
  <2>2. u \in current[j] /\ stored'[j] = stored[j]  BY <1>0, <2>1
  <2>3. mode' = mode  BY DEF ResetDemoData
  <2> QED BY <1>4, <2>2, <2>3, ShownByKey, ShownByKeyNext DEF CurrentTabsAgree
<1> QED BY <1>2, <1>3, <1>4 DEF AllKeys

\* For any number of tabs and any seed: a tab that has loaded or saved a list
\* since it was last written shows it as a reload would, also when some saves
\* fail.
THEOREM CurrentAgree == Spec => []CurrentTabsAgree
<1>1. Init => Typed /\ CurrentTabsAgree
  <2>1. ASSUME Init, NEW j \in AllKeys, NEW t \in Tabs
        PROVE  Shown(t, j) = Seed(j)
    BY <2>1 DEF Init, Shown, Seed
  <2>2. Init => \A j \in AllKeys : stored[j] = Seed(j) /\ current[j] = Tabs  BY DEF Init
  <2> QED BY <2>1, <2>2, TypesAtFirst, TypedParts DEF CurrentTabsAgree
<1>2. Typed /\ CurrentTabsAgree /\ [Next]_vars => Typed' /\ CurrentTabsAgree'
  <2> SUFFICES ASSUME Typed, CurrentTabsAgree, [Next]_vars PROVE CurrentTabsAgree'
    BY TypesKept
  <2>1. CASE UNCHANGED vars
    <3>1. \A u, j : Shown(u, j)' = Shown(u, j)  BY <2>1 DEF Shown, vars, lists
    <3> QED BY <2>1, <3>1 DEF CurrentTabsAgree, vars
  <2> QED BY <2>1, AgreeAfterEdit, AgreeAfterBrowsing, AgreeAfterLoad, AgreeAfterReset DEF Next
<1> QED BY <1>1, <1>2, PTL DEF Spec

-----------------------------------------------------------------------------
(***************************************************************************)
(* What was posted is sound.                                               *)
(***************************************************************************)

\* What the storage holds comes back into the tabs.
PostedInv ==
  /\ PostedRowsAreSound
  /\ SoundOffers(stored["offers"])
  /\ SoundDemands(stored["demands"])

LEMMA SeedIsSound == SoundOffers(SeedOffers) /\ SoundDemands(SeedDemands)
<1>1. Epoch \in Nat  BY BuyerConstants
<1>2. \A i \in DOMAIN SeedOffers : ~ (i >= Epoch)  BY <1>1, BuyerSeed
<1>3. \A i \in DOMAIN SeedDemands : ~ (i >= Epoch)  BY <1>1, BuyerSeed
<1> QED BY <1>2, <1>3 DEF SoundOffers, SoundDemands

LEMMA QuarterSteps ==
  ASSUME NEW price \in Int, (price - 1) % 25 = 0
  PROVE  price % 25 = 1
OBVIOUS

LEMMA OfferStaysSound ==
  ASSUME NEW rows, NEW id, NEW s, rows \in [DOMAIN rows -> Offer], SoundOffers(rows)
  PROVE  SoundOffers(WithStatus(rows, id, s))
<1> DEFINE list == WithStatus(rows, id, s)
<1>1. DOMAIN list = DOMAIN rows  BY ChangedRow
<1>2. \A i \in DOMAIN rows : /\ list[i].qty = rows[i].qty
                             /\ list[i].listing = rows[i].listing
                             /\ list[i].price = rows[i].price
  BY OfferFields
<1> HIDE DEF list
<1>3. SoundOffers(list)  BY <1>1, <1>2 DEF SoundOffers
<1> QED BY <1>3 DEF list

LEMMA DemandStaysSound ==
  ASSUME NEW rows, NEW id, NEW s, rows \in [DOMAIN rows -> BuyerDemand], SoundDemands(rows)
  PROVE  SoundDemands(WithStatus(rows, id, s))
<1> DEFINE list == WithStatus(rows, id, s)
<1>1. DOMAIN list = DOMAIN rows  BY ChangedRow
<1>2. \A i \in DOMAIN rows : /\ list[i].min = rows[i].min
                             /\ list[i].max = rows[i].max
                             /\ list[i].price = rows[i].price
  BY DemandFields
<1> HIDE DEF list
<1>3. SoundDemands(list)  BY <1>1, <1>2 DEF SoundDemands
<1> QED BY <1>3 DEF list

LEMMA AddedOfferSound ==
  ASSUME Typed, NEW t \in Tabs, SoundOffers(offers[t]), NEW row \in Offer,
         1 <= row.qty, row.qty <= SeedListings[row.listing].available,
         row.price > 0, row.price % 25 = 1
  PROVE  SoundOffers(Added(offers[t], row))
<1> DEFINE list == Added(offers[t], row)
<1>1. Within(offers[t], Offer) /\ clock \in Nat  BY DEF Typed, OffersTyped
<1>2. /\ DOMAIN list = DOMAIN offers[t] \union {Epoch + clock}
      /\ list[Epoch + clock] = row
  BY AddedRows
<1>3. \A i \in DOMAIN offers[t] : list[i] = offers[t][i]  BY <1>1, OlderRow
<1> HIDE DEF list
<1>4. SoundOffers(list)  BY <1>2, <1>3 DEF SoundOffers
<1> QED BY <1>4 DEF list

LEMMA AddedDemandSound ==
  ASSUME Typed, NEW t \in Tabs, SoundDemands(demands[t]), NEW row \in BuyerDemand,
         0 <= row.min, row.min <= row.max, row.price >= 0
  PROVE  SoundDemands(Added(demands[t], row))
<1> DEFINE list == Added(demands[t], row)
<1>1. Within(demands[t], BuyerDemand) /\ clock \in Nat  BY DEF Typed, DemandsTyped
<1>2. /\ DOMAIN list = DOMAIN demands[t] \union {Epoch + clock}
      /\ list[Epoch + clock] = row
  BY AddedRows
<1>3. \A i \in DOMAIN demands[t] : list[i] = demands[t][i]  BY <1>1, OlderRow
<1> HIDE DEF list
<1>4. SoundDemands(list)  BY <1>2, <1>3 DEF SoundDemands
<1> QED BY <1>4 DEF list

\* What passes the browser's checks and the form's is sound when it is added.
LEMMA NewOfferSound ==
  ASSUME Typed, NEW t \in Tabs, NEW form \in OfferForms, SoundOffers(offers[t]),
         BrowserAccepts(form)
  PROVE  SoundOffers(Added(offers[t],
           [status |-> "PENDING", version |-> 1, listing |-> form.listing,
            qty |-> form.qty, price |-> form.price, order |-> {}]))
<1> DEFINE row == [status |-> "PENDING", version |-> 1, listing |-> form.listing,
                   qty |-> form.qty, price |-> form.price, order |-> {}]
<1>1. row \in Offer  BY NewOfferTyped
<1>2. form.listing \in DOMAIN SeedListings /\ form.qty \in Int /\ form.price \in Int
  BY BuyerConstants
<1>3. SeedListings[form.listing].available \in Nat  BY <1>2, BuyerSeed DEF ProduceListing
<1>4. /\ 1 <= row.qty
      /\ row.qty <= SeedListings[row.listing].available
      /\ row.price > 0
      /\ row.price % 25 = 1
  BY <1>2, <1>3, QuarterSteps DEF BrowserAccepts, Available
<1> HIDE DEF row
<1>5. SoundOffers(Added(offers[t], row))  BY <1>1, <1>4, AddedOfferSound
<1> QED BY <1>5 DEF row

LEMMA NewDemandSound ==
  ASSUME Typed, NEW t \in Tabs, NEW form \in DemandForms, SoundDemands(demands[t]),
         ~ DemandError(form)
  PROVE  SoundDemands(Added(demands[t],
           [status |-> "ACTIVE", version |-> 1, by |-> role[t], crop |-> form.crop,
            min |-> toFixed(form.min), max |-> toFixed(form.max), price |-> toFixed(form.price)]))
<1> DEFINE row == [status |-> "ACTIVE", version |-> 1, by |-> role[t],
                   crop |-> form.crop, min |-> toFixed(form.min),
                   max |-> toFixed(form.max), price |-> toFixed(form.price)]
<1>1. row \in BuyerDemand  BY NewDemandTyped DEF Typed, ModesTyped
<1>2. form.min \in Int /\ form.max \in Int /\ form.price \in Int  BY BuyerConstants
<1>3. 0 < form.min /\ form.min <= form.max /\ form.price > 0  BY <1>2 DEF DemandError
<1>4. 0 <= row.min /\ row.min <= row.max /\ row.price >= 0
  <2>1. 0 <= toFixed(form.min) /\ toFixed(form.min) <= toFixed(form.max)
    BY <1>2, <1>3, Rounding
  <2>2. 0 <= toFixed(form.price)  BY <1>2, <1>3, Rounding
  <2> QED BY <2>1, <2>2
<1> HIDE DEF row
<1>5. SoundDemands(Added(demands[t], row))  BY <1>1, <1>4, AddedDemandSound
<1> QED BY <1>5 DEF row

LEMMA SavedOffersSound ==
  ASSUME Typed, PostedInv, NEW t \in Tabs, NEW data, SoundOffers(data),
         offers' = [offers EXCEPT ![t] = data], saveToStorage(t, "offers", data),
         UNCHANGED demands
  PROVE  PostedInv'
<1>1. DOMAIN offers = Tabs  BY DEF Typed, OffersTyped
<1>2. \A u \in Tabs : offers'[u] = data \/ offers'[u] = offers[u]  BY <1>1
<1>3. /\ stored'["offers"] = data \/ stored'["offers"] = stored["offers"]
      /\ stored'["demands"] = stored["demands"]
  BY Saved DEF AllKeys, ListKeys
<1> QED BY <1>2, <1>3 DEF PostedInv, PostedRowsAreSound, SoundOffers, SoundDemands

LEMMA SavedDemandsSound ==
  ASSUME Typed, PostedInv, NEW t \in Tabs, NEW data, SoundDemands(data),
         demands' = [demands EXCEPT ![t] = data], saveToStorage(t, "demands", data),
         UNCHANGED offers
  PROVE  PostedInv'
<1>1. DOMAIN demands = Tabs  BY DEF Typed, DemandsTyped
<1>2. \A u \in Tabs : demands'[u] = data \/ demands'[u] = demands[u]  BY <1>1
<1>3. /\ stored'["demands"] = data \/ stored'["demands"] = stored["demands"]
      /\ stored'["offers"] = stored["offers"]
  BY Saved DEF AllKeys, ListKeys
<1> QED BY <1>2, <1>3 DEF PostedInv, PostedRowsAreSound, SoundOffers, SoundDemands

\* Steps that touch neither list, in the tabs and in the storage.
LEMMA OtherStepsSound ==
  ASSUME PostedInv, UNCHANGED <<demands, offers>>,
         stored'["demands"] = stored["demands"], stored'["offers"] = stored["offers"]
  PROVE  PostedInv'
BY DEF PostedInv, PostedRowsAreSound, SoundOffers, SoundDemands

LEMMA PostedKept == Typed /\ PostedInv /\ [Next]_vars => PostedInv'
<1> SUFFICES ASSUME Typed, PostedInv, [Next]_vars PROVE PostedInv'  OBVIOUS
<1>0. \A t \in Tabs : /\ offers[t] \in [DOMAIN offers[t] -> Offer] /\ SoundOffers(offers[t])
                      /\ demands[t] \in [DOMAIN demands[t] -> BuyerDemand]
                      /\ SoundDemands(demands[t])
  BY DEF Typed, OffersTyped, DemandsTyped, Within, PostedInv, PostedRowsAreSound
<1>1. ASSUME NEW t \in Tabs, NEW form \in DemandForms, CreateDemand(t, form)
      PROVE  PostedInv'
  <2> DEFINE row == [status |-> "ACTIVE", version |-> 1, by |-> role[t],
                     crop |-> form.crop, min |-> toFixed(form.min),
                     max |-> toFixed(form.max), price |-> toFixed(form.price)]
             list == Added(demands[t], row)
  <2>1. SoundDemands(list)  BY <1>0, <1>1, NewDemandSound DEF CreateDemand
  <2>2. /\ demands' = [demands EXCEPT ![t] = list]
        /\ saveToStorage(t, "demands", list)
        /\ UNCHANGED offers
    BY <1>1 DEF CreateDemand
  <2> HIDE DEF list
  <2> QED BY <2>1, <2>2, SavedDemandsSound
<1>2. ASSUME NEW t \in Tabs, NEW d, CloseDemand(t, d)
      PROVE  PostedInv'
  <2>1. SoundDemands(WithStatus(demands[t], d, "CANCELLED"))  BY <1>0, DemandStaysSound
  <2> QED BY <1>2, <2>1, SavedDemandsSound DEF CloseDemand, ClosedDemands
<1>3. ASSUME NEW t \in Tabs, NEW form \in OfferForms, CreateOffer(t, form)
      PROVE  PostedInv'
  <2> DEFINE row == [status |-> "PENDING", version |-> 1, listing |-> form.listing,
                     qty |-> form.qty, price |-> form.price, order |-> {}]
             list == Added(offers[t], row)
  <2>1. SoundOffers(list)  BY <1>0, <1>3, NewOfferSound DEF CreateOffer
  <2>2. /\ offers' = [offers EXCEPT ![t] = list]
        /\ saveToStorage(t, "offers", list)
        /\ UNCHANGED demands
    BY <1>3 DEF CreateOffer
  <2> HIDE DEF list
  <2> QED BY <2>1, <2>2, SavedOffersSound
<1>4. ASSUME NEW t \in Tabs, NEW o, WithdrawOffer(t, o)
      PROVE  PostedInv'
  <2>1. SoundOffers(WithStatus(offers[t], o, "WITHDRAWN"))  BY <1>0, OfferStaysSound
  <2> QED BY <1>4, <2>1, SavedOffersSound DEF WithdrawOffer
<1>5. ASSUME NEW t \in Tabs, SubmitUpdate(t)
      PROVE  PostedInv'
  <2> DEFINE list == WithStatus(orders[t], OrderAt(t, page[t].order), page[t].target)
  <2>1. saveToStorage(t, "orders", list) /\ UNCHANGED <<demands, offers>>
    BY <1>5 DEF SubmitUpdate
  <2> HIDE DEF list
  <2>2. stored'["demands"] = stored["demands"] /\ stored'["offers"] = stored["offers"]
    BY <2>1, Saved DEF AllKeys, ListKeys
  <2> QED BY <2>1, <2>2, OtherStepsSound
<1>6. ASSUME NEW t \in Tabs, NEW on \in BOOLEAN, SetDemoMode(t, on)
      PROVE  PostedInv'
  <2>1. saveToStorage(t, "mode", on) /\ UNCHANGED <<demands, offers>>
    BY <1>6 DEF SetDemoMode, lists
  <2>2. stored'["demands"] = stored["demands"] /\ stored'["offers"] = stored["offers"]
    BY <2>1, Saved DEF AllKeys, ListKeys
  <2> QED BY <2>1, <2>2, OtherStepsSound
<1>7. ASSUME UNCHANGED <<demands, offers, stored>>
      PROVE  PostedInv'
  BY <1>7, OtherStepsSound
<1>8. ASSUME NEW t \in Tabs, LoadTab(t)
      PROVE  PostedInv'
  <2>1. DOMAIN offers = Tabs /\ DOMAIN demands = Tabs  BY DEF Typed, OffersTyped, DemandsTyped
  <2>2. stored' = stored  BY <1>8 DEF LoadTab
  <2>3. \A u \in Tabs : /\ offers'[u] = stored["offers"] \/ offers'[u] = offers[u]
                        /\ demands'[u] = stored["demands"] \/ demands'[u] = demands[u]
    BY <1>8, <2>1 DEF LoadTab
  <2> QED BY <2>2, <2>3 DEF PostedInv, PostedRowsAreSound, SoundOffers, SoundDemands
<1>9. ASSUME NEW t \in Tabs, ResetDemoData(t)
      PROVE  PostedInv'
  <2>1. DOMAIN offers = Tabs /\ DOMAIN demands = Tabs  BY DEF Typed, OffersTyped, DemandsTyped
  <2>2. /\ stored'["offers"] \in {SeedOffers, stored["offers"]}
        /\ stored'["demands"] \in {SeedDemands, stored["demands"]}
    BY <1>9, SeedByKey DEF ResetDemoData, AllKeys, ListKeys
  <2>3. \A u \in Tabs : /\ offers'[u] = SeedOffers \/ offers'[u] = offers[u]
                        /\ demands'[u] = SeedDemands \/ demands'[u] = demands[u]
    BY <1>9, <2>1 DEF ResetDemoData
  <2> QED BY <2>2, <2>3, SeedIsSound DEF PostedInv, PostedRowsAreSound, SoundOffers, SoundDemands
<1>10. ASSUME NEW t \in Tabs, Edit(t)
       PROVE  PostedInv'
  BY <1>1, <1>2, <1>3, <1>4, <1>5, <1>7, <1>10 DEF Edit, CreateGrievance
<1>11. ASSUME NEW t \in Tabs, Browse(t)
       PROVE  PostedInv'
  BY <1>6, <1>7, <1>11 DEF Browse, SwitchRole, OpenOrder, PickTarget, lists
<1> QED BY <1>7, <1>8, <1>9, <1>10, <1>11 DEF Next, vars, lists

\* Whatever listings there are and whatever is typed, an offer posted in any tab
\* asks for a positive part of what its listing has left at a positive price,
\* one paisa above a multiple of a quarter rupee, and a demand is for a range of
\* weights that is in order and for no negative price; either may be rounded to
\* nothing.
THEOREM PostedSound == Spec => []PostedRowsAreSound
<1>1. Init => Typed /\ PostedInv
  <2> SUFFICES ASSUME Init PROVE PostedInv  BY TypesAtFirst, TypedParts
  <2>1. stored["offers"] = SeedOffers /\ stored["demands"] = SeedDemands
    BY SeedByKey DEF Init, AllKeys, ListKeys
  <2>2. \A t \in Tabs : offers[t] = SeedOffers /\ demands[t] = SeedDemands  BY DEF Init
  <2> QED BY <2>1, <2>2, SeedIsSound DEF PostedInv, PostedRowsAreSound
<1>2. Typed /\ PostedInv /\ [Next]_vars => Typed' /\ PostedInv'  BY TypesKept, PostedKept
<1>3. PostedInv => PostedRowsAreSound  BY DEF PostedInv
<1> QED BY <1>1, <1>2, <1>3, PTL DEF Spec

-----------------------------------------------------------------------------
(***************************************************************************)
(* What is finished stays.                                                 *)
(***************************************************************************)

RowsStay(k, old, new) ==
  \A i \in DOMAIN old : /\ i \in DOMAIN new
                        /\ Finished(k, old[i]) => new[i] = old[i]

LEMMA SameStays ==
  ASSUME NEW k, NEW rows
  PROVE  RowsStay(k, rows, rows)
BY DEF RowsStay

LEMMA AddedStays ==
  ASSUME NEW S, NEW k, NEW rows, NEW row, clock \in Nat, Within(rows, S)
  PROVE  RowsStay(k, rows, Added(rows, row))
<1> DEFINE list == Added(rows, row)
<1>1. DOMAIN list = DOMAIN rows \union {Epoch + clock}  BY AddedRows
<1>2. \A i \in DOMAIN rows : list[i] = rows[i]  BY OlderRow
<1> HIDE DEF list
<1>3. RowsStay(k, rows, list)  BY <1>1, <1>2 DEF RowsStay
<1> QED BY <1>3 DEF list

LEMMA ChangedStays ==
  ASSUME NEW k, NEW rows, NEW id, NEW s, ~ Finished(k, rows[id])
  PROVE  RowsStay(k, rows, WithStatus(rows, id, s))
<1> DEFINE list == WithStatus(rows, id, s)
<1>1. DOMAIN list = DOMAIN rows  BY ChangedRow
<1>2. \A i \in DOMAIN rows : i # id => list[i] = rows[i]  BY OtherRow
<1> HIDE DEF list
<1>3. RowsStay(k, rows, list)  BY <1>1, <1>2 DEF RowsStay
<1> QED BY <1>3 DEF list

\* No button or dialog changes a finished row.
LEMMA ButtonsOfFinished ==
  ASSUME NEW row
  PROVE  /\ CloseButton(row) => ~ Finished("demands", row)
         /\ WithdrawButton(row) => ~ Finished("offers", row)
         /\ ~ IsTerminal(row.status) /\ AllowedStatuses(row.status) # {}
              => ~ Finished("orders", row)
<1>1. CloseButton(row) => ~ Finished("demands", row)  BY DEF CloseButton, Finished
<1>2. WithdrawButton(row) => ~ Finished("offers", row)  BY DEF WithdrawButton, Finished
<1>3. ASSUME ~ IsTerminal(row.status), AllowedStatuses(row.status) # {}
      PROVE  ~ Finished("orders", row)
  <2>1. AllowedStatuses("DISPUTED") = {}  BY DEF AllowedStatuses
  <2>2. row.status # "DISPUTED"  BY <1>3, <2>1
  <2> QED BY <1>3, <2>2 DEF IsTerminal, Finished
<1> QED BY <1>1, <1>2, <1>3

\* One list of the acting tab is edited.
LEMMA EditsStay ==
  ASSUME Typed, NEW t \in Tabs, Edit(t)
  PROVE  /\ RowsStay("demands", demands[t], demands'[t])
         /\ RowsStay("offers", offers[t], offers'[t])
         /\ RowsStay("orders", orders[t], orders'[t])
         /\ \A u \in Tabs : u # t =>
              /\ demands'[u] = demands[u] /\ offers'[u] = offers[u]
              /\ orders'[u] = orders[u]
<1> DEFINE Goal == /\ RowsStay("demands", demands[t], demands'[t])
                   /\ RowsStay("offers", offers[t], offers'[t])
                   /\ RowsStay("orders", orders[t], orders'[t])
                   /\ \A u \in Tabs : u # t =>
                        /\ demands'[u] = demands[u] /\ offers'[u] = offers[u]
                        /\ orders'[u] = orders[u]
<1>1. /\ DOMAIN demands = Tabs /\ DOMAIN offers = Tabs /\ DOMAIN orders = Tabs
      /\ Within(demands[t], BuyerDemand) /\ Within(offers[t], Offer)
      /\ clock \in Nat
  BY DEF Typed, DemandsTyped, OffersTyped, OrdersTyped
<1>2. ASSUME NEW data, demands' = [demands EXCEPT ![t] = data],
             RowsStay("demands", demands[t], data), UNCHANGED <<offers, orders>>
      PROVE  Goal
  BY <1>1, <1>2, SameStays
<1>3. ASSUME NEW data, offers' = [offers EXCEPT ![t] = data],
             RowsStay("offers", offers[t], data), UNCHANGED <<demands, orders>>
      PROVE  Goal
  BY <1>1, <1>3, SameStays
<1>4. ASSUME NEW data, orders' = [orders EXCEPT ![t] = data],
             RowsStay("orders", orders[t], data), UNCHANGED <<demands, offers>>
      PROVE  Goal
  BY <1>1, <1>4, SameStays
<1>5. ASSUME NEW form \in DemandForms, CreateDemand(t, form)
      PROVE  Goal
  <2> DEFINE list == Added(demands[t],
                       [status |-> "ACTIVE", version |-> 1, by |-> role[t],
                        crop |-> form.crop, min |-> toFixed(form.min),
                        max |-> toFixed(form.max), price |-> toFixed(form.price)])
  <2>1. RowsStay("demands", demands[t], list)  BY <1>1, AddedStays
  <2>2. demands' = [demands EXCEPT ![t] = list] /\ UNCHANGED <<offers, orders>>
    BY <1>5 DEF CreateDemand
  <2> HIDE DEF list, Goal
  <2> QED BY <1>2, <2>1, <2>2
<1>6. ASSUME NEW form \in OfferForms, CreateOffer(t, form)
      PROVE  Goal
  <2> DEFINE list == Added(offers[t],
                       [status |-> "PENDING", version |-> 1, listing |-> form.listing,
                        qty |-> form.qty, price |-> form.price, order |-> {}])
  <2>1. RowsStay("offers", offers[t], list)  BY <1>1, AddedStays
  <2>2. offers' = [offers EXCEPT ![t] = list] /\ UNCHANGED <<demands, orders>>
    BY <1>6 DEF CreateOffer
  <2> HIDE DEF list, Goal
  <2> QED BY <1>3, <2>1, <2>2
<1>7. ASSUME NEW d, CloseDemand(t, d)
      PROVE  Goal
  <2> DEFINE list == WithStatus(demands[t], d, "CANCELLED")
  <2>1. RowsStay("demands", demands[t], list)
    BY <1>7, ButtonsOfFinished, ChangedStays DEF CloseDemand
  <2>2. demands' = [demands EXCEPT ![t] = list] /\ UNCHANGED <<offers, orders>>
    BY <1>7 DEF CloseDemand, ClosedDemands
  <2> HIDE DEF list, Goal
  <2> QED BY <1>2, <2>1, <2>2
<1>8. ASSUME NEW o, WithdrawOffer(t, o)
      PROVE  Goal
  <2> DEFINE list == WithStatus(offers[t], o, "WITHDRAWN")
  <2>1. RowsStay("offers", offers[t], list)
    BY <1>8, ButtonsOfFinished, ChangedStays DEF WithdrawOffer
  <2>2. offers' = [offers EXCEPT ![t] = list] /\ UNCHANGED <<demands, orders>>
    BY <1>8 DEF WithdrawOffer
  <2> HIDE DEF list, Goal
  <2> QED BY <1>3, <2>1, <2>2
<1>9. ASSUME SubmitUpdate(t)
      PROVE  Goal
  <2> DEFINE id == OrderAt(t, page[t].order)
             list == WithStatus(orders[t], id, page[t].target)
  <2>1. ~ IsTerminal(orders[t][id].status) /\ AllowedStatuses(orders[t][id].status) # {}
    BY <1>9 DEF SubmitUpdate, StatusAt
  <2>2. orders' = [orders EXCEPT ![t] = list] /\ UNCHANGED <<demands, offers>>
    BY <1>9 DEF SubmitUpdate
  <2> HIDE DEF id
  <2>3. RowsStay("orders", orders[t], list)  BY <2>1, ButtonsOfFinished, ChangedStays
  <2> HIDE DEF list, Goal
  <2> QED BY <1>4, <2>2, <2>3
<1>10. ASSUME NEW o, CreateGrievance(t, o)
       PROVE  Goal
  BY <1>10, SameStays DEF CreateGrievance
<1> HIDE DEF Goal
<1>11. Goal  BY <1>5, <1>6, <1>7, <1>8, <1>9, <1>10 DEF Edit
<1> QED BY <1>11 DEF Goal

\* Whatever the operations of the context would do to it, a finished row of any
\* tab changes only when the tab is loaded or reset, and no row is lost.
THEOREM FinishedStay == Spec => FinishedRowsStay
<1> DEFINE Stay(t, k) ==
             \/ \A i \in DOMAIN Shown(t, k) :
                  /\ i \in DOMAIN Shown(t, k)'
                  /\ Finished(k, Shown(t, k)[i]) => Shown(t, k)'[i] = Shown(t, k)[i]
             \/ LoadTab(t)
             \/ ResetDemoData(t)
           Kept == \A t \in Tabs : \A k \in ListKeys : Stay(t, k)
<1>1. Typed /\ [Next]_vars => [Kept]_vars
  <2> SUFFICES ASSUME Typed, Next, NEW t \in Tabs, NEW k \in ListKeys
               PROVE  Stay(t, k)
    OBVIOUS
  <2>1. ASSUME RowsStay("demands", demands[t], demands'[t]),
               RowsStay("offers", offers[t], offers'[t]),
               RowsStay("orders", orders[t], orders'[t])
        PROVE  Stay(t, k)
    BY <2>1, ShownByKey, ShownByKeyNext DEF RowsStay, ListKeys
  <2>2. ASSUME demands'[t] = demands[t], offers'[t] = offers[t], orders'[t] = orders[t]
        PROVE  Stay(t, k)
    BY <2>1, <2>2, SameStays
  <2>3. DOMAIN demands = Tabs /\ DOMAIN offers = Tabs /\ DOMAIN orders = Tabs
    BY DEF Typed, DemandsTyped, OffersTyped, OrdersTyped
  <2>4. PICK u \in Tabs : Edit(u) \/ Browse(u) \/ ResetDemoData(u) \/ LoadTab(u)
    BY DEF Next
  <2>5. CASE Edit(u)
    <3>1. CASE u = t  BY <2>1, <2>5, <3>1, EditsStay
    <3>2. CASE u # t  BY <2>2, <2>5, <3>2, EditsStay
    <3> QED BY <3>1, <3>2
  <2>6. CASE Browse(u)
    <3>1. UNCHANGED <<demands, offers, orders>>
      BY <2>6 DEF Browse, SetDemoMode, SwitchRole, OpenOrder, PickTarget, lists
    <3> QED BY <2>2, <3>1
  <2>7. CASE ResetDemoData(u)
    <3>1. u # t => demands'[t] = demands[t] /\ offers'[t] = offers[t] /\ orders'[t] = orders[t]
      BY <2>3, <2>7 DEF ResetDemoData
    <3> QED BY <2>2, <2>7, <3>1
  <2>8. CASE LoadTab(u)
    <3>1. u # t => demands'[t] = demands[t] /\ offers'[t] = offers[t] /\ orders'[t] = orders[t]
      BY <2>3, <2>8 DEF LoadTab
    <3> QED BY <2>2, <2>8, <3>1
  <2> QED BY <2>4, <2>5, <2>6, <2>7, <2>8
<1>2. Spec => []Typed
  <2>1. Init => Typed  BY TypesAtFirst, TypedParts
  <2>2. Typed /\ [Next]_vars => Typed'  BY TypesKept
  <2> QED BY <2>1, <2>2, PTL DEF Spec
<1>3. FinishedRowsStay <=> [][Kept]_vars  BY DEF FinishedRowsStay
<1> HIDE DEF Kept
<1> QED BY <1>1, <1>2, <1>3, PTL DEF Spec

-----------------------------------------------------------------------------
(***************************************************************************)
(* The pages, computed apart, agree.                                       *)
(***************************************************************************)

\* Outside of the demo no order page is open.
PagesInDemo == \A t \in Tabs : page[t] # None => mode[t]

\* No order page is open at first, and none is opened or stays open outside.
LEMMA PagesInDemoKept ==
  /\ Init => PagesInDemo
  /\ Typed /\ PagesInDemo /\ [Next]_vars => PagesInDemo'
<1>1. Init => PagesInDemo  BY DEF Init, PagesInDemo
<1> SUFFICES ASSUME Typed, PagesInDemo, [Next]_vars PROVE PagesInDemo'  BY <1>1
<1>2. DOMAIN page = Tabs /\ DOMAIN mode = Tabs  BY DEF Typed, PagesTyped, ModesTyped
<1>3. ASSUME NEW t \in Tabs, Edit(t)
      PROVE  PagesInDemo'
  <2>1. mode' = mode /\ (LeavesOrderPage(t) \/ page' = page)
    BY <1>3 DEF Edit, CreateDemand, CloseDemand, CreateOffer, WithdrawOffer, SubmitUpdate,
                CreateGrievance
  <2> QED BY <1>2, <2>1 DEF PagesInDemo, LeavesOrderPage
<1>4. ASSUME NEW t \in Tabs, NEW on \in BOOLEAN, SetDemoMode(t, on)
      PROVE  PagesInDemo'
  BY <1>2, <1>4 DEF SetDemoMode, LeavesOrderPage, PagesInDemo
<1>5. ASSUME NEW t \in Tabs, NEW id, OpenOrder(t, id)
      PROVE  PagesInDemo'
  BY <1>2, <1>5 DEF OpenOrder, PagesInDemo
<1>6. ASSUME NEW t \in Tabs, NEW s, PickTarget(t, s)
      PROVE  PagesInDemo'
  BY <1>2, <1>6 DEF PickTarget, PagesInDemo
<1>7. ASSUME NEW t \in Tabs, LoadTab(t)
      PROVE  PagesInDemo'
  BY <1>2, <1>7 DEF LoadTab, PagesInDemo
<1>8. ASSUME NEW t \in Tabs, ResetDemoData(t)
      PROVE  PagesInDemo'
  BY <1>8 DEF ResetDemoData, PagesInDemo
<1>9. ASSUME NEW t \in Tabs, NEW r \in Role, SwitchRole(t, r)
      PROVE  PagesInDemo'
  BY <1>9 DEF SwitchRole, PagesInDemo
<1>10. CASE UNCHANGED vars
  BY <1>10 DEF vars, PagesInDemo
<1> QED BY <1>3, <1>4, <1>5, <1>6, <1>7, <1>8, <1>9, <1>10 DEF Next, Browse

\* What the timeline, the badges and the list make of a status.
LEMMA TimelineByStatus ==
  ASSUME NEW s \in OrderStatus
  PROVE  /\ OrderTimeline(s) = None <=> s \in {"DISPUTED", "CANCELLED"}
         /\ OnItsWay(s) <=> s \in {"CONFIRMED", "PICKUP_SCHEDULED", "IN_TRANSIT"}
<1>1. /\ DOMAIN Steps = 1 .. 5 /\ Len(Steps) = 5
      /\ Steps[1] = "CONFIRMED" /\ Steps[2] = "PICKUP_SCHEDULED" /\ Steps[3] = "IN_TRANSIT"
      /\ Steps[4] = "DELIVERED" /\ Steps[5] = "COMPLETED"
  BY DEF Steps
<1> DEFINE done == {i \in DOMAIN Steps : \E n \in i .. Len(Steps) : Steps[n] = s}
<1>2. done # None
  BY NoneIsNothing
<1>3. OrderTimeline(s) = IF s \in {"DISPUTED", "CANCELLED"} THEN None ELSE done
  BY DEF OrderTimeline
<1>4. done \subseteq 1 .. 3 <=> s \notin {"DELIVERED", "COMPLETED"}
  <2>1. \A n \in 1 .. 5 : n \in {4, 5} <=> n \notin 1 .. 3  OBVIOUS
  <2>2. CASE s = "DELIVERED"
    <3>1. 4 \in done  BY <1>1, <2>2
    <3> QED BY <2>2, <3>1
  <2>3. CASE s = "COMPLETED"
    <3>1. 5 \in done  BY <1>1, <2>3
    <3> QED BY <2>3, <3>1
  <2>4. CASE s \notin {"DELIVERED", "COMPLETED"}
    <3>1. \A n \in 1 .. 5 : Steps[n] = s => n \in 1 .. 3
      <4>1. \A n \in 1 .. 5 : n \in 1 .. 3 \/ n = 4 \/ n = 5  OBVIOUS
      <4> QED BY <1>1, <2>4, <4>1
    <3>2. \A i \in 1 .. 5, n \in 1 .. 3 : n \in i .. 5 => i \in 1 .. 3  OBVIOUS
    <3>3. \A i \in done : i \in 1 .. 3  BY <1>1, <3>1, <3>2
    <3> QED BY <2>4, <3>3
  <2> QED BY <2>2, <2>3, <2>4
<1> HIDE DEF done
<1> QED BY <1>2, <1>3, <1>4 DEF OnItsWay, OrderStatus

\* The money in a set of orders is a sum over it.
Gross(rows, S) == MapThenSumSet(LAMBDA o : rows[o].gross, S)

LEMMA GrossIsTotal ==
  ASSUME NEW rows, NEW S, IsFiniteSet(S)
  PROVE  Gross(rows, S) = Total([o \in DOMAIN rows \union S |-> rows[o].gross], S)
<1> DEFINE w == [o \in DOMAIN rows \union S |-> rows[o].gross]
           Table(g) == g = [T \in SUBSET S |->
                              IF T = {} THEN 0
                              ELSE rows[Choice(T)].gross + g[T \ {Choice(T)}]]
           sum == CHOOSE g : Table(g)
<1>1. Gross(rows, S) = sum[S]
  BY DEF Gross, MapThenSumSet, MapThenFoldSet, Choice
<1>2. \A T \in SUBSET S : T # {} => w[Choice(T)] = rows[Choice(T)].gross
  BY Chosen
<1>3. ASSUME NEW g
      PROVE  Table(g) <=> Adds(g, w, S)
  <2> HIDE DEF w
  <2> QED BY <1>2 DEF Adds
<1>4. Table(Partial(w, S))  BY <1>3, TablesExist
<1>5. Table(sum)
  <2> HIDE DEF Table
  <2> QED BY <1>4
<1>6. Adds(sum, w, S)  BY <1>3, <1>5
<1>7. sum[S] = Total(w, S)
  <2> HIDE DEF sum, w
  <2> QED BY <1>6, TotalIsUnique
<1> QED BY <1>1, <1>7

\* The orders of a tab are finitely many, and their money is in numbers.
LEMMA OrdersOfTab ==
  ASSUME Typed, NEW t \in Tabs
  PROVE  /\ DOMAIN orders[t] = DOMAIN SeedOrders /\ IsFiniteSet(DOMAIN orders[t])
         /\ \A o \in DOMAIN orders[t] : orders[t][o] \in Order
<1>1. orders[t] \in [DOMAIN SeedOrders -> Order]  BY DEF Typed, OrdersTyped
<1>2. IsFiniteSet(0 .. Epoch - 1)  BY FS_Interval, BuyerConstants
<1>3. IsFiniteSet(DOMAIN SeedOrders)  BY <1>2, BuyerSeed, FS_Subset
<1> QED BY <1>1, <1>3

\* What is procured and what is cancelled make up all that was ordered.
LEMMA MoneyAddsUp ==
  ASSUME Typed, NEW t \in Tabs
  PROVE  Dashboard(t).procured
           + Gross(orders[t], {o \in DOMAIN orders[t] : orders[t][o].status = "CANCELLED"})
           = Gross(orders[t], DOMAIN orders[t])
<1> DEFINE D == DOMAIN orders[t]
           P == {o \in D : orders[t][o].status # "CANCELLED"}
           C == {o \in D : orders[t][o].status = "CANCELLED"}
           w == [o \in D |-> orders[t][o].gross]
<1>1. Dashboard(t).procured = Gross(orders[t], P)  BY DEF Dashboard, Gross
<1>2. IsFiniteSet(D) /\ IsFiniteSet(P) /\ IsFiniteSet(C) /\ P \in SUBSET D /\ C = D \ P
  BY OrdersOfTab, FS_Subset
<1>3. Weighed(w, D)  BY OrdersOfTab DEF Weighed, Order
<1>4. D \union P = D /\ D \union C = D /\ D \union D = D  OBVIOUS
<1>5. /\ Gross(orders[t], P) = Total(w, P)
      /\ Gross(orders[t], C) = Total(w, C)
      /\ Gross(orders[t], D) = Total(w, D)
  BY <1>2, <1>4, GrossIsTotal
<1>6. Total(w, P) + Total(w, C) = Total(w, D)
  <2> HIDE DEF w, P, C, D
  <2> QED BY <1>2, <1>3, TotalOfParts
<1> QED BY <1>1, <1>5, <1>6

\* Offers, orders and demands of a tab, as the pages count them.
LEMMA CountsAgree ==
  ASSUME Typed, NEW t \in Tabs
  PROVE  /\ Dashboard(t).demands = Count(DemandsPage(t), LAMBDA row : row.close)
         /\ Dashboard(t).offers = Count(OffersPage(t), LAMBDA row : row.withdraw)
         /\ Dashboard(t).deliveries =
              Cardinality({o \in DOMAIN orders[t] : OnItsWay(orders[t][o].status)})
         /\ Sidebar(t).confirmed <= Dashboard(t).deliveries
         /\ Sidebar(t).listings = Cardinality(Marketplace(None))
<1>1. Dashboard(t).demands = Count(DemandsPage(t), LAMBDA row : row.close)
  <2>1. Dashboard(t).demands =
          Cardinality({i \in DOMAIN demands[t] : demands[t][i].status = "ACTIVE"})
    BY DEF Dashboard, Count
  <2>2. Count(DemandsPage(t), LAMBDA row : row.close) =
          Cardinality({i \in DOMAIN DemandsPage(t) : DemandsPage(t)[i].close})
    BY DEF Count
  <2>3. {i \in DOMAIN DemandsPage(t) : DemandsPage(t)[i].close} =
        {i \in DOMAIN demands[t] : demands[t][i].status = "ACTIVE"}
    BY DEF DemandsPage, CloseButton
  <2> QED BY <2>1, <2>2, <2>3
<1>2. Dashboard(t).offers = Count(OffersPage(t), LAMBDA row : row.withdraw)
  <2>1. Dashboard(t).offers =
          Cardinality({i \in DOMAIN offers[t] : offers[t][i].status = "PENDING"})
    BY DEF Dashboard, Count
  <2>2. Count(OffersPage(t), LAMBDA row : row.withdraw) =
          Cardinality({i \in DOMAIN OffersPage(t) : OffersPage(t)[i].withdraw})
    BY DEF Count
  <2>3. {i \in DOMAIN OffersPage(t) : OffersPage(t)[i].withdraw} =
        {i \in DOMAIN offers[t] : offers[t][i].status = "PENDING"}
    BY DEF OffersPage, WithdrawButton
  <2> QED BY <2>1, <2>2, <2>3
<1> DEFINE moving == {o \in DOMAIN orders[t] :
                        orders[t][o].status \in {"CONFIRMED", "PICKUP_SCHEDULED", "IN_TRANSIT"}}
           confirmed == {o \in DOMAIN orders[t] : orders[t][o].status = "CONFIRMED"}
<1>3. Dashboard(t).deliveries = Cardinality(moving)  BY DEF Dashboard, Count
<1>4. \A o \in DOMAIN orders[t] : orders[t][o].status \in OrderStatus
  BY OrdersOfTab DEF Order
<1>5. moving = {o \in DOMAIN orders[t] : OnItsWay(orders[t][o].status)}
  BY <1>4, TimelineByStatus
<1>6. Sidebar(t).confirmed = Cardinality(confirmed)  BY DEF Sidebar, Count
<1>7. Cardinality(confirmed) <= Cardinality(moving)
  <2>1. IsFiniteSet(moving) /\ confirmed \subseteq moving  BY OrdersOfTab, FS_Subset
  <2> HIDE DEF confirmed, moving
  <2> QED BY <2>1, FS_Subset
<1>8. Sidebar(t).listings = Cardinality(Marketplace(None))
  BY DEF Sidebar, Count, Marketplace
<1> QED BY <1>1, <1>2, <1>3, <1>5, <1>6, <1>7, <1>8

\* The rows of the pages.
LEMMA RowsAgree ==
  ASSUME Typed, NEW t \in Tabs
  PROVE  /\ \A o \in DOMAIN orders[t] :
              /\ (OrdersPage(t)[o] = "danger") = (OrderTimeline(orders[t][o].status) = None)
              /\ OnItsWay(orders[t][o].status) =>
                   FulfilmentBadge(orders[t][o].status) = "warning"
         /\ \A o \in DOMAIN offers[t] :
              OffersPage(t)[o].link => \A id \in offers[t][o].order : OrderAt(t, id) = id
         /\ \A d \in DOMAIN demands[t] :
              DemandsPage(t)[d].matching = Marketplace(demands[t][d].crop)
<1>1. ASSUME NEW o \in DOMAIN orders[t]
      PROVE  /\ (OrdersPage(t)[o] = "danger") = (OrderTimeline(orders[t][o].status) = None)
             /\ OnItsWay(orders[t][o].status) =>
                  FulfilmentBadge(orders[t][o].status) = "warning"
  <2> DEFINE s == orders[t][o].status
  <2>1. s \in OrderStatus  BY OrdersOfTab DEF Order
  <2>2. /\ OrderTimeline(s) = None <=> s \in {"DISPUTED", "CANCELLED"}
        /\ OnItsWay(s) <=> s \in {"CONFIRMED", "PICKUP_SCHEDULED", "IN_TRANSIT"}
    BY <2>1, TimelineByStatus
  <2>3. OrdersPage(t)[o] =
          CASE s \in {"COMPLETED", "DELIVERED"}         -> "success"
            [] s \in {"IN_TRANSIT", "PICKUP_SCHEDULED"} -> "warning"
            [] s \in {"DISPUTED", "CANCELLED"}          -> "danger"
            [] OTHER                                    -> "info"
    BY DEF OrdersPage
  <2> HIDE DEF s
  <2>4. OrdersPage(t)[o] = "danger" <=> s \in {"DISPUTED", "CANCELLED"}
    BY <2>1, <2>3 DEF OrderStatus
  <2>5. s \in {"CONFIRMED", "PICKUP_SCHEDULED", "IN_TRANSIT"} => FulfilmentBadge(s) = "warning"
    BY DEF FulfilmentBadge
  <2> QED BY <2>2, <2>4, <2>5 DEF s
<1>2. ASSUME NEW o \in DOMAIN offers[t], NEW id \in offers[t][o].order
      PROVE  OrderAt(t, id) = id
  <2>1. offers[t][o] \in Offer  BY DEF Typed, OffersTyped, Within
  <2>2. id \in DOMAIN orders[t]  BY <2>1, OrdersOfTab DEF Offer
  <2> QED BY <2>2 DEF OrderAt
<1>3. ASSUME NEW d \in DOMAIN demands[t]
      PROVE  DemandsPage(t)[d].matching = Marketplace(demands[t][d].crop)
  <2>1. demands[t][d] \in BuyerDemand  BY DEF Typed, DemandsTyped, Within
  <2>2. demands[t][d].crop # None  BY <2>1, NoneIsNothing DEF BuyerDemand
  <2>3. DemandsPage(t)[d].matching =
          {l \in DOMAIN SeedListings :
             SeedListings[l].crop = demands[t][d].crop /\ SeedListings[l].status = "ACTIVE"}
    BY DEF DemandsPage
  <2> QED BY <2>2, <2>3 DEF Marketplace
<1> QED BY <1>1, <1>2, <1>3

\* In every tab, and after any mix of edits, loads and resets in any number of
\* tabs, the counts, totals, buttons, badges, links and timelines of the pages
\* fit together.
THEOREM PagesTellOneStory == Spec => []PagesAgree
<1>1. Typed /\ PagesInDemo => PagesAgree
  BY MoneyAddsUp, CountsAgree, RowsAgree DEF PagesAgree, PagesInDemo, Gross
<1>2. Init => Typed  BY TypesAtFirst, TypedParts
<1> QED BY <1>1, <1>2, TypesKept, PagesInDemoKept, PTL DEF Spec
=============================================================================
