--------------------------- MODULE BuyerWorkspace ---------------------------
(***************************************************************************)
(* The buyer's workspace, src/apps/buyer-web, as one person uses it in     *)
(* several tabs of a browser.                                              *)
(*                                                                         *)
(* Each tab keeps the demands, offers, orders and grievances it shows in   *)
(* its own memory.  An edit maps the tab's list to a new one, shows it and *)
(* saves it whole under one key of localStorage.  A tab reads the storage  *)
(* once, when it is loaded: it does not hear of the other tabs' edits.     *)
(*                                                                         *)
(* Rows are numbered: those of the seed below Epoch, and a row created     *)
(* later by the time of its creation.  Weights of listings and offers are  *)
(* in kilograms, those of demands in grams, and money is in paise.         *)
(***************************************************************************)
EXTENDS Integers, FiniteSets

CONSTANTS
  Tabs,
  None,
  DemoByDefault,   \* NEXT_PUBLIC_DEMO_MODE === "true"
  Epoch,           \* what Date.now() can first return
  SeedListings, SeedDemands, SeedOffers, SeedOrders, SeedGrievances,
  FirstOrder,      \* the order that heads the list
  Addresses,       \* the order ids a tab may be sent to, whether they exist or not
  DemandForms,     \* what is typed into the form of a demand, before any check,
                   \* in tenths of a gram and of a paisa
  OfferForms,      \* and into that of an offer
  Removals,        \* the keys a reset comes to remove before the storage fails
  MaxEdits         \* bounds those changes

OfferStatus     == {"PENDING", "ACCEPTED", "WITHDRAWN"}
DemandStatus    == {"ACTIVE", "CANCELLED"}
OrderStatus     == {"CONFIRMED", "PICKUP_SCHEDULED", "IN_TRANSIT", "DELIVERED",
                    "COMPLETED", "CANCELLED", "DISPUTED"}
GrievanceStatus == {"OPEN", "RESOLVED"}
Role            == {"BUYER", "FPO"}
Crop            == {"Tomato", "Onion", "Potato", "Soybean", "Wheat", "Pomegranate"}

ProduceListing ==
  [crop : Crop, status : {"ACTIVE"}, quantity : Nat, available : Nat]
BuyerDemand ==
  [status : DemandStatus, version : Nat, by : Role, crop : Crop,
   min : Int, max : Int, price : Int]
Offer ==
  [status : OfferStatus, version : Nat, listing : DOMAIN SeedListings,
   qty : Int, price : Int, order : SUBSET DOMAIN SeedOrders]
Order     == [status : OrderStatus, version : Nat, gross : Nat]
Grievance == [status : GrievanceStatus, by : Role, order : DOMAIN SeedOrders]

ASSUME BuyerConstants ==
  /\ DemoByDefault \in BOOLEAN
  /\ Epoch \in Nat
  /\ Removals \subseteq {{}, {"demands"}, {"demands", "offers"},
                        {"demands", "offers", "orders"}}
  /\ MaxEdits \in Nat
  /\ DemandForms \subseteq [crop : Crop, min : Int, max : Int, price : Int]
  /\ OfferForms \subseteq [listing : DOMAIN SeedListings, qty : Int, price : Int]
  /\ FirstOrder \in DOMAIN SeedOrders

\* What the seed is made of.
ASSUME BuyerSeed ==
  /\ \A l \in DOMAIN SeedListings : SeedListings[l] \in ProduceListing
  /\ DOMAIN SeedDemands \subseteq 0 .. Epoch - 1
  /\ DOMAIN SeedOffers \subseteq 0 .. Epoch - 1
  /\ DOMAIN SeedOrders \subseteq 0 .. Epoch - 1
  /\ DOMAIN SeedGrievances \subseteq 0 .. Epoch - 1
  /\ SeedDemands \in [DOMAIN SeedDemands -> BuyerDemand]
  /\ SeedOffers \in [DOMAIN SeedOffers -> Offer]
  /\ SeedOrders \in [DOMAIN SeedOrders -> Order]
  /\ SeedGrievances \in [DOMAIN SeedGrievances -> Grievance]

VARIABLES
  mode,        \* by tab: isDemoMode
  role,        \* by tab: the previewed role
  demands, offers, orders, grievances,   \* by tab: the lists it shows
  page,        \* by tab: None, or its order page: the id of its address and
               \* the status its dialog would move the order to
  stored,      \* localStorage, by key; an absent key stands for the seed
  current,     \* by key: the tabs that have loaded or saved what is stored
  clock        \* Date.now(), ticking with every change a person makes

lists == <<demands, offers, orders, grievances>>
vars  == <<mode, role, lists, page, stored, current, clock>>

ListKeys == {"demands", "offers", "orders"}
AllKeys  == {"mode"} \union ListKeys

-----------------------------------------------------------------------------
(***************************************************************************)
(* The rules of the forms and buttons.                                     *)
(***************************************************************************)

\* The status that a switch over the current one offers in the dialog.
AllowedStatuses(s) ==
  CASE s = "CONFIRMED"        -> {"PICKUP_SCHEDULED", "CANCELLED", "DISPUTED"}
    [] s = "PICKUP_SCHEDULED" -> {"IN_TRANSIT", "CANCELLED", "DISPUTED"}
    [] s = "IN_TRANSIT"       -> {"DELIVERED", "DISPUTED"}
    [] s = "DELIVERED"        -> {"COMPLETED", "DISPUTED"}
    [] OTHER                  -> {}

IsTerminal(s) == s \in {"COMPLETED", "CANCELLED"}

\* Broken: accepted offers keep their button.
WithdrawButtonAlways(row) == row.status # "WITHDRAWN"

WithdrawButton(row) == row.status = "PENDING"

ViewOrderLink(row)  == row.status = "ACCEPTED" /\ row.order # {}

CloseButton(row)    == row.status = "ACTIVE"

\* Broken: the whole lot instead of what is left of it.
AvailableWhole(l) == SeedListings[l].quantity

Available(l) == SeedListings[l].available

\* A field with a step counts it from its minimum: 1 kg from 1, and 25 paise
\* from 1 paisa.
BrowserAccepts(form) ==
  /\ form.qty \in 1 .. Available(form.listing)
  /\ form.price >= 1
  /\ (form.price - 1) % 25 = 0

OfferError(form) ==
  \/ form.qty <= 0
  \/ Available(form.listing) > 0 /\ form.qty > Available(form.listing)
  \/ form.price <= 0

\* All there is between the fields and the check: they have no minimum, and a
\* field without one counts its step from the value it was left with.
DemandError(form) ==
  \/ form.min <= 0
  \/ form.max < form.min
  \/ form.price <= 0

\* toFixed(3) of kilograms and toFixed(2) of rupees, after the check.  A half is
\* rounded up (in binary fractions it may go either way).
toFixed(tenths) == (tenths + 5) \div 10

-----------------------------------------------------------------------------
(***************************************************************************)
(* Saving and loading.  The storage may refuse.                            *)
(***************************************************************************)

\* What a tab starts with that finds nothing saved.
Seed(k) ==
  CASE k = "mode"    -> DemoByDefault
    [] k = "demands" -> SeedDemands
    [] k = "offers"  -> SeedOffers
    [] k = "orders"  -> SeedOrders

Shown(t, k) ==
  CASE k = "mode"    -> mode[t]
    [] k = "demands" -> demands[t]
    [] k = "offers"  -> offers[t]
    [] k = "orders"  -> orders[t]

\* Errors of the storage are swallowed: the tab then shows what is not saved.
saveToStorage(t, k, data) ==
  \/ /\ stored' = [stored EXCEPT ![k] = data]
     /\ current' = [current EXCEPT ![k] = {t}]
  \/ /\ stored' = stored
     /\ current' = [current EXCEPT ![k] = current[k] \ {t}]

\* The tab is on another page: the order page and its dialog are unmounted.
LeavesOrderPage(t) == page' = [page EXCEPT ![t] = None]

Tick == clock < MaxEdits /\ clock' = clock + 1

Added(rows, row) ==
  [i \in DOMAIN rows \union {Epoch + clock} |->
     IF i = Epoch + clock THEN row ELSE rows[i]]

WithStatus(rows, id, s) ==
  [i \in DOMAIN rows |->
     IF i = id THEN [rows[i] EXCEPT !.status = s, !.version = rows[i].version + 1]
     ELSE rows[i]]

Init ==
  /\ mode       = [t \in Tabs |-> DemoByDefault]
  /\ role       = [t \in Tabs |-> "BUYER"]
  /\ demands    = [t \in Tabs |-> SeedDemands]
  /\ offers     = [t \in Tabs |-> SeedOffers]
  /\ orders     = [t \in Tabs |-> SeedOrders]
  /\ grievances = [t \in Tabs |-> SeedGrievances]
  /\ page       = [t \in Tabs |-> None]
  /\ stored     = [k \in AllKeys |-> Seed(k)]
  /\ current    = [k \in AllKeys |-> Tabs]
  /\ clock      = 0

\* A tab is loaded, for the first time or again.  (One that may not read the
\* storage shows the seed and is current in nothing.)
LoadTab(t) ==
  /\ mode'       = [mode EXCEPT ![t] = stored["mode"]]
  /\ role'       = [role EXCEPT ![t] = "BUYER"]
  /\ demands'    = [demands EXCEPT ![t] = stored["demands"]]
  /\ offers'     = [offers EXCEPT ![t] = stored["offers"]]
  /\ orders'     = [orders EXCEPT ![t] = stored["orders"]]
  /\ grievances' = [grievances EXCEPT ![t] = SeedGrievances]
  /\ page'       = [page EXCEPT ![t] = None]
  /\ current'    = [k \in AllKeys |-> current[k] \union {t}]
  /\ UNCHANGED <<stored, clock>>

\* Entering or leaving the demo.  Outside of it no page is shown.
SetDemoMode(t, on) ==
  /\ mode[t] # on
  /\ mode' = [mode EXCEPT ![t] = on]
  /\ Tick
  /\ LeavesOrderPage(t)
  /\ saveToStorage(t, "mode", on)
  /\ UNCHANGED <<role, lists>>

SwitchRole(t, r) ==
  /\ mode[t]
  /\ role[t] # r
  /\ Tick
  /\ role' = [role EXCEPT ![t] = r]
  /\ UNCHANGED <<mode, lists, page, stored, current>>

\* "Reset Demo Scenario" in the banner: the mode stays saved.  The tab shows
\* the seed even if the storage fails before every key is removed.
ResetDemoData(t) ==
  /\ mode[t]
  /\ demands'    = [demands EXCEPT ![t] = SeedDemands]
  /\ offers'     = [offers EXCEPT ![t] = SeedOffers]
  /\ orders'     = [orders EXCEPT ![t] = SeedOrders]
  /\ grievances' = [grievances EXCEPT ![t] = SeedGrievances]
  /\ \E removed \in Removals :
       /\ stored'  = [k \in AllKeys |-> IF k \in removed THEN Seed(k) ELSE stored[k]]
       /\ current' = [k \in AllKeys |-> IF k \in removed THEN {t}
                                       ELSE IF k \in ListKeys THEN current[k] \ {t}
                                       ELSE current[k]]
  /\ UNCHANGED <<mode, role, page, clock>>

-----------------------------------------------------------------------------
(***************************************************************************)
(* The demands and offers.                                                 *)
(***************************************************************************)

CreateDemand(t, form) ==
  /\ mode[t]
  /\ ~ DemandError(form)
  /\ Tick
  /\ LeavesOrderPage(t)
  /\ LET row == [status |-> "ACTIVE", version |-> 1, by |-> role[t],
                 crop |-> form.crop, min |-> toFixed(form.min),
                 max |-> toFixed(form.max), price |-> toFixed(form.price)]
     IN  /\ demands' = [demands EXCEPT ![t] = Added(demands[t], row)]
         /\ saveToStorage(t, "demands", Added(demands[t], row))
  /\ UNCHANGED <<mode, role, offers, orders, grievances>>

ClosedDemands(rows, d) == WithStatus(rows, d, "CANCELLED")

CloseDemand(t, d) ==
  /\ mode[t]
  /\ CloseButton(demands[t][d])
  /\ Tick
  /\ LeavesOrderPage(t)
  /\ demands' = [demands EXCEPT ![t] = ClosedDemands(demands[t], d)]
  /\ saveToStorage(t, "demands", ClosedDemands(demands[t], d))
  /\ UNCHANGED <<mode, role, offers, orders, grievances>>

CreateOffer(t, form) ==
  /\ mode[t]
  /\ BrowserAccepts(form)
  /\ ~ OfferError(form)
  /\ Tick
  /\ LeavesOrderPage(t)
  /\ LET row == [status |-> "PENDING", version |-> 1, listing |-> form.listing,
                 qty |-> form.qty, price |-> form.price, order |-> {}]
     IN  /\ offers' = [offers EXCEPT ![t] = Added(offers[t], row)]
         /\ saveToStorage(t, "offers", Added(offers[t], row))
  /\ UNCHANGED <<mode, role, demands, orders, grievances>>

\* Broken: the list is saved as it was before.
WithdrawOfferUnsaved(t, o) ==
  /\ mode[t]
  /\ WithdrawButton(offers[t][o])
  /\ Tick
  /\ LeavesOrderPage(t)
  /\ offers' = [offers EXCEPT ![t] = WithStatus(offers[t], o, "WITHDRAWN")]
  /\ saveToStorage(t, "offers", offers[t])
  /\ UNCHANGED <<mode, role, demands, orders, grievances>>

WithdrawOffer(t, o) ==
  /\ mode[t]
  /\ WithdrawButton(offers[t][o])
  /\ Tick
  /\ LeavesOrderPage(t)
  /\ offers' = [offers EXCEPT ![t] = WithStatus(offers[t], o, "WITHDRAWN")]
  /\ saveToStorage(t, "offers", WithStatus(offers[t], o, "WITHDRAWN"))
  /\ UNCHANGED <<mode, role, demands, orders, grievances>>

-----------------------------------------------------------------------------
(***************************************************************************)
(* The orders and grievances.                                              *)
(***************************************************************************)

\* The order a page shows: the first of the list when its address is unknown.
OrderAt(t, id) == IF id \in DOMAIN orders[t] THEN id ELSE FirstOrder

StatusAt(t) == orders[t][OrderAt(t, page[t].order)].status

\* A page is mounted with a new dialog: useState<OrderStatus>("IN_TRANSIT").
OpenOrder(t, id) ==
  /\ mode[t]
  /\ page' = [page EXCEPT ![t] = [order |-> id, target |-> "IN_TRANSIT"]]
  /\ UNCHANGED <<mode, role, lists, stored, current, clock>>

\* The dialog stays mounted: what was picked in it outlives a cancelled or a
\* submitted move.
PickTarget(t, s) ==
  /\ page[t] # None
  /\ ~ IsTerminal(StatusAt(t))
  /\ s \in AllowedStatuses(StatusAt(t))
  /\ page' = [page EXCEPT ![t] = [order |-> page[t].order, target |-> s]]
  /\ UNCHANGED <<mode, role, lists, stored, current, clock>>

\* A select without options fails the browser's "required"; one whose value is
\* not among its options shows the first of them and submits the value.
SubmitUpdate(t) ==
  /\ page[t] # None
  /\ ~ IsTerminal(StatusAt(t))
  /\ AllowedStatuses(StatusAt(t)) # {}
  /\ Tick
  /\ LET moved == WithStatus(orders[t], OrderAt(t, page[t].order), page[t].target)
     IN  /\ orders' = [orders EXCEPT ![t] = moved]
         /\ saveToStorage(t, "orders", moved)
  /\ UNCHANGED <<mode, role, demands, offers, grievances, page>>

\* A grievance is not saved.
CreateGrievance(t, o) ==
  /\ mode[t]
  /\ Tick
  /\ LeavesOrderPage(t)
  /\ grievances' = [grievances EXCEPT ![t] =
                      Added(@, [status |-> "OPEN", by |-> role[t], order |-> o])]
  /\ UNCHANGED <<mode, role, demands, offers, orders, stored, current>>

-----------------------------------------------------------------------------
Edit(t) ==
  \/ \E form \in DemandForms : CreateDemand(t, form)
  \/ \E d \in DOMAIN demands[t] : CloseDemand(t, d)
  \/ \E form \in OfferForms : CreateOffer(t, form)
  \/ \E o \in DOMAIN offers[t] : WithdrawOffer(t, o)
  \/ SubmitUpdate(t)
  \/ \E o \in DOMAIN orders[t] : CreateGrievance(t, o)

Browse(t) ==
  \/ \E on \in BOOLEAN : SetDemoMode(t, on)
  \/ \E r \in Role : SwitchRole(t, r)
  \/ \E id \in Addresses : OpenOrder(t, id)
  \/ \E s \in OrderStatus : PickTarget(t, s)

Next ==
  \E t \in Tabs : Edit(t) \/ Browse(t) \/ ResetDemoData(t) \/ LoadTab(t)

Spec == Init /\ [][Next]_vars

-----------------------------------------------------------------------------
(***************************************************************************)
(* Properties.                                                             *)
(***************************************************************************)

Within(rows, S) ==
  /\ DOMAIN rows \subseteq 0 .. Epoch + clock - 1
  /\ rows \in [DOMAIN rows -> S]

\* Every list, shown or saved, has rows of its kind, created by now; the
\* orders are those of the seed.
BuyerTypeOK ==
  /\ clock \in 0 .. MaxEdits
  /\ mode \in [Tabs -> BOOLEAN]
  /\ role \in [Tabs -> Role]
  /\ DOMAIN page = Tabs
  /\ DOMAIN demands = Tabs /\ DOMAIN offers = Tabs
  /\ DOMAIN orders = Tabs /\ DOMAIN grievances = Tabs
  /\ \A t \in Tabs :
       /\ page[t] = None \/ page[t] \in [order : Addresses, target : OrderStatus]
       /\ Within(demands[t], BuyerDemand)
       /\ Within(offers[t], Offer)
       /\ orders[t] \in [DOMAIN SeedOrders -> Order]
       /\ Within(grievances[t], Grievance)
  /\ DOMAIN stored = AllKeys
  /\ current \in [AllKeys -> SUBSET Tabs]
  /\ stored["mode"] \in BOOLEAN
  /\ Within(stored["demands"], BuyerDemand)
  /\ Within(stored["offers"], Offer)
  /\ stored["orders"] \in [DOMAIN SeedOrders -> Order]

\* A tab that has loaded or saved a list since it was last written, by
\* whichever tab, shows it as a reload would: nothing a person sees there
\* changes by reloading, although the other tabs may still show, and later
\* save, older lists (DemoContext.tsx:59-91).
CurrentTabsAgree ==
  \A k \in AllKeys : \A t \in current[k] : Shown(t, k) = stored[k]

Finished(k, row) ==
  CASE k = "demands" -> row.status = "CANCELLED"
    [] k = "offers"  -> row.status \in {"ACCEPTED", "WITHDRAWN"}
    [] k = "orders"  -> row.status \in {"COMPLETED", "CANCELLED", "DISPUTED"}

\* The operations of the context change a row whatever its status; the
\* buttons and dialogs must keep them from the rows that are finished.  So in
\* one tab a finished row changes only when the tab is loaded or reset, and
\* no row disappears otherwise (DemoContext.tsx:110-178).
FinishedRowsStay ==
  [][\A t \in Tabs : \A k \in ListKeys :
       \/ \A i \in DOMAIN Shown(t, k) :
            /\ i \in DOMAIN Shown(t, k)'
            /\ Finished(k, Shown(t, k)[i]) => Shown(t, k)'[i] = Shown(t, k)[i]
       \/ LoadTab(t)
       \/ ResetDemoData(t)]_vars

SoundOffers(list) ==
  \A i \in DOMAIN list : i >= Epoch =>
    /\ 1 <= list[i].qty
    /\ list[i].qty <= SeedListings[list[i].listing].available
    /\ list[i].price > 0
    /\ list[i].price % 25 = 1

SoundDemands(list) ==
  \A i \in DOMAIN list : i >= Epoch =>
    /\ 0 <= list[i].min
    /\ list[i].min <= list[i].max
    /\ list[i].price >= 0

\* Whatever was typed, and in whichever tab: an offer asks for a positive part
\* of what its listing has left at a positive price, one paisa above a multiple
\* of a quarter rupee; a demand is for a range of weights that is in order, and
\* for no negative price.  It need not be for a positive one: less than half a
\* gram or half a paisa passes the check and is then rounded to nothing
\* (MakeOfferModal.tsx:40-49, 89-115; demands/new/page.tsx:41-60).
PostedRowsAreSound ==
  \A t \in Tabs : SoundOffers(offers[t]) /\ SoundDemands(demands[t])
=============================================================================
