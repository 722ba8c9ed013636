-------------------------- MODULE AdminConsole_proofs --------------------------
(***************************************************************************)
(* What holds of the administrators' console for any servers, whatever is  *)
(* typed into its settings and however many loads are in flight.           *)
(***************************************************************************)
EXTENDS AdminConsole, TLAPS

-----------------------------------------------------------------------------
(***************************************************************************)
(* Bags of flights.                                                        *)
(***************************************************************************)

LEMMA AddedFlight ==
  ASSUME NEW B, NEW x
  PROVE  DOMAIN BagAdd(B, x) = DOMAIN B \union {x}
BY DEF BagAdd

LEMMA RemovedFlight ==
  ASSUME NEW B, NEW x
  PROVE  DOMAIN BagRemove(B, x) \subseteq DOMAIN B
BY DEF BagRemove

LEMMA OtherFlight ==
  ASSUME NEW B, NEW x, NEW y \in DOMAIN B, y # x
  PROVE  y \in DOMAIN BagRemove(B, x)
BY DEF BagRemove

LEMMA FlightsOfSet ==
  ASSUME NEW S
  PROVE  DOMAIN SetToBag(S) = S
BY DEF SetToBag

-----------------------------------------------------------------------------
(***************************************************************************)
(* The table of pages.                                                     *)
(***************************************************************************)

LEMMA PageRows ==
  /\ Pages["overview"] = OverviewPage /\ Pages["orders"] = OrdersPage
  /\ Pages["order"] = OrderDetailPage /\ Pages["transactions"] = TransactionsPage
  /\ Pages["users"] = UsersPage /\ Pages["buyers"] = BuyersPage
  /\ Pages["fpos"] = FPOsPage /\ Pages["listings"] = ListingsPage
  /\ Pages["listing"] = ListingDetailPage
  /\ Pages["recommendations"] = RecommendationsPage
  /\ Pages["payments"] = PaymentsPage /\ Pages["markets"] = MarketsPage
  /\ Pages["health"] = MarketHealthPage /\ Pages["analytics"] = AnalyticsPage
  /\ Pages["logistics"] = LogisticsPage /\ Pages["grievances"] = GrievancesPage
  /\ Pages["audit"] = AuditPage /\ Pages["settings"] = SettingsPage
  /\ Pages["broken"] = BrokenPage
BY DEF Pages

LEMMA PageNames ==
  DOMAIN Pages =
    {"overview", "orders", "order", "transactions", "users", "buyers", "fpos", "listings",
     "listing", "recommendations", "payments", "markets", "health", "analytics",
     "logistics", "grievances", "audit", "settings", "broken"}
BY DEF Pages

\* The pages with commands.
LEMMA PageCommands ==
  ASSUME NEW p \in DOMAIN Pages, Pages[p].command
  PROVE  p \in {"order", "payments", "listings"}
<1>1. /\ ~ OverviewPage.command
      /\ ~ OrdersPage.command
      /\ ~ TransactionsPage.command
      /\ ~ MarketsPage.command
      /\ ~ MarketHealthPage.command
      /\ ~ AnalyticsPage.command
      /\ ~ LogisticsPage.command
      /\ ~ GrievancesPage.command
      /\ ~ AuditPage.command
      /\ ~ SettingsPage.command
      /\ ~ BrokenPage.command
  BY DEF OverviewPage, OrdersPage, TransactionsPage, MarketsPage, MarketHealthPage,
         AnalyticsPage, LogisticsPage, GrievancesPage, AuditPage, SettingsPage, BrokenPage,
         ReadOnly
<1>2. /\ ~ UsersPage.command
      /\ ~ FPOsPage.command
      /\ ~ BuyersPage.command
      /\ ~ ListingDetailPage.command
      /\ ~ RecommendationsPage.command
  BY DEF UsersPage, FPOsPage, BuyersPage, ListingDetailPage, RecommendationsPage, ReadOnly
<1> QED BY <1>1, <1>2, PageNames, PageRows

LEMMA OneStage ==
  ASSUME NEW stage
  PROVE  1 \in DOMAIN <<stage>> /\ <<stage>>[1] = stage
OBVIOUS

\* A drawer shows a row of a slot that the page has.
LEMMA PageDrawers ==
  ASSUME NEW p \in DOMAIN Pages, Pages[p].drawer # ""
  PROVE  Pages[p].drawer \in SlotsOf(p)
<1>1. /\ OverviewPage.drawer = ""
      /\ OrdersPage.drawer = ""
      /\ TransactionsPage.drawer = ""
      /\ MarketsPage.drawer = ""
      /\ MarketHealthPage.drawer = ""
      /\ AnalyticsPage.drawer = ""
      /\ LogisticsPage.drawer = ""
      /\ GrievancesPage.drawer = ""
      /\ AuditPage.drawer = ""
      /\ SettingsPage.drawer = ""
      /\ BrokenPage.drawer = ""
  BY DEF OverviewPage, OrdersPage, TransactionsPage, MarketsPage, MarketHealthPage,
         AnalyticsPage, LogisticsPage, GrievancesPage, AuditPage, SettingsPage, BrokenPage,
         ReadOnly
<1>2. /\ ListingDetailPage.drawer = ""
      /\ RecommendationsPage.drawer = ""
      /\ ListingsPage.drawer = ""
      /\ OrderDetailPage.drawer = ""
      /\ PaymentsPage.drawer = ""
  BY DEF ListingDetailPage, RecommendationsPage, ListingsPage, OrderDetailPage,
         PaymentsPage, ReadOnly
<1>3. p \in {"users", "fpos", "buyers"}  BY <1>1, <1>2, PageNames, PageRows
<1>0. \A slot : Local({slot}).slots = {slot}  BY DEF Local, Fetch
<1>4. ASSUME NEW slot, NEW stage, stage.slots = {slot},
             Pages[p].drawer = slot, Pages[p].load = <<stage>>
      PROVE  slot \in SlotsOf(p)
  <2>1. 1 \in DOMAIN Pages[p].load /\ Pages[p].load[1] = stage
    BY <1>4, OneStage, Zenon
  <2>2. slot \in LoadedSlots(p)  BY <1>4, <2>1 DEF LoadedSlots
  <2> QED BY <2>2 DEF SlotsOf
<1>5. CASE p = "users"
  <2>1. Pages[p] = UsersPage  BY <1>5, PageRows
  <2>2. UsersPage.drawer = "users" /\ UsersPage.load = <<Local({"users"})>>
    BY DEF UsersPage, ReadOnly
  <2> QED BY <1>0, <1>4, <2>1, <2>2
<1>6. CASE p = "fpos"
  <2>1. Pages[p] = FPOsPage  BY <1>6, PageRows
  <2>2. FPOsPage.drawer = "fpos" /\ FPOsPage.load = <<Local({"fpos"})>>
    BY DEF FPOsPage, ReadOnly
  <2> QED BY <1>0, <1>4, <2>1, <2>2
<1>7. CASE p = "buyers"
  <2>1. Pages[p] = BuyersPage  BY <1>7, PageRows
  <2>2. BuyersPage.drawer = "buyers" /\ BuyersPage.load = <<Local({"buyers"})>>
    BY DEF BuyersPage, ReadOnly
  <2> QED BY <1>0, <1>4, <2>1, <2>2
<1> QED BY <1>3, <1>5, <1>6, <1>7

\* The slot of a page's command is filled by every load.
LEMMA CommandSlots ==
  /\ "order" \in SlotsOf("order") \ (SkippedSlots("order") \union {"selected"})
  /\ "payments" \in SlotsOf("payments") \ (SkippedSlots("payments") \union {"selected"})
  /\ "listings" \in SlotsOf("listings") \ (SkippedSlots("listings") \union {"selected"})
<1>1. ASSUME NEW p, NEW slot, slot # "selected", 1 \in DOMAIN Pages[p].load,
             slot \in Pages[p].load[1].slots,
             \A i \in DOMAIN Pages[p].load : Pages[p].load[i].needs = ""
      PROVE  slot \in SlotsOf(p) \ (SkippedSlots(p) \union {"selected"})
  <2>1. slot \in LoadedSlots(p)  BY <1>1 DEF LoadedSlots
  <2>2. SkippedSlots(p) = {}  BY <1>1 DEF SkippedSlots
  <2> QED BY <1>1, <2>1, <2>2 DEF SlotsOf
<1>2. "order" \in SlotsOf("order") \ (SkippedSlots("order") \union {"selected"})
  <2> DEFINE load == Pages["order"].load
  <2>1. load = <<Find("order"), Fetch({"history", "payments"})>>
    BY PageRows DEF OrderDetailPage, ReadOnly
  <2>2. /\ Find("order").slots = {"order"} /\ Find("order").needs = ""
        /\ Fetch({"history", "payments"}).needs = ""
    BY DEF Find, Fetch
  <2>3. /\ DOMAIN load = {1, 2} /\ load[1] = Find("order")
        /\ load[2] = Fetch({"history", "payments"})
    BY <2>1
  <2> HIDE DEF load
  <2>4. 1 \in DOMAIN load /\ "order" \in load[1].slots /\ \A i \in DOMAIN load : load[i].needs = ""
    BY <2>2, <2>3
  <2> QED BY <1>1, <2>4 DEF load
<1>3. "payments" \in SlotsOf("payments") \ (SkippedSlots("payments") \union {"selected"})
  <2> DEFINE stage == Clearing(Fetch({"payments"}))
             load == Pages["payments"].load
  <2>1. load = <<stage>>  BY PageRows DEF PaymentsPage, ReadOnly
  <2>2. stage.slots = {"payments"} /\ stage.needs = ""  BY DEF Clearing, Fetch
  <2> HIDE DEF stage
  <2>3. DOMAIN load = {1} /\ load[1] = stage  BY <2>1
  <2> HIDE DEF load
  <2>4. /\ 1 \in DOMAIN load /\ "payments" \in load[1].slots
        /\ \A i \in DOMAIN load : load[i].needs = ""
    BY <2>2, <2>3
  <2> QED BY <1>1, <2>4 DEF load
<1>4. "listings" \in SlotsOf("listings") \ (SkippedSlots("listings") \union {"selected"})
  <2> DEFINE stage == Fetch({"listings"})
             load == Pages["listings"].load
  <2>1. load = <<stage>>  BY PageRows DEF ListingsPage, ReadOnly
  <2>2. stage.slots = {"listings"} /\ stage.needs = ""  BY DEF Fetch
  <2> HIDE DEF stage
  <2>3. DOMAIN load = {1} /\ load[1] = stage  BY <2>1
  <2> HIDE DEF load
  <2>4. /\ 1 \in DOMAIN load /\ "listings" \in load[1].slots
        /\ \A i \in DOMAIN load : load[i].needs = ""
    BY <2>2, <2>3
  <2> QED BY <1>1, <2>4 DEF load
<1> QED BY <1>2, <1>3, <1>4

-----------------------------------------------------------------------------
(***************************************************************************)
(* The context, the inputs of the settings and what is saved of them.      *)
(***************************************************************************)

AnyURL   == URLs \union {Default.url}
AnyToken == Tokens \union {""}

ContextTyped ==
  /\ ctx \in Contexts
  /\ form \in [url : AnyURL, token : AnyToken]
  /\ saved \in [demo : BOOLEAN \union {None}, url : AnyURL \union {None},
                token : AnyToken \union {None}]

LEMMA DefaultTyped ==
  /\ Default \in Contexts
  /\ Default.demo \in BOOLEAN /\ Default.url \in Servers /\ Default.token = ""
  /\ Default.url # ""
BY ConsoleConstants DEF Contexts

LEMMA NotNone ==
  /\ \A b \in BOOLEAN : b # None
  /\ \A u \in AnyURL : u # None
  /\ \A t \in AnyToken : t # None
<1>1. Default.url \in Servers  BY DefaultTyped
<1> QED BY <1>1, ConsoleConstants DEF AnyURL, AnyToken

LEMMA HydratedTyped ==
  ASSUME ContextTyped
  PROVE  Hydrated \in Contexts
<1>1. /\ saved.demo \in BOOLEAN \union {None}
      /\ saved.url \in AnyURL \union {None}
      /\ saved.token \in AnyToken \union {None}
  BY DEF ContextTyped
<1> DEFINE demo == IF saved.demo = None THEN Default.demo ELSE saved.demo
           url == IF saved.url \in {None, ""} THEN Default.url ELSE saved.url
           token == IF saved.token = None THEN Default.token ELSE saved.token
<1>2. demo \in BOOLEAN  BY <1>1, DefaultTyped
<1>3. url \in AnyURL  BY <1>1 DEF AnyURL
<1>4. token \in AnyToken  BY <1>1, DefaultTyped DEF AnyToken
<1>5. Hydrated = [demo |-> demo, url |-> url, token |-> token]  BY DEF Hydrated
<1> HIDE DEF demo, url, token
<1> QED BY <1>2, <1>3, <1>4, <1>5 DEF Contexts, AnyURL, AnyToken

LEMMA InputsTyped ==
  ASSUME NEW c \in Contexts
  PROVE  Inputs(c) \in [url : AnyURL, token : AnyToken]
BY DEF Inputs, Contexts, AnyURL, AnyToken

LEMMA HydratedFields ==
  /\ Hydrated.demo = IF saved.demo = None THEN Default.demo ELSE saved.demo
  /\ Hydrated.url = IF saved.url \in {None, ""} THEN Default.url ELSE saved.url
  /\ Hydrated.token = IF saved.token = None THEN Default.token ELSE saved.token
BY DEF Hydrated

\* Every mode that is chosen is saved, and is not None.
LEMMA SavedMode ==
  ASSUME ContextTyped, ReloadRestores, NEW b \in BOOLEAN,
         ctx' = [ctx EXCEPT !.demo = b], saved' = [saved EXCEPT !.demo = b],
         UNCHANGED form
  PROVE  ContextTyped' /\ ReloadRestores'
<1>1. /\ ctx'.demo = b /\ ctx'.url = ctx.url /\ ctx'.token = ctx.token
      /\ saved'.demo = b /\ saved'.url = saved.url /\ saved'.token = saved.token
      /\ ctx' \in Contexts
  BY DEF ContextTyped, Contexts
<1>2. saved' \in [demo : BOOLEAN \union {None}, url : AnyURL \union {None},
                  token : AnyToken \union {None}]
  BY DEF ContextTyped
<1>3. ContextTyped'  BY <1>1, <1>2 DEF ContextTyped
<1>4. /\ Hydrated'.demo = IF saved'.demo = None THEN Default.demo ELSE saved'.demo
      /\ Hydrated'.url = IF saved'.url \in {None, ""} THEN Default.url ELSE saved'.url
      /\ Hydrated'.token = IF saved'.token = None THEN Default.token ELSE saved'.token
  BY DEF Hydrated
<1>5. Hydrated'.demo = b  BY <1>1, <1>4, NotNone
<1>6. Hydrated'.url = Hydrated.url /\ Hydrated'.token = Hydrated.token
  BY <1>1, <1>4, HydratedFields
<1> QED BY <1>1, <1>3, <1>5, <1>6 DEF ReloadRestores

LEMMA SavedInputs ==
  ASSUME ContextTyped, ReloadRestores, NEW url \in AnyURL, NEW token \in AnyToken,
         ctx' = [demo |-> ctx.demo, url |-> url, token |-> token],
         saved' = [demo |-> saved.demo, url |-> url, token |-> token],
         form' = [url |-> url, token |-> token]
  PROVE  ContextTyped' /\ ReloadRestores'
<1>1. /\ ctx'.demo = ctx.demo /\ ctx'.url = url /\ ctx'.token = token
      /\ saved'.demo = saved.demo /\ saved'.url = url /\ saved'.token = token
  OBVIOUS
<1>2. ctx.demo \in BOOLEAN /\ saved.demo \in BOOLEAN \union {None}
  BY DEF ContextTyped, Contexts
<1>3. ctx' \in Contexts  BY <1>2 DEF Contexts, AnyURL, AnyToken
<1>4. ContextTyped'  BY <1>2, <1>3 DEF ContextTyped
<1>5. /\ Hydrated'.demo = IF saved'.demo = None THEN Default.demo ELSE saved'.demo
      /\ Hydrated'.url = IF saved'.url \in {None, ""} THEN Default.url ELSE saved'.url
      /\ Hydrated'.token = IF saved'.token = None THEN Default.token ELSE saved'.token
  BY DEF Hydrated
<1>6. Hydrated'.demo = ctx.demo  BY <1>1, <1>5, HydratedFields DEF ReloadRestores
<1>7. Hydrated'.token = token  BY <1>1, <1>5, NotNone
<1>8. url # "" => Hydrated'.url = url  BY <1>1, <1>5, NotNone
<1> QED BY <1>1, <1>4, <1>6, <1>7, <1>8 DEF ReloadRestores

LEMMA ContextKept == ContextTyped /\ ReloadRestores /\ [Next]_vars => (ContextTyped /\ ReloadRestores)'
<1> SUFFICES ASSUME ContextTyped, ReloadRestores, [Next]_vars
             PROVE  (ContextTyped /\ ReloadRestores)'
  OBVIOUS
<1>1. ASSUME UNCHANGED <<ctx, form, saved>>
      PROVE  (ContextTyped /\ ReloadRestores)'
  BY <1>1 DEF ContextTyped, ReloadRestores, Hydrated
<1>2. ASSUME NEW p \in Visited, Visit(p)
      PROVE  (ContextTyped /\ ReloadRestores)'
  <2>1. UNCHANGED <<ctx, saved>> /\ (form' = form \/ form' = Inputs(ctx))
    BY <1>2 DEF Visit
  <2>2. ContextTyped'  BY <2>1, InputsTyped DEF ContextTyped
  <2>3. ReloadRestores'  BY <2>1 DEF ReloadRestores, Hydrated
  <2> QED BY <2>2, <2>3
<1>3. ASSUME NEW p \in Visited, HardReload(p)
      PROVE  (ContextTyped /\ ReloadRestores)'
  <2>1. ctx' = Hydrated /\ UNCHANGED saved /\ form' = Inputs(Default)
    BY <1>3 DEF HardReload
  <2>2. Hydrated' = Hydrated  BY <2>1 DEF Hydrated
  <2>3. ContextTyped'  BY <2>1, HydratedTyped, InputsTyped, DefaultTyped DEF ContextTyped
  <2> QED BY <2>1, <2>2, <2>3 DEF ReloadRestores
<1>4. ASSUME ToggleDemoMode
      PROVE  (ContextTyped /\ ReloadRestores)'
  <2> DEFINE b == ~ ctx.demo
  <2>1. b \in BOOLEAN  OBVIOUS
  <2>2. /\ ctx' = [ctx EXCEPT !.demo = b] /\ saved' = [saved EXCEPT !.demo = b]
        /\ UNCHANGED form
    BY <1>4 DEF ToggleDemoMode, ChangeContext
  <2> HIDE DEF b
  <2> QED BY <2>1, <2>2, SavedMode
<1>5. ASSUME ResetFires
      PROVE  (ContextTyped /\ ReloadRestores)'
  <2>1. /\ ctx' = [ctx EXCEPT !.demo = TRUE] /\ saved' = [saved EXCEPT !.demo = TRUE]
        /\ UNCHANGED form
    BY <1>5 DEF ResetFires, ChangeContext
  <2> QED BY <2>1, SavedMode
<1>6. ASSUME SaveSettings
      PROVE  (ContextTyped /\ ReloadRestores)'
  <2>1. PICK url \in URLs \union {form.url}, token \in Tokens \union {form.token} :
          /\ form' = [url |-> url, token |-> token]
          /\ ctx' = [demo |-> ctx.demo, url |-> url, token |-> token]
          /\ saved' = [demo |-> saved.demo, url |-> url, token |-> token]
    BY <1>6 DEF SaveSettings, ChangeContext
  <2>2. url \in AnyURL /\ token \in AnyToken  BY DEF ContextTyped, AnyURL, AnyToken
  <2> QED BY <2>1, <2>2, SavedInputs
<1>7. CASE UNCHANGED vars  BY <1>1, <1>7 DEF vars
<1>8. CASE Answers
  <2>1. PICK f \in DOMAIN flights : Answer(f) \/ CommandSucceeds(f) \/ CommandFails(f)
    BY <1>8 DEF Answers
  <2> QED BY <1>1, <2>1 DEF Answer, CommandSucceeds, CommandFails
<1>9. CASE Person
  <2>1. CASE \E p \in Visited : Visit(p) \/ HardReload(p)  BY <1>2, <1>3, <2>1
  <2>2. CASE ToggleDemoMode \/ SaveSettings  BY <1>4, <1>6, <2>2
  <2>3. CASE \/ ResetDemo \/ LookUp \/ ShowProfile \/ CloseProfile
             \/ SelectListing \/ PickPayment \/ DismissPayment
    BY <1>1, <2>3 DEF ResetDemo, LookUp, ShowProfile, CloseProfile, SelectListing,
                      PickPayment, DismissPayment
  <2>4. CASE \E row \in Targets(page) : SendCommand(row)
    BY <1>1, <2>4 DEF SendCommand
  <2> QED BY <1>9, <2>1, <2>2, <2>3, <2>4 DEF Person
<1> QED BY <1>5, <1>7, <1>8, <1>9 DEF Next

LEMMA ContextAtFirst == Init => ContextTyped /\ ReloadRestores
<1> SUFFICES ASSUME Init PROVE ContextTyped /\ ReloadRestores  OBVIOUS
<1>1. /\ ctx = Default /\ form = Inputs(Default)
      /\ saved = [demo |-> None, url |-> None, token |-> None]
  BY DEF Init
<1>2. ContextTyped  BY <1>1, DefaultTyped, InputsTyped DEF ContextTyped
<1>3. saved.demo = None /\ saved.url = None /\ saved.token = None  BY <1>1
<1> QED BY <1>1, <1>2, <1>3, HydratedFields DEF ReloadRestores

\* Whatever the build's defaults are, whatever is typed into the settings and
\* however often the mode is toggled, a hard reload brings the context back, but
\* for a URL that was cleared.
THEOREM ContextSurvives == Spec => []ReloadRestores
<1> QED BY ContextAtFirst, ContextKept, PTL DEF Spec

-----------------------------------------------------------------------------
(***************************************************************************)
(* Flights and rows: where they come from.                                 *)
(***************************************************************************)

FlightFields == {"kind", "ctx", "todo", "row", "of"}
Kinds == Loads \union {"lookup", "command"}

\* A flight began in a context the mounted page has been in.
FlightOK(f, b) ==
  /\ DOMAIN f = FlightFields
  /\ f.kind \in Kinds
  /\ f.ctx \in Contexts
  /\ Source(f.ctx) \in b

RowOK(r, b) == r \in [from : b \union {None}, some : BOOLEAN]

ScreenInv ==
  /\ page \in DOMAIN Pages
  /\ page \in Visited \union {"broken"}
  /\ been \subseteq URLs \union Servers \union {"demo"}
  /\ Source(ctx) \in been
  /\ \A f \in DOMAIN flights : FlightOK(f, been)
  /\ DOMAIN rows = SlotsOf(page)
  /\ \A s \in DOMAIN rows : RowOK(rows[s], been)
  /\ picked # None => page = "payments" /\ RowOK(picked, been)

LEMMA SourceTyped ==
  ASSUME NEW c \in Contexts
  PROVE  Source(c) \in URLs \union Servers \union {"demo"}
BY DefaultTyped DEF Contexts, Source

LEMMA BlankOK ==
  ASSUME NEW b
  PROVE  RowOK(Blank, b)
BY DEF RowOK, Blank

LEMMA LongerVisit ==
  ASSUME NEW b, NEW c, b \subseteq c
  PROVE  /\ \A f : FlightOK(f, b) => FlightOK(f, c)
         /\ \A r : RowOK(r, b) => RowOK(r, c)
BY DEF FlightOK, RowOK

LEMMA OneMoreFlight ==
  ASSUME NEW B, NEW x, NEW b, FlightOK(x, b), \A f \in DOMAIN B : FlightOK(f, b)
  PROVE  \A f \in DOMAIN BagAdd(B, x) : FlightOK(f, b)
<1> DEFINE C == BagAdd(B, x)
<1>1. DOMAIN C = DOMAIN B \union {x}  BY AddedFlight
<1> HIDE DEF C
<1>2. \A f \in DOMAIN C : FlightOK(f, b)  BY <1>1
<1> QED BY <1>2 DEF C

\* The flights that begin.
LEMMA FlightParts ==
  ASSUME NEW kind, NEW c, NEW todo
  PROVE  /\ DOMAIN Flight(kind, c, todo) = FlightFields
         /\ Flight(kind, c, todo).kind = kind /\ Flight(kind, c, todo).ctx = c
         /\ Flight(kind, c, todo).todo = todo
BY DEF Flight, FlightFields

LEMMA LoadParts ==
  ASSUME NEW p, NEW c
  PROVE  /\ DOMAIN Load(p, c) = FlightFields
         /\ Load(p, c).kind = "load" /\ Load(p, c).ctx = c /\ Load(p, c).todo = Pages[p].load
BY FlightParts DEF Load

Reload(p, f) == [Load(p, f.ctx) EXCEPT !.kind = "reload", !.row = f.row]

LEMMA ReloadParts ==
  ASSUME NEW p, NEW f
  PROVE  /\ DOMAIN Reload(p, f) = FlightFields
         /\ Reload(p, f).kind = "reload" /\ Reload(p, f).ctx = f.ctx
         /\ Reload(p, f).todo = Pages[p].load /\ Reload(p, f).row = f.row
<1> DEFINE x == Load(p, f.ctx)
<1>1. DOMAIN x = FlightFields /\ x.ctx = f.ctx /\ x.todo = Pages[p].load  BY LoadParts
<1>2. Reload(p, f) = [x EXCEPT !.kind = "reload", !.row = f.row]  BY DEF Reload
<1> HIDE DEF x
<1> QED BY <1>1, <1>2 DEF FlightFields

Command(row, of) == [Flight("command", ctx, <<>>) EXCEPT !.row = row, !.of = of]

LEMMA CommandParts ==
  ASSUME NEW row, NEW of
  PROVE  /\ DOMAIN Command(row, of) = FlightFields
         /\ Command(row, of).kind = "command" /\ Command(row, of).ctx = ctx
         /\ Command(row, of).row = row
<1> DEFINE x == Flight("command", ctx, <<>>)
<1>1. DOMAIN x = FlightFields /\ x.kind = "command" /\ x.ctx = ctx  BY FlightParts
<1>2. Command(row, of) = [x EXCEPT !.row = row, !.of = of]  BY DEF Command
<1> HIDE DEF x
<1> QED BY <1>1, <1>2 DEF FlightFields

LEMMA LoadOK ==
  ASSUME NEW p, NEW c \in Contexts, NEW b, Source(c) \in b
  PROVE  FlightOK(Load(p, c), b)
BY LoadParts DEF FlightOK, Kinds, Loads

\* A flight that goes on.
LEMMA FlightGoesOn ==
  ASSUME NEW f, NEW b, FlightOK(f, b), NEW v
  PROVE  FlightOK([f EXCEPT !.todo = v], b)
BY DEF FlightOK, FlightFields

\* A page is mounted in these contexts, or breaks.
LEMMA MountedScreen ==
  ASSUME ScreenInv, NEW p \in Visited \union {"broken"}, NEW cs, cs \subseteq Contexts,
         Mount(p, cs), \E c \in cs : Source(ctx') = Source(c)
  PROVE  ScreenInv'
<1> DEFINE new == {Load(p, c) : c \in cs}
<1>1. /\ page' = p /\ rows' = [s \in SlotsOf(p) |-> Blank] /\ picked' = None
      /\ been' = {Source(c) : c \in cs}
      /\ flights' = IF Pages[p].load = <<>> THEN EmptyBag ELSE SetToBag(new)
  BY DEF Mount
<1>2. p \in DOMAIN Pages  BY ConsoleConstants, PageNames
<1>3. been' \subseteq URLs \union Servers \union {"demo"}  BY <1>1, SourceTyped
<1>4. Source(ctx') \in been'  BY <1>1
<1>5. \A f \in DOMAIN flights' : FlightOK(f, been')
  <2>1. \A f \in new : FlightOK(f, been')  BY <1>1, LoadOK
  <2>2. DOMAIN EmptyBag = {} /\ DOMAIN SetToBag(new) = new
    BY FlightsOfSet DEF EmptyBag
  <2> HIDE DEF new
  <2> QED BY <1>1, <2>1, <2>2
<1>6. \A s \in DOMAIN rows' : RowOK(rows'[s], been')  BY <1>1, BlankOK
<1> QED BY <1>1, <1>2, <1>3, <1>4, <1>5, <1>6 DEF ScreenInv

LEMMA ScreenInNewContext ==
  ASSUME ScreenInv, NEW c \in Contexts, ChangeContext(c)
  PROVE  ScreenInv'
<1>1. /\ ctx' = c /\ been' = been \union {Source(c)}
      /\ flights' = flights \/ flights' = BagAdd(flights, Load(page, c))
      /\ UNCHANGED <<page, rows, picked>>
  BY DEF ChangeContext
<1>2. been \subseteq been' /\ Source(ctx') \in been'  BY <1>1
<1>3. been' \subseteq URLs \union Servers \union {"demo"}
  BY <1>1, SourceTyped DEF ScreenInv
<1>4. FlightOK(Load(page, c), been')  BY <1>1, LoadOK
<1>5. \A f \in DOMAIN flights : FlightOK(f, been')  BY <1>2, LongerVisit DEF ScreenInv
<1>6. \A f \in DOMAIN flights' : FlightOK(f, been')
  <2>1. \A f \in DOMAIN BagAdd(flights, Load(page, c)) : FlightOK(f, been')
    BY <1>4, <1>5, OneMoreFlight
  <2> QED BY <1>1, <1>5, <2>1
<1>7. \A s \in DOMAIN rows : RowOK(rows[s], been')  BY <1>2, LongerVisit DEF ScreenInv
<1>8. picked # None => page = "payments" /\ RowOK(picked, been')
  BY <1>2, LongerVisit DEF ScreenInv
<1> QED BY <1>1, <1>2, <1>3, <1>6, <1>7, <1>8 DEF ScreenInv

\* The page and its contexts stay; flights and rows are sound.
LEMMA ScreenStays ==
  ASSUME ScreenInv, UNCHANGED <<page, ctx, been>>,
         \A f \in DOMAIN flights' : FlightOK(f, been),
         DOMAIN rows' = DOMAIN rows,
         \A s \in DOMAIN rows : RowOK(rows'[s], been),
         picked' # None => page = "payments" /\ RowOK(picked', been)
  PROVE  ScreenInv'
BY DEF ScreenInv

\* What a flight is answered, or is left with, comes from its context.
LEMMA AnsweredOK ==
  ASSUME NEW f, FlightOK(f, been), NEW st, NEW some \in BOOLEAN
  PROVE  RowOK(Answered(f, st, some), been)
<1> DEFINE from == Source(f.ctx)
           any == f.ctx.demo \/ (some /\ ~ st.local)
<1>1. from \in been  BY DEF FlightOK
<1>2. any \in BOOLEAN  OBVIOUS
<1>3. Answered(f, st, some) = [from |-> from, some |-> any]  BY DEF Answered
<1> HIDE DEF from, any
<1> QED BY <1>1, <1>2, <1>3 DEF RowOK

LEMMA EmptiedOK ==
  ASSUME NEW f, FlightOK(f, been)
  PROVE  RowOK(Emptied(f), been)
BY DEF FlightOK, RowOK, Emptied

\* An answered flight ends or goes on.
LEMMA FlightsAfterAnswer ==
  ASSUME ScreenInv, NEW f \in DOMAIN flights,
         \/ flights' = BagRemove(flights, f)
         \/ \E left : flights' = BagAdd(BagRemove(flights, f), [f EXCEPT !.todo = left])
  PROVE  \A g \in DOMAIN flights' : FlightOK(g, been)
<1>1. \A g \in DOMAIN BagRemove(flights, f) : FlightOK(g, been)
  BY RemovedFlight DEF ScreenInv
<1>2. ASSUME NEW left
      PROVE  \A g \in DOMAIN BagAdd(BagRemove(flights, f), [f EXCEPT !.todo = left]) :
               FlightOK(g, been)
  <2>1. FlightOK([f EXCEPT !.todo = left], been)  BY FlightGoesOn DEF ScreenInv
  <2> QED BY <1>1, <2>1, OneMoreFlight
<1> QED BY <1>1, <1>2

LEMMA ScreenAfterSuccess ==
  ASSUME ScreenInv, NEW f \in DOMAIN flights, NEW some \in BOOLEAN, FetchSucceeds(f, some),
         UNCHANGED ctx
  PROVE  ScreenInv'
<1> DEFINE st == Head(f.todo)
           left == Rest(f.todo, [s \in st.slots |-> Answered(f, st, some)])
<1>1. FlightOK(f, been) /\ \A s \in DOMAIN rows : RowOK(rows[s], been)  BY DEF ScreenInv
<1>2. RowOK(Answered(f, st, some), been) /\ RowOK(Answered(f, st, TRUE), been)
  BY <1>1, AnsweredOK
<1>3. /\ UNCHANGED <<page, picked, been>>
      /\ \/ flights' = BagRemove(flights, f)
         \/ flights' = BagAdd(BagRemove(flights, f), [f EXCEPT !.todo = left])
  BY DEF FetchSucceeds, Ends
<1>4. /\ DOMAIN rows' = DOMAIN rows
      /\ \A s \in DOMAIN rows :
           \/ rows'[s] = rows[s]
           \/ rows'[s] = Answered(f, st, some)
           \/ rows'[s] = Answered(f, st, TRUE)
  <2>1. CASE rows' = [s \in DOMAIN rows |->
                        IF s \in st.slots
                        THEN [z \in st.slots |-> Answered(f, st, some)][s] ELSE rows[s]]
    BY <2>1
  <2>2. CASE rows' = [s \in DOMAIN rows |->
                        IF s \in st.slots
                        THEN [z \in st.slots |-> Answered(f, st, some)][s]
                        ELSE IF s \in Pages[page].summary /\ f.kind \in Loads
                             THEN Answered(f, st, TRUE) ELSE rows[s]]
    BY <2>2
  <2> QED BY <2>1, <2>2 DEF FetchSucceeds
<1> HIDE DEF st, left
<1>5. \A g \in DOMAIN flights' : FlightOK(g, been)  BY <1>3, FlightsAfterAnswer
<1>6. \A s \in DOMAIN rows : RowOK(rows'[s], been)  BY <1>1, <1>2, <1>4
<1> QED BY <1>3, <1>4, <1>5, <1>6, ScreenStays DEF ScreenInv

LEMMA ScreenAfterFailure ==
  ASSUME ScreenInv, NEW f \in DOMAIN flights, NEW failed, FetchFails(f, failed),
         UNCHANGED ctx
  PROVE  ScreenInv'
<1> DEFINE st == Head(f.todo)
           answers == [s \in st.slots |-> IF s \in failed THEN Emptied(f)
                                          ELSE Answered(f, st, TRUE)]
           left == Rest(f.todo, answers)
<1>1. FlightOK(f, been) /\ \A s \in DOMAIN rows : RowOK(rows[s], been)  BY DEF ScreenInv
<1>2. RowOK(Emptied(f), been) /\ RowOK(Answered(f, st, TRUE), been)
  BY <1>1, EmptiedOK, AnsweredOK
<1>3. \A s \in st.slots : RowOK(answers[s], been)  BY <1>2
<1>4. /\ UNCHANGED <<page, picked, been>>
      /\ \/ flights' = BagRemove(flights, f)
         \/ flights' = BagAdd(BagRemove(flights, f), [f EXCEPT !.todo = left])
  BY DEF FetchFails, Ends
<1>5. /\ DOMAIN rows' = DOMAIN rows
      /\ \A s \in DOMAIN rows :
           \/ rows'[s] = rows[s]
           \/ s \in st.slots /\ rows'[s] = answers[s]
           \/ rows'[s] = Emptied(f)
  <2> HIDE DEF answers
  <2>1. CASE rows' = rows  BY <2>1
  <2>2. CASE rows' = [s \in DOMAIN rows |->
                        IF s \in st.slots THEN answers[s] ELSE rows[s]]
    BY <2>2
  <2>3. CASE rows' = [s \in DOMAIN rows |->
                        IF s \in st.slots THEN answers[s]
                        ELSE IF s \in Pages[page].summary /\ f.kind \in Loads
                             THEN Emptied(f) ELSE rows[s]]
    BY <2>3
  <2> QED BY <2>1, <2>2, <2>3 DEF FetchFails, answers
<1> HIDE DEF st, answers, left
<1>6. \A g \in DOMAIN flights' : FlightOK(g, been)  BY <1>4, FlightsAfterAnswer
<1>7. \A s \in DOMAIN rows : RowOK(rows'[s], been)  BY <1>1, <1>2, <1>3, <1>5
<1> QED BY <1>4, <1>5, <1>6, <1>7, ScreenStays DEF ScreenInv

LEMMA ScreenAfterNothing ==
  ASSUME ScreenInv, ContextTyped, NEW f \in DOMAIN flights, NEW bare, FetchesNothing(f, bare),
         UNCHANGED ctx
  PROVE  ScreenInv'
<1> DEFINE st == Head(f.todo)
           left == Tail(f.todo)
<1>1. FlightOK(f, been) /\ \A s \in DOMAIN rows : RowOK(rows[s], been)  BY DEF ScreenInv
<1>2. CASE Throws(bare)
  <2>1. Mount("broken", {ctx})  BY <1>2 DEF FetchesNothing
  <2> QED BY <2>1, MountedScreen DEF ContextTyped
<1>3. CASE ~ Throws(bare)
  <2>1. /\ UNCHANGED <<page, picked, been>>
        /\ rows' = [s \in DOMAIN rows |-> IF s \in st.slots THEN Emptied(f) ELSE rows[s]]
        /\ \/ flights' = BagRemove(flights, f)
           \/ flights' = BagAdd(BagRemove(flights, f), [f EXCEPT !.todo = left])
    BY <1>3 DEF FetchesNothing, Ends
  <2> HIDE DEF st, left
  <2>2. RowOK(Emptied(f), been)  BY <1>1, EmptiedOK
  <2>3. \A g \in DOMAIN flights' : FlightOK(g, been)  BY <2>1, FlightsAfterAnswer
  <2>4. DOMAIN rows' = DOMAIN rows /\ \A s \in DOMAIN rows : RowOK(rows'[s], been)
    BY <1>1, <2>1, <2>2
  <2> QED BY <2>1, <2>3, <2>4, ScreenStays DEF ScreenInv
<1> QED BY <1>2, <1>3

LEMMA ScreenAfterAnswer ==
  ASSUME ScreenInv, ContextTyped, NEW f \in DOMAIN flights, Answer(f)
  PROVE  ScreenInv'
BY ScreenAfterSuccess, ScreenAfterFailure, ScreenAfterNothing DEF Answer

\* Only flights change.
LEMMA ScreenWithFlights ==
  ASSUME ScreenInv, UNCHANGED <<page, ctx, been, rows>>,
         picked' = picked \/ picked' = None,
         \A f \in DOMAIN flights' : FlightOK(f, been)
  PROVE  ScreenInv'
BY DEF ScreenInv

LEMMA ScreenAfterCommands ==
  ASSUME ScreenInv, NEW f \in DOMAIN flights, CommandSucceeds(f) \/ CommandFails(f)
  PROVE  ScreenInv'
<1>1. \A g \in DOMAIN BagRemove(flights, f) : FlightOK(g, been)
  BY RemovedFlight DEF ScreenInv
<1>2. FlightOK(f, been)  BY DEF ScreenInv
<1>3. CASE CommandSucceeds(f)
  <2>1. FlightOK(Reload(page, f), been)  BY <1>2, ReloadParts DEF FlightOK, Kinds, Loads
  <2>2. flights' = BagAdd(BagRemove(flights, f), Reload(page, f))
    BY <1>3 DEF CommandSucceeds, Reload
  <2>3. \A g \in DOMAIN flights' : FlightOK(g, been)
    BY <1>1, <2>1, <2>2, OneMoreFlight
  <2> QED BY <1>3, <2>3, ScreenWithFlights DEF CommandSucceeds
<1>4. CASE CommandFails(f)  BY <1>1, <1>4, ScreenWithFlights DEF CommandFails
<1> QED BY <1>3, <1>4

\* The mounted page starts a flight of its own.
LEMMA ScreenWithNewFlight ==
  ASSUME ScreenInv, NEW new, FlightOK(new, been), flights' = BagAdd(flights, new),
         UNCHANGED <<page, ctx, been, rows, picked>>
  PROVE  ScreenInv'
<1>1. \A f \in DOMAIN BagAdd(flights, new) : FlightOK(f, been)
  BY OneMoreFlight DEF ScreenInv
<1> QED BY <1>1, ScreenWithFlights

LEMMA ScreenAfterPerson ==
  ASSUME ScreenInv, ContextTyped, Person
  PROVE  ScreenInv'
<1>0. ctx \in Contexts /\ Source(ctx) \in been  BY DEF ContextTyped, ScreenInv
<1>1. ASSUME NEW p \in Visited, Visit(p)
      PROVE  ScreenInv'
  <2>1. Mount(p, {ctx}) /\ UNCHANGED ctx  BY <1>1 DEF Visit
  <2> QED BY <1>0, <2>1, MountedScreen
<1>2. ASSUME NEW p \in Visited, HardReload(p)
      PROVE  ScreenInv'
  <2>1. Mount(p, {Default, Hydrated}) /\ ctx' = Hydrated  BY <1>2 DEF HardReload
  <2>2. {Default, Hydrated} \subseteq Contexts  BY HydratedTyped, DefaultTyped
  <2>3. \E c \in {Default, Hydrated} : Source(ctx') = Source(c)  BY <2>1
  <2> QED BY <2>1, <2>2, <2>3, MountedScreen
<1>3. CASE ToggleDemoMode
  <2>1. [ctx EXCEPT !.demo = ~ ctx.demo] \in Contexts  BY <1>0 DEF Contexts
  <2> QED BY <1>3, <2>1, ScreenInNewContext DEF ToggleDemoMode
<1>4. CASE SaveSettings
  <2>1. PICK url \in URLs \union {form.url}, token \in Tokens \union {form.token} :
          ChangeContext([demo |-> ctx.demo, url |-> url, token |-> token])
    BY <1>4 DEF SaveSettings
  <2>2. url \in AnyURL /\ token \in AnyToken  BY DEF ContextTyped, AnyURL, AnyToken
  <2>3. ctx.demo \in BOOLEAN  BY <1>0 DEF Contexts
  <2>4. [demo |-> ctx.demo, url |-> url, token |-> token] \in Contexts
    BY <2>2, <2>3 DEF Contexts, AnyURL, AnyToken
  <2> QED BY <2>1, <2>4, ScreenInNewContext
<1>5. CASE ResetDemo  BY <1>5, ScreenWithFlights DEF ResetDemo, view, ScreenInv
<1>6. CASE LookUp
  <2> DEFINE new == Flight("lookup", ctx, <<Find("selected")>>)
  <2>1. FlightOK(new, been)  BY <1>0, FlightParts DEF FlightOK, Kinds
  <2>2. /\ flights' = BagAdd(flights, new)
        /\ UNCHANGED <<page, ctx, been, rows, picked>>
    BY <1>6 DEF LookUp, view
  <2> HIDE DEF new
  <2> QED BY <2>1, <2>2, ScreenWithNewFlight
<1>7. CASE SelectListing
  <2> DEFINE new == Flight("load", ctx, <<Clearing(Fetch({"recommendations"}))>>)
  <2>1. FlightOK(new, been)  BY <1>0, FlightParts DEF FlightOK, Kinds, Loads
  <2>2. /\ flights' = BagAdd(flights, new)
        /\ UNCHANGED <<page, ctx, been, rows, picked>>
    BY <1>7 DEF SelectListing
  <2> HIDE DEF new
  <2> QED BY <2>1, <2>2, ScreenWithNewFlight
<1>8. ASSUME NEW row \in Targets(page), SendCommand(row)
      PROVE  ScreenInv'
  <2> DEFINE new == Command(row, About.from)
  <2>1. FlightOK(new, been)  BY <1>0, CommandParts DEF FlightOK, Kinds
  <2>2. /\ flights' = BagAdd(flights, new)
        /\ UNCHANGED <<page, ctx, been, rows, picked>>
    BY <1>8 DEF SendCommand, Command
  <2> HIDE DEF new
  <2> QED BY <2>1, <2>2, ScreenWithNewFlight
<1>9. CASE ShowProfile
  <2> DEFINE slot == Pages[page].drawer
  <2>1. slot \in DOMAIN rows  BY <1>9, PageDrawers DEF ShowProfile, ScreenInv
  <2>2. RowOK(rows[slot], been) /\ \A s \in DOMAIN rows : RowOK(rows[s], been)
    BY <2>1 DEF ScreenInv
  <2>3. rows' = [rows EXCEPT !["selected"] = rows[slot]]  BY <1>9 DEF ShowProfile
  <2>4. DOMAIN rows' = DOMAIN rows /\ \A s \in DOMAIN rows : RowOK(rows'[s], been)
    BY <2>2, <2>3
  <2> QED BY <1>9, <2>4, ScreenStays DEF ShowProfile, ScreenInv
<1>10. CASE CloseProfile
  <2>1. DOMAIN rows' = DOMAIN rows /\ \A s \in DOMAIN rows : RowOK(rows'[s], been)
    BY <1>10, BlankOK DEF CloseProfile, ScreenInv
  <2> QED BY <1>10, <2>1, ScreenStays DEF CloseProfile, ScreenInv
<1>11. CASE PickPayment
  <2>1. page = "payments" /\ "payments" \in DOMAIN rows
    BY <1>11, CommandSlots DEF PickPayment, ScreenInv
  <2>2. RowOK(rows["payments"], been)  BY <2>1 DEF ScreenInv
  <2> QED BY <1>11, <2>1, <2>2 DEF PickPayment, ScreenInv
<1>12. CASE DismissPayment  BY <1>12, ScreenWithFlights DEF DismissPayment, ScreenInv
<1> QED BY <1>1, <1>2, <1>3, <1>4, <1>5, <1>6, <1>7, <1>8, <1>9, <1>10, <1>11, <1>12
     DEF Person

LEMMA ScreenKept == ScreenInv /\ ContextTyped /\ [Next]_vars => ScreenInv'
<1> SUFFICES ASSUME ScreenInv, ContextTyped, [Next]_vars PROVE ScreenInv'  OBVIOUS
<1>1. CASE UNCHANGED vars  BY <1>1 DEF vars, ScreenInv
<1>2. CASE Answers
  BY <1>2, ScreenAfterAnswer, ScreenAfterCommands DEF Answers
<1>3. CASE ResetFires
  <2>1. ctx \in Contexts  BY DEF ContextTyped
  <2>2. [ctx EXCEPT !.demo = TRUE] \in Contexts  BY <2>1 DEF Contexts
  <2> QED BY <1>3, <2>2, ScreenInNewContext DEF ResetFires
<1> QED BY <1>1, <1>2, <1>3, ScreenAfterPerson DEF Next

LEMMA ScreenAtFirst == Init => ScreenInv
<1> SUFFICES ASSUME Init PROVE ScreenInv  OBVIOUS
<1>1. /\ page \in Visited /\ ctx = Default /\ been = {Source(Default)}
      /\ rows = [s \in SlotsOf(page) |-> Blank] /\ picked = None
      /\ flights = IF Pages[page].load = <<>> THEN EmptyBag
                   ELSE SetToBag({Load(page, Default)})
  BY DEF Init
<1>2. DOMAIN EmptyBag = {}  BY FlightsOfSet DEF EmptyBag
<1>3. DOMAIN flights \subseteq {Load(page, Default)}  BY <1>1, <1>2, FlightsOfSet
<1>4. Source(Default) \in been  BY <1>1
<1>5. FlightOK(Load(page, Default), been)  BY <1>4, LoadOK, DefaultTyped
<1>6. \A s \in DOMAIN rows : RowOK(rows[s], been)  BY <1>1, BlankOK
<1>7. been \subseteq URLs \union Servers \union {"demo"}  BY <1>1, SourceTyped, DefaultTyped
<1> QED BY <1>1, <1>3, <1>4, <1>5, <1>6, <1>7, ConsoleConstants DEF ScreenInv

LEMMA ScreenAlways == Spec => [](ScreenInv /\ ContextTyped)
<1>1. Init => ScreenInv /\ ContextTyped /\ ReloadRestores  BY ScreenAtFirst, ContextAtFirst
<1>2. ScreenInv /\ ContextTyped /\ ReloadRestores /\ [Next]_vars
        => (ScreenInv /\ ContextTyped /\ ReloadRestores)'
  BY ScreenKept, ContextKept
<1> QED BY <1>1, <1>2, PTL DEF Spec

\* For any servers and any number of loads and commands in flight: a row on the
\* screen comes from a context the page has been in since it was mounted.
THEOREM RowsStem == Spec => []RowsStemFromOwnContexts
<1>1. ScreenInv => RowsStemFromOwnContexts  BY DEF ScreenInv, RowOK, RowsStemFromOwnContexts
<1> QED BY <1>1, ScreenAlways, PTL

-----------------------------------------------------------------------------
(***************************************************************************)
(* The spinner and the buttons.                                            *)
(***************************************************************************)

\* The flights that keep the buttons disabled.
Marked(fs) == {f \in DOMAIN fs : f.kind \in {"command", "reload"}}

Solo(fs) == \A f, g \in Marked(fs) : f = g /\ fs[f] = 1

IsBag(fs) == fs \in [DOMAIN fs -> Nat \ {0}]

\* Except on the page of the listings there is one row to have buttons, and they
\* are disabled while a flight keeps them so.
OneButton(fs, p, b) == p # "listings" => Solo(fs) /\ (Marked(fs) # {} => b = p)

\* Disabled buttons wait for a flight.
Waits(fs, b) == b # None => \E f \in Marked(fs) : f.row = b

SpinnerInv ==
  /\ IsBag(flights)
  /\ loading \in BOOLEAN /\ resetting \in BOOLEAN /\ timers \in Nat
  /\ loading => LoadsIn(flights)
  /\ Waits(flights, busy)
  /\ OneButton(flights, page, busy)

LEMMA BagAfterAdd ==
  ASSUME NEW B, NEW x, IsBag(B)
  PROVE  IsBag(BagAdd(B, x))
BY DEF IsBag, BagAdd

LEMMA BagAfterRemove ==
  ASSUME NEW B, NEW x, IsBag(B)
  PROVE  IsBag(BagRemove(B, x))
<1>1. CASE x \in DOMAIN B /\ B[x] = 1
  <2>1. BagRemove(B, x) = [e \in DOMAIN B \ {x} |-> B[e]]  BY <1>1 DEF BagRemove
  <2> QED BY <2>1 DEF IsBag
<1>2. CASE x \in DOMAIN B /\ B[x] # 1
  <2>1. BagRemove(B, x) = [e \in DOMAIN B |-> IF e = x THEN B[e] - 1 ELSE B[e]]
    BY <1>2 DEF BagRemove
  <2>2. B[x] - 1 \in Nat \ {0}  BY <1>2 DEF IsBag
  <2> QED BY <2>1, <2>2 DEF IsBag
<1>3. CASE x \notin DOMAIN B  BY <1>3 DEF BagRemove
<1> QED BY <1>1, <1>2, <1>3

LEMMA CountAfterAdd ==
  ASSUME NEW B, NEW x
  PROVE  /\ \A y \in DOMAIN B : y # x => BagAdd(B, x)[y] = B[y]
         /\ x \notin DOMAIN B => BagAdd(B, x)[x] = 1
BY DEF BagAdd

LEMMA CountAfterRemove ==
  ASSUME NEW B, NEW x
  PROVE  /\ \A y \in DOMAIN BagRemove(B, x) : y # x => BagRemove(B, x)[y] = B[y]
         /\ B[x] = 1 => x \notin DOMAIN BagRemove(B, x)
BY DEF BagRemove

\* A flight that keeps no button disabled comes or goes.
LEMMA UnmarkedComes ==
  ASSUME NEW B, NEW x, x.kind \notin {"command", "reload"}
  PROVE  /\ Marked(BagAdd(B, x)) = Marked(B)
         /\ Solo(B) => Solo(BagAdd(B, x))
<1> DEFINE C == BagAdd(B, x)
<1>1. DOMAIN C = DOMAIN B \union {x}  BY AddedFlight
<1>2. \A y \in DOMAIN B : y # x => C[y] = B[y]  BY CountAfterAdd
<1> HIDE DEF C
<1>3. Marked(C) = Marked(B)  BY <1>1 DEF Marked
<1>4. Solo(B) => Solo(C)  BY <1>2, <1>3 DEF Solo, Marked
<1> QED BY <1>3, <1>4 DEF C

LEMMA UnmarkedGoes ==
  ASSUME NEW B, NEW x, x.kind \notin {"command", "reload"}
  PROVE  /\ Marked(BagRemove(B, x)) = Marked(B)
         /\ Solo(B) => Solo(BagRemove(B, x))
<1> DEFINE C == BagRemove(B, x)
<1>1. DOMAIN C \subseteq DOMAIN B  BY RemovedFlight
<1>2. \A y \in DOMAIN B : y # x => y \in DOMAIN C  BY OtherFlight
<1>3. \A y \in DOMAIN C : y # x => C[y] = B[y]  BY CountAfterRemove
<1> HIDE DEF C
<1>4. Marked(C) = Marked(B)  BY <1>1, <1>2 DEF Marked
<1>5. Solo(B) => Solo(C)  BY <1>3, <1>4 DEF Solo, Marked
<1> QED BY <1>4, <1>5 DEF C

\* The one that does goes, and another may take its place.
LEMMA MarkedGoes ==
  ASSUME NEW B, NEW x \in Marked(B), Solo(B)
  PROVE  Marked(BagRemove(B, x)) = {}
<1> DEFINE C == BagRemove(B, x)
<1>1. DOMAIN C \subseteq DOMAIN B  BY RemovedFlight
<1>2. x \notin DOMAIN C  BY CountAfterRemove DEF Solo
<1> HIDE DEF C
<1>3. Marked(C) = {}  BY <1>1, <1>2 DEF Marked, Solo
<1> QED BY <1>3 DEF C

LEMMA MarkedComes ==
  ASSUME NEW B, NEW x, x.kind \in {"command", "reload"}, Marked(B) = {}
  PROVE  Marked(BagAdd(B, x)) = {x} /\ Solo(BagAdd(B, x))
<1> DEFINE C == BagAdd(B, x)
<1>1. DOMAIN C = DOMAIN B \union {x}  BY AddedFlight
<1>2. x \notin DOMAIN B  BY DEF Marked
<1>3. C[x] = 1  BY <1>2, CountAfterAdd
<1> HIDE DEF C
<1>4. Marked(C) = {x}  BY <1>1 DEF Marked
<1>5. Solo(C)  BY <1>3, <1>4 DEF Solo
<1> QED BY <1>4, <1>5 DEF C

\* A flight is replaced by one that keeps the buttons as it did.
LEMMA Replaced ==
  ASSUME NEW B, NEW x \in DOMAIN B, NEW y, Solo(B),
         x.kind \in {"command", "reload"} <=> y.kind \in {"command", "reload"}
  PROVE  /\ Solo(BagAdd(BagRemove(B, x), y))
         /\ Marked(BagAdd(BagRemove(B, x), y)) # {} <=> Marked(B) # {}
<1>1. CASE x.kind \in {"command", "reload"}
  <2>1. x \in Marked(B)  BY <1>1 DEF Marked
  <2>2. Marked(BagRemove(B, x)) = {}  BY <2>1, MarkedGoes
  <2> QED BY <1>1, <2>1, <2>2, MarkedComes
<1>2. CASE x.kind \notin {"command", "reload"}
  <2>1. Marked(BagRemove(B, x)) = Marked(B) /\ Solo(BagRemove(B, x))
    BY <1>2, UnmarkedGoes
  <2> QED BY <1>2, <2>1, UnmarkedComes
<1> QED BY <1>1, <1>2

LEMMA LoadsAfterAdd ==
  ASSUME NEW B, NEW x, LoadsIn(B) \/ x.kind \in Loads
  PROVE  LoadsIn(BagAdd(B, x))
<1> DEFINE C == BagAdd(B, x)
<1>1. DOMAIN C = DOMAIN B \union {x}  BY AddedFlight
<1> HIDE DEF C
<1>2. LoadsIn(C)  BY <1>1 DEF LoadsIn
<1> QED BY <1>2 DEF C

LEMMA LoadsAfterRemove ==
  ASSUME NEW B, NEW x, LoadsIn(B), x.kind \notin Loads
  PROVE  LoadsIn(BagRemove(B, x))
<1>1. PICK y \in DOMAIN B : y.kind \in Loads  BY DEF LoadsIn
<1>2. y \in DOMAIN BagRemove(B, x)  BY <1>1, OtherFlight
<1> QED BY <1>1, <1>2 DEF LoadsIn

LEMMA BagOfSet ==
  ASSUME NEW S
  PROVE  IsBag(SetToBag(S))
BY DEF IsBag, SetToBag

LEMMA SpinnerAfterMount ==
  ASSUME NEW p, NEW cs, cs # {}, Mount(p, cs), timers' \in Nat
  PROVE  SpinnerInv'
<1> DEFINE new == {Load(p, c) : c \in cs}
<1>1. /\ flights' = IF Pages[p].load = <<>> THEN EmptyBag ELSE SetToBag(new)
      /\ loading' = (Pages[p].load # <<>>)
      /\ busy' = None /\ resetting' = FALSE
  BY DEF Mount
<1>2. \A f \in new : f.kind = "load"  BY LoadParts
<1>3. new # {}  OBVIOUS
<1> HIDE DEF new
<1>4. Waits(flights', busy')  BY <1>1 DEF Waits
<1>5. CASE Pages[p].load = <<>>
  <2>1. flights' = EmptyBag /\ loading' = FALSE  BY <1>1, <1>5
  <2>2. IsBag(flights') /\ DOMAIN flights' = {}  BY <2>1, BagOfSet, FlightsOfSet DEF EmptyBag
  <2>3. Marked(flights') = {}  BY <2>2 DEF Marked
  <2> QED BY <1>1, <1>4, <2>1, <2>2, <2>3 DEF SpinnerInv, OneButton, Solo
<1>6. CASE Pages[p].load # <<>>
  <2>1. flights' = SetToBag(new) /\ loading' = TRUE  BY <1>1, <1>6
  <2>2. IsBag(flights') /\ DOMAIN flights' = new  BY <2>1, BagOfSet, FlightsOfSet
  <2>3. Marked(flights') = {}  BY <1>2, <2>2 DEF Marked
  <2>4. LoadsIn(flights')  BY <1>2, <1>3, <2>2 DEF LoadsIn, Loads
  <2> QED BY <1>1, <1>4, <2>1, <2>2, <2>3, <2>4 DEF SpinnerInv, OneButton, Solo
<1> QED BY <1>5, <1>6

\* A load or a lookup begins.
LEMMA SpinnerAfterStart ==
  ASSUME SpinnerInv, NEW new, new.kind \notin {"command", "reload"},
         flights' = BagAdd(flights, new), UNCHANGED <<page, busy>>,
         resetting' \in BOOLEAN, timers' \in Nat,
         \/ loading' = loading
         \/ loading' = TRUE /\ new.kind \in Loads
  PROVE  SpinnerInv'
<1>1. IsBag(flights')  BY BagAfterAdd DEF SpinnerInv
<1>2. Marked(flights') = Marked(flights) /\ (Solo(flights) => Solo(flights'))
  BY UnmarkedComes
<1>3. loading' => LoadsIn(flights')  BY LoadsAfterAdd DEF SpinnerInv
<1>4. Waits(flights', busy') /\ OneButton(flights', page', busy')
  BY <1>2 DEF SpinnerInv, Waits, OneButton
<1> QED BY <1>1, <1>3, <1>4 DEF SpinnerInv

LEMMA SpinnerAtRest ==
  ASSUME SpinnerInv, UNCHANGED <<page, flights, loading, busy>>,
         resetting' \in BOOLEAN, timers' \in Nat
  PROVE  SpinnerInv'
BY DEF SpinnerInv

LEMMA SpinnerInNewContext ==
  ASSUME SpinnerInv, NEW c, ChangeContext(c), resetting' \in BOOLEAN, timers' \in Nat
  PROVE  SpinnerInv'
<1> DEFINE new == Load(page, c)
<1>1. new.kind = "load"  BY LoadParts
<1>2. /\ UNCHANGED page
      /\ \/ UNCHANGED <<flights, loading, busy>>
         \/ flights' = BagAdd(flights, new) /\ loading' = TRUE /\ UNCHANGED busy
  BY DEF ChangeContext
<1> HIDE DEF new
<1>3. new.kind \in Loads /\ new.kind \notin {"command", "reload"}  BY <1>1 DEF Loads
<1>4. CASE UNCHANGED <<flights, loading, busy>>  BY <1>2, <1>4, SpinnerAtRest
<1>5. CASE flights' = BagAdd(flights, new) /\ loading' = TRUE /\ UNCHANGED busy
  BY <1>2, <1>3, <1>5, SpinnerAfterStart
<1> QED BY <1>2, <1>4, <1>5

\* The flight that disables the buttons goes, and they come back.
LEMMA ButtonsComeBack ==
  ASSUME SpinnerInv, NEW f \in DOMAIN flights, f.kind \in {"command", "reload"}
  PROVE  /\ Waits(BagRemove(flights, f), None)
         /\ OneButton(BagRemove(flights, f), page, None)
<1>1. f \in Marked(flights)  BY DEF Marked
<1>2. Solo(flights) => Marked(BagRemove(flights, f)) = {}  BY <1>1, MarkedGoes
<1> QED BY <1>2 DEF SpinnerInv, Waits, OneButton, Solo

LEMMA SpinnerAfterEnd ==
  ASSUME SpinnerInv, NEW f \in DOMAIN flights, f.kind \in Loads \union {"lookup"},
         Ends(f), UNCHANGED <<page, resetting, timers>>
  PROVE  SpinnerInv'
<1>1. /\ flights' = BagRemove(flights, f)
      /\ loading' = IF f.kind \in Loads THEN FALSE ELSE loading
      /\ busy' = IF f.kind = "reload" THEN None ELSE busy
  BY DEF Ends
<1>2. IsBag(flights')  BY <1>1, BagAfterRemove DEF SpinnerInv
<1>3. loading' => LoadsIn(flights')  BY <1>1, LoadsAfterRemove DEF SpinnerInv
<1>4. loading' \in BOOLEAN  BY <1>1 DEF SpinnerInv
<1>5. Waits(flights', busy') /\ OneButton(flights', page', busy')
  <2>1. CASE f.kind = "reload"  BY <1>1, <2>1, ButtonsComeBack
  <2>2. CASE f.kind # "reload"
    <3>1. f.kind \notin {"command", "reload"}  BY <2>2 DEF Loads
    <3>2. Marked(flights') = Marked(flights) /\ (Solo(flights) => Solo(flights'))
      BY <1>1, <3>1, UnmarkedGoes
    <3> QED BY <1>1, <2>2, <3>2 DEF SpinnerInv, Waits, OneButton
  <2> QED BY <2>1, <2>2
<1> QED BY <1>2, <1>3, <1>4, <1>5 DEF SpinnerInv

\* A flight is replaced by one that keeps the same buttons as they are.
LEMMA ButtonsAfterReplacing ==
  ASSUME SpinnerInv, NEW f \in DOMAIN flights, NEW g, g.row = f.row,
         f.kind \in {"command", "reload"} <=> g.kind \in {"command", "reload"}
  PROVE  /\ Waits(BagAdd(BagRemove(flights, f), g), busy)
         /\ OneButton(BagAdd(BagRemove(flights, f), g), page, busy)
<1> DEFINE left == BagRemove(flights, f)
           fs == BagAdd(left, g)
<1>1. Solo(flights) => Solo(fs) /\ (Marked(fs) # {} <=> Marked(flights) # {})  BY Replaced
<1>2. DOMAIN fs = DOMAIN left \union {g}  BY AddedFlight
<1>3. \A x \in DOMAIN flights : x # f => x \in DOMAIN left  BY OtherFlight
<1> HIDE DEF left, fs
<1>4. Waits(fs, busy)
  <2> SUFFICES ASSUME busy # None PROVE \E x \in Marked(fs) : x.row = busy  BY DEF Waits
  <2>1. PICK x \in Marked(flights) : x.row = busy  BY DEF SpinnerInv, Waits
  <2>2. CASE x = f  BY <1>2, <2>1, <2>2 DEF Marked
  <2>3. CASE x # f  BY <1>2, <1>3, <2>1, <2>3 DEF Marked
  <2> QED BY <2>2, <2>3
<1>5. OneButton(fs, page, busy)  BY <1>1 DEF SpinnerInv, OneButton
<1> QED BY <1>4, <1>5 DEF fs, left

\* A flight goes on as one of its kind.
LEMMA SpinnerGoesOn ==
  ASSUME SpinnerInv, NEW f \in DOMAIN flights, NEW g, g.kind = f.kind, g.row = f.row,
         flights' = BagAdd(BagRemove(flights, f), g),
         UNCHANGED <<page, loading, busy, resetting, timers>>
  PROVE  SpinnerInv'
<1>1. IsBag(flights')  BY BagAfterAdd, BagAfterRemove DEF SpinnerInv
<1>2. Waits(flights', busy') /\ OneButton(flights', page', busy')  BY ButtonsAfterReplacing
<1>3. loading' => LoadsIn(flights')
  <2>1. CASE f.kind \in Loads  BY <2>1, LoadsAfterAdd
  <2>2. CASE f.kind \notin Loads  BY <2>2, LoadsAfterAdd, LoadsAfterRemove DEF SpinnerInv
  <2> QED BY <2>1, <2>2
<1> QED BY <1>1, <1>2, <1>3 DEF SpinnerInv

LEMMA SpinnerAfterAnswer ==
  ASSUME SpinnerInv, ScreenInv, NEW f \in DOMAIN flights, Answer(f)
  PROVE  SpinnerInv'
<1> DEFINE EndsOrGoesOn ==
             /\ UNCHANGED <<page, resetting>>
             /\ \/ Ends(f)
                \/ \E left :
                     /\ flights' = BagAdd(BagRemove(flights, f), [f EXCEPT !.todo = left])
                     /\ UNCHANGED <<loading, busy>>
<1>1. f.kind \in Loads \union {"lookup"} /\ UNCHANGED timers  BY DEF Answer
<1>2. timers' \in Nat  BY <1>1 DEF SpinnerInv
<1>3. EndsOrGoesOn \/ Mount("broken", {ctx})
  <2>1. ASSUME NEW some \in BOOLEAN, FetchSucceeds(f, some)
        PROVE  EndsOrGoesOn
    BY <2>1 DEF FetchSucceeds
  <2>2. ASSUME NEW failed, FetchFails(f, failed)
        PROVE  EndsOrGoesOn
    BY <2>2 DEF FetchFails
  <2>3. ASSUME NEW bare, FetchesNothing(f, bare)
        PROVE  EndsOrGoesOn \/ Mount("broken", {ctx})
    BY <2>3 DEF FetchesNothing
  <2> HIDE DEF EndsOrGoesOn
  <2> QED BY <2>1, <2>2, <2>3 DEF Answer
<1>4. \A left : /\ [f EXCEPT !.todo = left].kind = f.kind
                /\ [f EXCEPT !.todo = left].row = f.row
  BY DEF ScreenInv, FlightOK, FlightFields
<1>5. CASE Mount("broken", {ctx})  BY <1>2, <1>5, SpinnerAfterMount
<1>6. CASE EndsOrGoesOn
  <2>1. CASE Ends(f)  BY <1>1, <1>6, <2>1, SpinnerAfterEnd
  <2>2. CASE \E left :
               /\ flights' = BagAdd(BagRemove(flights, f), [f EXCEPT !.todo = left])
               /\ UNCHANGED <<loading, busy>>
    BY <1>1, <1>4, <1>6, <2>2, SpinnerGoesOn
  <2> QED BY <1>6, <2>1, <2>2
<1> QED BY <1>3, <1>5, <1>6

LEMMA SpinnerAfterCommands ==
  ASSUME SpinnerInv, NEW f \in DOMAIN flights, CommandSucceeds(f) \/ CommandFails(f)
  PROVE  SpinnerInv'
<1>0. UNCHANGED <<page, resetting, timers>>  BY DEF CommandSucceeds, CommandFails
<1>1. CASE CommandSucceeds(f)
  <2> DEFINE new == Reload(page, f)
  <2>1. new.kind = "reload" /\ new.row = f.row  BY ReloadParts
  <2>2. /\ f.kind = "command"
        /\ flights' = BagAdd(BagRemove(flights, f), new)
        /\ loading' = TRUE /\ UNCHANGED busy
    BY <1>1 DEF CommandSucceeds, Reload
  <2> HIDE DEF new
  <2>3. IsBag(flights')  BY <2>2, BagAfterAdd, BagAfterRemove DEF SpinnerInv
  <2>4. Waits(flights', busy') /\ OneButton(flights', page', busy')
    BY <1>0, <2>1, <2>2, ButtonsAfterReplacing
  <2>5. LoadsIn(flights')  BY <2>1, <2>2, LoadsAfterAdd DEF Loads
  <2> QED BY <1>0, <2>2, <2>3, <2>4, <2>5 DEF SpinnerInv
<1>2. CASE CommandFails(f)
  <2>1. /\ f.kind = "command" /\ flights' = BagRemove(flights, f)
        /\ loading' = loading /\ busy' = None
    BY <1>2 DEF CommandFails
  <2>2. Waits(flights', busy') /\ OneButton(flights', page', busy')
    BY <1>0, <2>1, ButtonsComeBack
  <2>3. IsBag(flights')  BY <2>1, BagAfterRemove DEF SpinnerInv
  <2>4. loading' => LoadsIn(flights')  BY <2>1, LoadsAfterRemove DEF SpinnerInv, Loads
  <2> QED BY <1>0, <2>1, <2>2, <2>3, <2>4 DEF SpinnerInv
<1> QED BY <1>1, <1>2

\* A command disables the buttons of its row; where there is one row, none was
\* under way.
LEMMA SpinnerAfterSending ==
  ASSUME SpinnerInv, NEW row \in Targets(page), SendCommand(row)
  PROVE  SpinnerInv'
<1> DEFINE new == Command(row, About.from)
<1>1. new.kind = "command" /\ new.row = row  BY CommandParts
<1>2. /\ flights' = BagAdd(flights, new) /\ busy # row /\ busy' = row
      /\ UNCHANGED <<page, loading, resetting, timers>>
  BY DEF SendCommand, Command
<1> HIDE DEF new
<1>3. IsBag(flights')  BY <1>2, BagAfterAdd DEF SpinnerInv
<1>4. loading' => LoadsIn(flights')  BY <1>2, LoadsAfterAdd DEF SpinnerInv
<1>5. Waits(flights', busy')
  <2>1. new \in DOMAIN flights'
    <3>1. DOMAIN BagAdd(flights, new) = DOMAIN flights \union {new}  BY AddedFlight
    <3> QED BY <1>2, <3>1
  <2> QED BY <1>1, <1>2, <2>1 DEF Waits, Marked
<1>6. OneButton(flights', page', busy')
  <2> SUFFICES ASSUME page # "listings"
               PROVE  Solo(flights') /\ busy' = page
    BY <1>2 DEF OneButton
  <2>1. row = page  BY DEF Targets
  <2>2. Marked(flights) = {}  BY <1>2, <2>1 DEF SpinnerInv, OneButton
  <2> QED BY <1>1, <1>2, <2>1, <2>2, MarkedComes
<1> QED BY <1>2, <1>3, <1>4, <1>5, <1>6 DEF SpinnerInv

LEMMA SpinnerAfterPerson ==
  ASSUME SpinnerInv, Person
  PROVE  SpinnerInv'
<1>0. resetting \in BOOLEAN /\ timers \in Nat  BY DEF SpinnerInv
<1>1. ASSUME NEW p \in Visited, Visit(p)
      PROVE  SpinnerInv'
  BY <1>0, <1>1, SpinnerAfterMount DEF Visit
<1>2. ASSUME NEW p \in Visited, HardReload(p)
      PROVE  SpinnerInv'
  BY <1>2, SpinnerAfterMount DEF HardReload
<1>3. CASE ToggleDemoMode  BY <1>0, <1>3, SpinnerInNewContext DEF ToggleDemoMode
<1>4. CASE SaveSettings  BY <1>0, <1>4, SpinnerInNewContext DEF SaveSettings
<1>5. CASE ResetDemo
  <2>1. timers' \in Nat /\ resetting' \in BOOLEAN  BY <1>0, <1>5 DEF ResetDemo
  <2> QED BY <1>5, <2>1, SpinnerAtRest DEF ResetDemo, view
<1>6. CASE LookUp
  <2> DEFINE new == Flight("lookup", ctx, <<Find("selected")>>)
  <2>1. new.kind = "lookup"  BY FlightParts
  <2>2. flights' = BagAdd(flights, new) /\ UNCHANGED <<page, loading, busy, resetting, timers>>
    BY <1>6 DEF LookUp, view
  <2> HIDE DEF new
  <2> QED BY <1>0, <2>1, <2>2, SpinnerAfterStart
<1>7. CASE SelectListing
  <2> DEFINE new == Flight("load", ctx, <<Clearing(Fetch({"recommendations"}))>>)
  <2>1. new.kind = "load"  BY FlightParts
  <2>2. /\ flights' = BagAdd(flights, new)
        /\ loading' = TRUE /\ UNCHANGED <<page, busy, resetting, timers>>
    BY <1>7 DEF SelectListing
  <2> HIDE DEF new
  <2> QED BY <1>0, <2>1, <2>2, SpinnerAfterStart DEF Loads
<1>8. CASE \E row \in Targets(page) : SendCommand(row)  BY <1>8, SpinnerAfterSending
<1>9. CASE ShowProfile  BY <1>0, <1>9, SpinnerAtRest DEF ShowProfile
<1>10. CASE CloseProfile  BY <1>0, <1>10, SpinnerAtRest DEF CloseProfile
<1>11. CASE PickPayment  BY <1>0, <1>11, SpinnerAtRest DEF PickPayment
<1>12. CASE DismissPayment  BY <1>0, <1>12, SpinnerAtRest DEF DismissPayment
<1> QED BY <1>1, <1>2, <1>3, <1>4, <1>5, <1>6, <1>7, <1>8, <1>9, <1>10, <1>11, <1>12
     DEF Person

LEMMA SpinnerKept == SpinnerInv /\ ScreenInv /\ [Next]_vars => SpinnerInv'
<1> SUFFICES ASSUME SpinnerInv, ScreenInv, [Next]_vars PROVE SpinnerInv'  OBVIOUS
<1>0. resetting \in BOOLEAN /\ timers \in Nat  BY DEF SpinnerInv
<1>1. CASE UNCHANGED vars  BY <1>0, <1>1, SpinnerAtRest DEF vars
<1>2. CASE Answers  BY <1>2, SpinnerAfterAnswer, SpinnerAfterCommands DEF Answers
<1>3. CASE ResetFires
  <2>1. timers' \in Nat /\ resetting' \in BOOLEAN  BY <1>0, <1>3 DEF ResetFires
  <2> QED BY <1>3, <2>1, SpinnerInNewContext DEF ResetFires
<1> QED BY <1>1, <1>2, <1>3, SpinnerAfterPerson DEF Next

LEMMA SpinnerAtFirst == Init => SpinnerInv
<1> SUFFICES ASSUME Init PROVE SpinnerInv  OBVIOUS
<1> DEFINE new == Load(page, Default)
<1>1. /\ loading = (Pages[page].load # <<>>)
      /\ busy = None /\ resetting = FALSE /\ timers = 0
      /\ flights = IF Pages[page].load = <<>> THEN EmptyBag ELSE SetToBag({new})
  BY DEF Init
<1>2. new.kind = "load"  BY LoadParts
<1> HIDE DEF new
<1>3. IsBag(flights) /\ Waits(flights, busy)  BY <1>1, BagOfSet DEF EmptyBag, Waits
<1>4. CASE Pages[page].load = <<>>
  <2>1. flights = EmptyBag /\ loading = FALSE  BY <1>1, <1>4
  <2>2. DOMAIN flights = {}  BY <2>1, FlightsOfSet DEF EmptyBag
  <2>3. Marked(flights) = {}  BY <2>2 DEF Marked
  <2> QED BY <1>1, <1>3, <2>1, <2>3 DEF SpinnerInv, OneButton, Solo
<1>5. CASE Pages[page].load # <<>>
  <2>1. flights = SetToBag({new}) /\ loading = TRUE  BY <1>1, <1>5
  <2>2. DOMAIN flights = {new}  BY <2>1, FlightsOfSet
  <2>3. Marked(flights) = {} /\ LoadsIn(flights)  BY <1>2, <2>2 DEF Marked, LoadsIn, Loads
  <2> QED BY <1>1, <1>3, <2>1, <2>3 DEF SpinnerInv, OneButton, Solo
<1> QED BY <1>4, <1>5

LEMMA SpinnerAlways == Spec => []SpinnerInv
<1>1. SpinnerInv /\ (ScreenInv /\ ContextTyped) /\ [Next]_vars => SpinnerInv'
  BY SpinnerKept
<1> QED BY <1>1, SpinnerAtFirst, ScreenAlways, PTL DEF Spec

\* The values have their types for any servers, settings and listings; the spinner
\* turns only for a load, disabled buttons wait for a command or its reload about
\* their row, and except on the page of the listings one command at most is under
\* way.
THEOREM AdminTypes == Spec => []AdminTypeOK
<1>1. SpinnerInv /\ ScreenInv /\ ContextTyped => AdminTypeOK
  <2> SUFFICES ASSUME SpinnerInv, ScreenInv, ContextTyped PROVE AdminTypeOK  OBVIOUS
  <2>1. /\ \A s \in DOMAIN rows : rows[s] \in Value
        /\ picked \in Value \union {None}
    BY DEF ScreenInv, RowOK, Value
  <2>2. \A f \in DOMAIN flights :
          f.kind \in Loads \union {"lookup", "command"} /\ f.ctx \in Contexts
    BY DEF ScreenInv, FlightOK, Kinds
  <2>3. busy # None =>
          \E f \in DOMAIN flights : f.kind \in {"command", "reload"} /\ f.row = busy
    BY DEF SpinnerInv, Waits, Marked
  <2>4. page # "listings" =>
          \A f, g \in DOMAIN flights :
            {f.kind, g.kind} \subseteq {"command", "reload"} => f = g /\ flights[f] = 1
    BY DEF SpinnerInv, OneButton, Marked, Solo
  <2>5. page \in Visited \union {"broken"} /\ ctx \in Contexts /\ DOMAIN rows = SlotsOf(page)
    BY DEF ScreenInv, ContextTyped
  <2>6. /\ loading \in BOOLEAN /\ resetting \in BOOLEAN /\ timers \in Nat
        /\ loading => LoadsIn(flights)
    BY DEF SpinnerInv
  <2> QED BY <2>1, <2>2, <2>3, <2>4, <2>5, <2>6 DEF AdminTypeOK
<1> QED BY <1>1, SpinnerAlways, ScreenAlways, PTL

-----------------------------------------------------------------------------
(***************************************************************************)
(* What the page shows, and what its load has yet to write.                *)
(***************************************************************************)

\* Slots that loads may leave as they are.
Apart(p) == SkippedSlots(p) \union {"selected"}

StagesOf(p) ==
  {Pages[p].load[i] : i \in DOMAIN Pages[p].load}
    \union (IF p = "recommendations" THEN {Clearing(Fetch({"recommendations"}))} ELSE {})

Planned(todo, p) == todo \in Seq(StagesOf(p)) /\ todo # <<>>

\* The slots that a plan fills, and what a load writes until it is done.
Ahead(todo) == UNION {todo[i].slots : i \in DOMAIN todo}

Awaited(f, p) == Pages[p].summary \union Ahead(f.todo)

FlightPlanned(f, p) ==
  /\ f.kind \in Loads => Planned(f.todo, p)
  /\ f.kind = "lookup" => f.todo = <<Find("selected")>>
  /\ f.kind = "command" => Pages[p].load # <<>>

AllPlanned(fs, p) == \A f \in DOMAIN fs : FlightPlanned(f, p)

\* There is at most one load, and it began in this context.
Alone(fs, c) ==
  \A f, g \in DOMAIN fs :
    f.kind \in Loads /\ g.kind \in Loads => f = g /\ fs[f] = 1 /\ f.ctx = c

\* Every slot that loads fill comes from this context or is still to be written.
Expected(fs, shown, p, c) ==
  \A s \in DOMAIN shown \ Apart(p) :
    \/ shown[s].from = Source(c)
    \/ \E f \in DOMAIN fs : f.kind \in Loads /\ s \in Awaited(f, p)

FreshInv ==
  /\ AllPlanned(flights, page)
  /\ ~ spoilt => Alone(flights, ctx) /\ Expected(flights, rows, page, ctx)

LEMMA OneIsAPlan ==
  ASSUME NEW a, NEW S, a \in S
  PROVE  <<a>> \in Seq(S)
OBVIOUS

LEMMA TwoAreAPlan ==
  ASSUME NEW a, NEW b, NEW S, a \in S, b \in S
  PROVE  <<a, b>> \in Seq(S)
OBVIOUS

LEMMA ThreeAreAPlan ==
  ASSUME NEW a, NEW b, NEW c, NEW S, a \in S, b \in S, c \in S
  PROVE  <<a, b, c>> \in Seq(S)
OBVIOUS

\* Every page but the settings and a broken one fetches something, in at most three stages.
LEMMA PagePlans ==
  ASSUME NEW p \in DOMAIN Pages
  PROVE  \/ p \in {"settings", "broken"}
         \/ \E a : Pages[p].load = <<a>>
         \/ \E a, b : Pages[p].load = <<a, b>>
         \/ \E a, b, c : Pages[p].load = <<a, b, c>>
<1> DEFINE OneStep(row) == \E a : row.load = <<a>>
<1>1. /\ OneStep(OrdersPage) /\ OneStep(TransactionsPage) /\ OneStep(MarketsPage)
      /\ OneStep(MarketHealthPage) /\ OneStep(AnalyticsPage) /\ OneStep(LogisticsPage)
      /\ OneStep(GrievancesPage) /\ OneStep(AuditPage)
  BY DEF OrdersPage, TransactionsPage, MarketsPage, MarketHealthPage, AnalyticsPage,
         LogisticsPage, GrievancesPage, AuditPage, ReadOnly
<1>2. /\ OneStep(UsersPage) /\ OneStep(FPOsPage) /\ OneStep(BuyersPage)
      /\ OneStep(ListingsPage) /\ OneStep(PaymentsPage)
  BY DEF UsersPage, FPOsPage, BuyersPage, ListingsPage, PaymentsPage, ReadOnly
<1>3. \E a, b : OverviewPage.load = <<a, b>>  BY DEF OverviewPage, ReadOnly
<1>4. \E a, b : RecommendationsPage.load = <<a, b>>  BY DEF RecommendationsPage, ReadOnly
<1>5. \E a, b : OrderDetailPage.load = <<a, b>>  BY DEF OrderDetailPage, ReadOnly
<1>6. \E a, b, c : ListingDetailPage.load = <<a, b, c>>  BY DEF ListingDetailPage, ReadOnly
<1>7. \/ p \in {"overview", "order", "recommendations", "listing", "settings",
             "broken"}
      \/ OneStep(Pages[p])
  <2> HIDE DEF OneStep
  <2> QED BY <1>1, <1>2, PageNames, PageRows
<1> QED BY <1>3, <1>4, <1>5, <1>6, <1>7, PageRows

LEMMA NoStage ==
  ASSUME NEW load, load = <<>>
  PROVE  DOMAIN load = {}
<1>1. load \in Seq({}) /\ Len(load) = 0  OBVIOUS
<1> QED BY <1>1

LEMMA EmptyPages ==
  ASSUME NEW p \in {"settings", "broken"}
  PROVE  /\ Pages[p].load = <<>>
         /\ ~ Pages[p].command
         /\ SlotsOf(p) = {}
<1>1. Pages[p] = SettingsPage \/ Pages[p] = BrokenPage  BY PageRows
<1>2. /\ SettingsPage.load = <<>> /\ ~ SettingsPage.command
      /\ SettingsPage.summary = {} /\ SettingsPage.drawer = ""
      /\ BrokenPage.load = <<>> /\ ~ BrokenPage.command
      /\ BrokenPage.summary = {} /\ BrokenPage.drawer = ""
  BY DEF SettingsPage, BrokenPage, ReadOnly
<1>3. DOMAIN Pages[p].load = {}  BY <1>1, <1>2, NoStage
<1>4. LoadedSlots(p) = {}  BY <1>3 DEF LoadedSlots
<1> QED BY <1>1, <1>2, <1>4 DEF SlotsOf

LEMMA PagePlanned ==
  ASSUME NEW p \in DOMAIN Pages, Pages[p].load # <<>>
  PROVE  Planned(Pages[p].load, p)
<1> DEFINE load == Pages[p].load
<1>1. \A i \in DOMAIN load : load[i] \in StagesOf(p)  BY DEF StagesOf
<1>2. \/ \E a : load = <<a>>
      \/ \E a, b : load = <<a, b>>
      \/ \E a, b, c : load = <<a, b, c>>
  BY PagePlans, EmptyPages
<1>3. load # <<>>  OBVIOUS
<1> HIDE DEF load
<1>4. CASE \E a : load = <<a>>
  <2>1. PICK a : load = <<a>>  BY <1>4
  <2>2. 1 \in DOMAIN load /\ load[1] = a  BY <2>1
  <2> QED BY <1>1, <2>1, <2>2, OneIsAPlan DEF Planned, load
<1>5. CASE \E a, b : load = <<a, b>>
  <2>1. PICK a, b : load = <<a, b>>  BY <1>5
  <2>2. {1, 2} \subseteq DOMAIN load /\ load[1] = a /\ load[2] = b  BY <2>1
  <2> QED BY <1>1, <2>1, <2>2, TwoAreAPlan DEF Planned, load
<1>6. CASE \E a, b, c : load = <<a, b, c>>
  <2>1. PICK a, b, c : load = <<a, b, c>>  BY <1>6
  <2>2. {1, 2, 3} \subseteq DOMAIN load /\ load[1] = a /\ load[2] = b /\ load[3] = c
    BY <2>1
  <2> QED BY <1>1, <2>1, <2>2, ThreeAreAPlan DEF Planned, load
<1> QED BY <1>2, <1>4, <1>5, <1>6

\* Only what loads may leave alone is skipped.
LEMMA SkippedStage ==
  ASSUME NEW p, NEW st \in StagesOf(p), st.needs # ""
  PROVE  st.slots \subseteq Apart(p)
<1>1. Clearing(Fetch({"recommendations"})).needs = ""  BY DEF Clearing, Fetch
<1>2. PICK i \in DOMAIN Pages[p].load : st = Pages[p].load[i]  BY <1>1 DEF StagesOf
<1> QED BY <1>2 DEF Apart, SkippedSlots

LEMMA NextStage ==
  ASSUME NEW S, NEW todo \in Seq(S), todo # <<>>
  PROVE  /\ Head(todo) \in S /\ Tail(todo) \in Seq(S)
         /\ Ahead(todo) = Head(todo).slots \union Ahead(Tail(todo))
<1>1. /\ Head(todo) = todo[1] /\ Tail(todo) \in Seq(S)
      /\ Len(todo) \in Nat \ {0} /\ DOMAIN todo = 1..Len(todo)
      /\ DOMAIN Tail(todo) = 1..(Len(todo) - 1)
      /\ \A i \in 1..(Len(todo) - 1) : Tail(todo)[i] = todo[i + 1]
  OBVIOUS
<1>2. todo[1] \in S  BY <1>1
<1>3. ASSUME NEW s \in Ahead(todo)
      PROVE  s \in todo[1].slots \union Ahead(Tail(todo))
  <2>1. PICK i \in 1..Len(todo) : s \in todo[i].slots  BY <1>1, <1>3 DEF Ahead
  <2>2. CASE i = 1  BY <2>1, <2>2
  <2>3. CASE i # 1
    <3>1. i - 1 \in 1..(Len(todo) - 1) /\ (i - 1) + 1 = i  BY <1>1, <2>3
    <3>2. i - 1 \in DOMAIN Tail(todo) /\ Tail(todo)[i - 1] = todo[i]  BY <1>1, <3>1
    <3> QED BY <2>1, <3>2 DEF Ahead
  <2> QED BY <2>2, <2>3
<1>4. ASSUME NEW s \in Ahead(Tail(todo))
      PROVE  s \in Ahead(todo)
  <2>1. PICK i \in 1..(Len(todo) - 1) : s \in Tail(todo)[i].slots  BY <1>1, <1>4 DEF Ahead
  <2>2. i + 1 \in DOMAIN todo  BY <1>1
  <2> QED BY <1>1, <2>1, <2>2 DEF Ahead
<1>5. todo[1].slots \subseteq Ahead(todo)  BY <1>1 DEF Ahead
<1> QED BY <1>1, <1>2, <1>3, <1>4, <1>5

\* An answered stage is taken off the plan, and nothing else that loads must fill.
LEMMA RestOfPlan ==
  ASSUME NEW p, NEW todo, Planned(todo, p), NEW answers
  PROVE  /\ Rest(todo, answers) # <<>> => Planned(Rest(todo, answers), p)
         /\ Ahead(todo) \subseteq Head(todo).slots \union Ahead(Rest(todo, answers))
                                    \union Apart(p)
<1> DEFINE left == Tail(todo)
<1>1. left \in Seq(StagesOf(p)) /\ Ahead(todo) = Head(todo).slots \union Ahead(left)
  BY NextStage DEF Planned
<1>2. Rest(todo, answers) = IF left # <<>> /\ Unasked(Head(left), answers)
                            THEN Tail(left) ELSE left
  BY DEF Rest
<1> HIDE DEF left
<1>3. CASE left # <<>> /\ Unasked(Head(left), answers)
  <2>1. /\ Head(left) \in StagesOf(p) /\ Tail(left) \in Seq(StagesOf(p))
        /\ Ahead(left) = Head(left).slots \union Ahead(Tail(left))
    BY <1>1, <1>3, NextStage
  <2>2. Head(left).slots \subseteq Apart(p)  BY <1>3, <2>1, SkippedStage DEF Unasked
  <2> QED BY <1>1, <1>2, <1>3, <2>1, <2>2 DEF Planned
<1>4. CASE ~ (left # <<>> /\ Unasked(Head(left), answers))
  BY <1>1, <1>2, <1>4 DEF Planned
<1> QED BY <1>3, <1>4

\* The page's load is to fill all that loads fill.
LEMMA LoadAwaitsAll ==
  ASSUME NEW p, NEW x, x.todo = Pages[p].load
  PROVE  SlotsOf(p) \ Apart(p) \subseteq Awaited(x, p)
<1>1. SlotsOf(p) \ Apart(p) \subseteq LoadedSlots(p) \union Pages[p].summary
  BY DEF SlotsOf, Apart
<1>2. LoadedSlots(p) = Ahead(Pages[p].load)  BY DEF LoadedSlots, Ahead
<1> QED BY <1>1, <1>2 DEF Awaited

LEMMA LoadPlanned ==
  ASSUME NEW p \in DOMAIN Pages, Pages[p].load # <<>>, NEW x, x.kind \in Loads,
         x.todo = Pages[p].load
  PROVE  FlightPlanned(x, p)
<1>1. x.kind \notin {"lookup", "command"}  BY DEF Loads
<1> QED BY <1>1, PagePlanned DEF FlightPlanned

LEMMA SettingsAlone ==
  ASSUME NEW p \in DOMAIN Pages, Pages[p].load = <<>>
  PROVE  p \in {"settings", "broken"}
<1>1. /\ \A a : Pages[p].load # <<a>>
      /\ \A a, b : Pages[p].load # <<a, b>>
      /\ \A a, b, c : Pages[p].load # <<a, b, c>>
  OBVIOUS
<1> QED BY <1>1, PagePlans


\* A flight of another kind comes or goes.
LEMMA OtherComes ==
  ASSUME NEW B, NEW x, x.kind \notin Loads, NEW shown, NEW p, NEW c
  PROVE  /\ Alone(B, c) => Alone(BagAdd(B, x), c)
         /\ Expected(B, shown, p, c) => Expected(BagAdd(B, x), shown, p, c)
<1> DEFINE C == BagAdd(B, x)
<1>1. DOMAIN C = DOMAIN B \union {x}  BY AddedFlight
<1>2. \A y \in DOMAIN B : y # x => C[y] = B[y]  BY CountAfterAdd
<1> HIDE DEF C
<1>3. Alone(B, c) => Alone(C, c)  BY <1>1, <1>2 DEF Alone
<1>4. Expected(B, shown, p, c) => Expected(C, shown, p, c)  BY <1>1 DEF Expected
<1> QED BY <1>3, <1>4 DEF C

LEMMA OtherGoes ==
  ASSUME NEW B, NEW x, x.kind \notin Loads, NEW shown, NEW p, NEW c
  PROVE  /\ Alone(B, c) => Alone(BagRemove(B, x), c)
         /\ Expected(B, shown, p, c) => Expected(BagRemove(B, x), shown, p, c)
         /\ LoadsIn(BagRemove(B, x)) => LoadsIn(B)
<1> DEFINE C == BagRemove(B, x)
<1>1. DOMAIN C \subseteq DOMAIN B  BY RemovedFlight
<1>2. \A y \in DOMAIN B : y # x => y \in DOMAIN C  BY OtherFlight
<1>3. \A y \in DOMAIN C : y # x => C[y] = B[y]  BY CountAfterRemove
<1> HIDE DEF C
<1>4. Alone(B, c) => Alone(C, c)  BY <1>1, <1>3 DEF Alone
<1>5. Expected(B, shown, p, c) => Expected(C, shown, p, c)  BY <1>2 DEF Expected
<1>6. LoadsIn(C) => LoadsIn(B)  BY <1>1 DEF LoadsIn
<1> QED BY <1>4, <1>5, <1>6 DEF C

\* A load begins while there is none, and ends while there is no other.
LEMMA LoadComes ==
  ASSUME NEW B, NEW x, x.kind \in Loads, ~ LoadsIn(B)
  PROVE  Alone(BagAdd(B, x), x.ctx)
<1> DEFINE C == BagAdd(B, x)
<1>1. DOMAIN C = DOMAIN B \union {x}  BY AddedFlight
<1>2. x \notin DOMAIN B  BY DEF LoadsIn
<1>3. C[x] = 1  BY <1>2, CountAfterAdd
<1> HIDE DEF C
<1>4. \A f \in DOMAIN C : f.kind \in Loads => f = x  BY <1>1 DEF LoadsIn
<1>5. Alone(C, x.ctx)  BY <1>3, <1>4 DEF Alone
<1> QED BY <1>5 DEF C

LEMMA LoadGoes ==
  ASSUME NEW B, NEW x \in DOMAIN B, x.kind \in Loads, NEW c, Alone(B, c)
  PROVE  ~ LoadsIn(BagRemove(B, x)) /\ x.ctx = c
<1> DEFINE C == BagRemove(B, x)
<1>1. DOMAIN C \subseteq DOMAIN B  BY RemovedFlight
<1>2. B[x] = 1 /\ x.ctx = c  BY DEF Alone
<1>3. x \notin DOMAIN C  BY <1>2, CountAfterRemove
<1> HIDE DEF C
<1>4. ~ LoadsIn(C)  BY <1>1, <1>3 DEF LoadsIn, Alone
<1> QED BY <1>2, <1>4 DEF C

LEMMA NoneIsAlone ==
  ASSUME NEW B, ~ LoadsIn(B), NEW c
  PROVE  Alone(B, c)
BY DEF Alone, LoadsIn

LEMMA PlannedComes ==
  ASSUME NEW B, NEW p, AllPlanned(B, p), NEW x, FlightPlanned(x, p)
  PROVE  AllPlanned(BagAdd(B, x), p)
<1> DEFINE C == BagAdd(B, x)
<1>1. DOMAIN C = DOMAIN B \union {x}  BY AddedFlight
<1> HIDE DEF C
<1>2. AllPlanned(C, p)  BY <1>1 DEF AllPlanned
<1> QED BY <1>2 DEF C

LEMMA PlannedGoes ==
  ASSUME NEW B, NEW p, AllPlanned(B, p), NEW x
  PROVE  AllPlanned(BagRemove(B, x), p)
BY RemovedFlight DEF AllPlanned

\* The page's load begins in the context of the page, while there is no other.
LEMMA WholeLoadComes ==
  ASSUME NEW B, ~ LoadsIn(B), NEW p, NEW x, x.kind \in Loads, x.todo = Pages[p].load,
         NEW shown, DOMAIN shown = SlotsOf(p)
  PROVE  /\ Alone(BagAdd(B, x), x.ctx)
         /\ Expected(BagAdd(B, x), shown, p, x.ctx)
<1>1. SlotsOf(p) \ Apart(p) \subseteq Awaited(x, p)  BY LoadAwaitsAll
<1>2. Alone(BagAdd(B, x), x.ctx)  BY LoadComes
<1> DEFINE C == BagAdd(B, x)
<1>3. x \in DOMAIN C  BY AddedFlight
<1> HIDE DEF C
<1>4. Expected(C, shown, p, x.ctx)  BY <1>1, <1>3 DEF Expected
<1> QED BY <1>2, <1>4 DEF C

\* The page is mounted.
LEMMA FreshAfterMount ==
  ASSUME NEW p \in DOMAIN Pages, NEW cs, cs # {}, Mount(p, cs), ctx' \in cs
  PROVE  FreshInv'
<1> DEFINE new == {Load(p, c) : c \in cs}
<1>1. /\ page' = p /\ rows' = [s \in SlotsOf(p) |-> Blank]
      /\ flights' = IF Pages[p].load = <<>> THEN EmptyBag ELSE SetToBag(new)
      /\ spoilt' = (\E c, d \in cs : c # d)
  BY DEF Mount
<1>2. \A c \in cs : /\ Load(p, c).kind \in Loads /\ Load(p, c).ctx = c
                    /\ Load(p, c).todo = Pages[p].load
  BY LoadParts DEF Loads
<1>3. CASE Pages[p].load = <<>>
  <2>1. DOMAIN flights' = {}  BY <1>1, <1>3, FlightsOfSet DEF EmptyBag
  <2>2. DOMAIN rows' = {}  BY <1>1, <1>3, SettingsAlone, EmptyPages
  <2> QED BY <2>1, <2>2 DEF FreshInv, AllPlanned, Alone, Expected
<1>4. CASE Pages[p].load # <<>>
  <2>1. flights' = SetToBag(new)  BY <1>1, <1>4
  <2>2. DOMAIN flights' = new /\ \A x \in new : flights'[x] = 1
    BY <2>1, FlightsOfSet DEF SetToBag
  <2>3. \A x \in new : FlightPlanned(x, p)  BY <1>2, <1>4, LoadPlanned
  <2>4. AllPlanned(flights', p)  BY <2>2, <2>3 DEF AllPlanned
  <2>5. ASSUME ~ spoilt'
        PROVE  Alone(flights', ctx') /\ Expected(flights', rows', p, ctx')
    <3> DEFINE x == Load(p, ctx')
    <3>1. cs = {ctx'}  BY <1>1, <2>5
    <3>2. new = {x}  BY <3>1
    <3>3. x.kind \in Loads /\ x.ctx = ctx' /\ x.todo = Pages[p].load  BY <1>2
    <3>4. SlotsOf(p) \ Apart(p) \subseteq Awaited(x, p)  BY <3>3, LoadAwaitsAll
    <3> HIDE DEF new, x
    <3>5. Alone(flights', ctx')  BY <2>2, <3>2, <3>3 DEF Alone
    <3>6. Expected(flights', rows', p, ctx')
      BY <1>1, <2>2, <3>2, <3>3, <3>4 DEF Expected
    <3> QED BY <3>5, <3>6
  <2> QED BY <1>1, <2>4, <2>5 DEF FreshInv
<1> QED BY <1>3, <1>4

\* The effect of the mounted page runs again.
LEMMA FreshInNewContext ==
  ASSUME ScreenInv, FreshInv, NEW c, ChangeContext(c)
  PROVE  FreshInv'
<1>0. page \in DOMAIN Pages /\ DOMAIN rows = SlotsOf(page)  BY DEF ScreenInv
<1>1. /\ ctx' = c /\ UNCHANGED <<page, rows>>
      /\ IF c = ctx \/ Pages[page].load = <<>>
         THEN UNCHANGED <<flights, loading, spoilt>>
         ELSE /\ flights' = BagAdd(flights, Load(page, c))
              /\ spoilt' = LoadsIn(flights)
  BY DEF ChangeContext
<1>2. CASE c = ctx  BY <1>1, <1>2 DEF FreshInv
<1>3. CASE Pages[page].load = <<>>
  <2>1. UNCHANGED <<page, rows, flights, spoilt>>  BY <1>1, <1>3
  <2>2. page \in {"settings", "broken"}  BY <1>0, <1>3, SettingsAlone
  <2>3. DOMAIN rows' = {}  BY <1>0, <2>1, <2>2, EmptyPages
  <2>4. ~ LoadsIn(flights)
    <3>1. \A i : i \notin DOMAIN Pages[page].load  BY <1>3, NoStage
    <3>2. StagesOf(page) = {}  BY <2>2, <3>1 DEF StagesOf
    <3>3. \A todo : ~ Planned(todo, page)  BY <3>2, NextStage DEF Planned
    <3> QED BY <3>3 DEF FreshInv, AllPlanned, FlightPlanned, LoadsIn
  <2>5. Alone(flights', ctx')  BY <2>1, <2>4, NoneIsAlone
  <2>6. Expected(flights', rows', page', ctx')  BY <2>3 DEF Expected
  <2> QED BY <2>1, <2>5, <2>6 DEF FreshInv
<1>4. CASE c # ctx /\ Pages[page].load # <<>>
  <2> DEFINE x == Load(page, c)
  <2>1. flights' = BagAdd(flights, x) /\ spoilt' = LoadsIn(flights)  BY <1>1, <1>4
  <2>2. x.kind \in Loads /\ x.ctx = c /\ x.todo = Pages[page].load  BY LoadParts DEF Loads
  <2> HIDE DEF x
  <2>3. FlightPlanned(x, page)  BY <1>0, <1>4, <2>2, LoadPlanned
  <2>4. AllPlanned(flights', page)  BY <2>1, <2>3, PlannedComes DEF FreshInv
  <2>5. ~ spoilt' => Alone(flights', c) /\ Expected(flights', rows, page, c)
    BY <1>0, <2>1, <2>2, WholeLoadComes
  <2> QED BY <1>1, <2>4, <2>5 DEF FreshInv
<1> QED BY <1>2, <1>3, <1>4

\* Nothing that is to be fresh changes.
LEMMA FreshAtRest ==
  ASSUME FreshInv, UNCHANGED <<page, ctx, flights, spoilt>>,
         DOMAIN rows' = DOMAIN rows,
         \A s \in DOMAIN rows : s # "selected" => rows'[s] = rows[s]
  PROVE  FreshInv'
<1>1. Expected(flights, rows, page, ctx) => Expected(flights, rows', page, ctx)
  BY DEF Expected, Apart
<1> QED BY <1>1 DEF FreshInv

LEMMA FreshWithNewFlight ==
  ASSUME FreshInv, NEW new, new.kind \notin Loads, FlightPlanned(new, page),
         flights' = BagAdd(flights, new), UNCHANGED <<page, ctx, rows, spoilt>>
  PROVE  FreshInv'
BY OtherComes, PlannedComes DEF FreshInv

LEMMA FreshWithoutFlight ==
  ASSUME FreshInv, NEW f, f.kind \notin Loads,
         flights' = BagRemove(flights, f), UNCHANGED <<page, ctx, spoilt>>,
         DOMAIN rows' = DOMAIN rows,
         \A s \in DOMAIN rows : s # "selected" => rows'[s] = rows[s]
  PROVE  FreshInv'
<1>1. AllPlanned(flights', page)  BY PlannedGoes DEF FreshInv
<1>2. ~ spoilt => Alone(flights', ctx) /\ Expected(flights', rows, page, ctx)
  BY OtherGoes DEF FreshInv
<1>3. Expected(flights', rows, page, ctx) => Expected(flights', rows', page, ctx)
  BY DEF Expected, Apart
<1> QED BY <1>1, <1>2, <1>3 DEF FreshInv

LEMMA FreshAfterCommands ==
  ASSUME ScreenInv, FreshInv, NEW f \in DOMAIN flights, CommandSucceeds(f) \/ CommandFails(f)
  PROVE  FreshInv'
<1>0. page \in DOMAIN Pages /\ DOMAIN rows = SlotsOf(page) /\ FlightPlanned(f, page)
  BY DEF ScreenInv, FreshInv, AllPlanned
<1>1. CASE CommandSucceeds(f)
  <2> DEFINE left == BagRemove(flights, f)
             x == Reload(page, f)
  <2>1. /\ f.kind = "command" /\ flights' = BagAdd(left, x)
        /\ spoilt' = (LoadsIn(flights) \/ f.ctx # ctx)
        /\ UNCHANGED <<page, ctx, rows>>
    BY <1>1 DEF CommandSucceeds, Reload
  <2>2. x.kind \in Loads /\ x.ctx = f.ctx /\ x.todo = Pages[page].load
    BY ReloadParts DEF Loads
  <2>3. f.kind \notin Loads  BY <2>1 DEF Loads
  <2>4. AllPlanned(left, page)  BY PlannedGoes DEF FreshInv
  <2>5. ~ LoadsIn(flights) => ~ LoadsIn(left)  BY <2>3, OtherGoes
  <2>6. Pages[page].load # <<>>  BY <1>0, <2>1 DEF FlightPlanned
  <2> HIDE DEF left, x
  <2>7. FlightPlanned(x, page)  BY <1>0, <2>2, <2>6, LoadPlanned
  <2>8. AllPlanned(flights', page)  BY <2>1, <2>4, <2>7, PlannedComes
  <2>9. ~ spoilt' => Alone(flights', ctx) /\ Expected(flights', rows, page, ctx)
    BY <1>0, <2>1, <2>2, <2>5, WholeLoadComes
  <2> QED BY <2>1, <2>8, <2>9 DEF FreshInv
<1>2. CASE CommandFails(f)
  <2>1. /\ flights' = BagRemove(flights, f) /\ f.kind = "command"
        /\ UNCHANGED <<page, ctx, rows, spoilt>>
    BY <1>2 DEF CommandFails
  <2> QED BY <2>1, FreshWithoutFlight DEF Loads
<1> QED BY <1>1, <1>2

\* A lookup writes the drawer, if anything.
LEMMA FreshAfterLookup ==
  ASSUME ScreenInv, FreshInv, NEW f \in DOMAIN flights, f.kind = "lookup", Answer(f)
  PROVE  FreshInv'
<1> DEFINE st == Head(f.todo)
<1>1. f.todo = <<Find("selected")>>  BY DEF FreshInv, AllPlanned, FlightPlanned
<1>2. st = Find("selected") /\ Tail(f.todo) = <<>>
  BY <1>1
<1>3. st.slots = {"selected"} /\ st.onError = "stop"  BY <1>2 DEF Find, Fetch
<1>4. \A answers : Rest(f.todo, answers) = <<>>  BY <1>2 DEF Rest
<1>5. f.kind \notin Loads  BY DEF Loads
<1>6. UNCHANGED ctx  BY DEF Answer
<1> HIDE DEF st
<1>7. ASSUME NEW some \in BOOLEAN, FetchSucceeds(f, some)
      PROVE  FreshInv'
  <2>1. /\ rows' = [s \in DOMAIN rows |->
                      IF s \in st.slots THEN [z \in st.slots |-> Answered(f, st, some)][s]
                      ELSE IF s \in Pages[page].summary /\ f.kind \in Loads
                           THEN Answered(f, st, TRUE) ELSE rows[s]]
        /\ Ends(f) /\ UNCHANGED <<page, spoilt>>
    BY <1>4, <1>7 DEF FetchSucceeds, st
  <2>2. DOMAIN rows' = DOMAIN rows  BY <2>1
  <2>3. \A s \in DOMAIN rows : s # "selected" => rows'[s] = rows[s]
    BY <1>3, <1>5, <2>1
  <2> QED BY <1>5, <1>6, <2>1, <2>2, <2>3, FreshWithoutFlight DEF Ends
<1>8. ASSUME NEW failed, FetchFails(f, failed)
      PROVE  FreshInv'
  <2>1. /\ rows' = rows /\ Ends(f) /\ UNCHANGED page
        /\ spoilt' = (spoilt \/ (f.kind \in Loads /\ st.onError = "stop"))
    BY <1>3, <1>8 DEF FetchFails, st
  <2>2. flights' = BagRemove(flights, f)  BY <2>1 DEF Ends
  <2>3. AllPlanned(flights', page)  BY <2>2, PlannedGoes DEF FreshInv
  <2>4. ~ spoilt => Alone(flights', ctx) /\ Expected(flights', rows, page, ctx)
    BY <1>5, <2>2, OtherGoes DEF FreshInv
  <2>5. ~ spoilt' => ~ spoilt  BY <2>1
  <2> QED BY <1>6, <2>1, <2>3, <2>4, <2>5 DEF FreshInv
<1>9. \A bare : ~ FetchesNothing(f, bare)  BY <1>5 DEF FetchesNothing
<1> QED BY <1>7, <1>8, <1>9 DEF Answer, st

\* A stage of a load is answered, and the load goes on or ends.
LEMMA FreshAfterStage ==
  ASSUME ScreenInv, FreshInv, NEW f \in DOMAIN flights, f.kind \in Loads, NEW answers,
         UNCHANGED <<page, ctx>>, ~ spoilt' => ~ spoilt, DOMAIN rows' = DOMAIN rows,
         \A s \in DOMAIN rows \ Head(f.todo).slots :
           \/ rows'[s] = rows[s]
           \/ rows'[s].from = Source(f.ctx),
         \A s \in DOMAIN rows \intersect Head(f.todo).slots : rows'[s].from = Source(f.ctx),
         \/ /\ Rest(f.todo, answers) # <<>>
            /\ flights' = BagAdd(BagRemove(flights, f),
                                 [f EXCEPT !.todo = Rest(f.todo, answers)])
         \/ /\ Rest(f.todo, answers) = <<>>
            /\ flights' = BagRemove(flights, f)
            /\ \A s \in DOMAIN rows \intersect Pages[page].summary :
                 rows'[s].from = Source(f.ctx)
  PROVE  FreshInv'
<1> DEFINE st == Head(f.todo)
           left == Rest(f.todo, answers)
           fs == BagRemove(flights, f)
           new == [f EXCEPT !.todo = left]
<1>0. FlightOK(f, been) /\ Planned(f.todo, page)
  BY DEF ScreenInv, FreshInv, AllPlanned, FlightPlanned
<1>1. /\ left # <<>> => Planned(left, page)
      /\ Ahead(f.todo) \subseteq st.slots \union Ahead(left) \union Apart(page)
  BY <1>0, RestOfPlan
<1>2. AllPlanned(fs, page)  BY PlannedGoes DEF FreshInv
<1>3. ~ spoilt => ~ LoadsIn(fs) /\ f.ctx = ctx  BY LoadGoes DEF FreshInv
<1>4. /\ new.kind = f.kind /\ new.ctx = f.ctx /\ new.todo = left
  BY <1>0 DEF FlightOK, FlightFields
<1>5. ASSUME ~ spoilt, NEW s \in DOMAIN rows \ Apart(page)
      PROVE  \/ rows'[s].from = Source(ctx)
             \/ s \in Ahead(left)
             \/ s \in Pages[page].summary
  <2>1. \/ rows[s].from = Source(ctx)
        \/ \E g \in DOMAIN flights : g.kind \in Loads /\ s \in Awaited(g, page)
    BY <1>5 DEF FreshInv, Expected
  <2>2. \A g \in DOMAIN flights : g.kind \in Loads => g = f
    BY <1>5 DEF FreshInv, Alone
  <2>3. rows[s].from = Source(ctx) \/ s \in Pages[page].summary \union Ahead(f.todo)
    BY <2>1, <2>2 DEF Awaited
  <2>4. CASE s \in st.slots  BY <1>3, <1>5, <2>4
  <2>5. CASE s \notin st.slots
    <3>1. rows'[s] = rows[s] \/ rows'[s].from = Source(ctx)  BY <1>3, <1>5, <2>5
    <3> QED BY <1>1, <1>5, <2>3, <2>5, <3>1
  <2> QED BY <2>4, <2>5
<1>6. \/ left # <<>> /\ flights' = BagAdd(fs, new)
      \/ /\ left = <<>> /\ flights' = fs
         /\ \A s \in DOMAIN rows \intersect Pages[page].summary : rows'[s].from = Source(f.ctx)
  OBVIOUS
<1>7. Ahead(<<>>) = {}  BY NoStage DEF Ahead
<1> HIDE DEF st, left, fs, new
<1>8. CASE left # <<>> /\ flights' = BagAdd(fs, new)
  <2>1. FlightPlanned(new, page)  BY <1>1, <1>4, <1>8 DEF FlightPlanned, Loads
  <2>2. AllPlanned(flights', page)  BY <1>2, <1>8, <2>1, PlannedComes
  <2>3. ASSUME ~ spoilt
        PROVE  Alone(flights', ctx) /\ Expected(flights', rows', page, ctx)
    <3>1. Alone(flights', ctx)  BY <1>3, <1>4, <1>8, <2>3, LoadComes
    <3>2. new \in DOMAIN flights'
      <4>1. DOMAIN BagAdd(fs, new) = DOMAIN fs \union {new}  BY AddedFlight
      <4> QED BY <1>8, <4>1
    <3>3. Awaited(new, page) = Pages[page].summary \union Ahead(left)  BY <1>4 DEF Awaited
    <3>4. Expected(flights', rows', page, ctx)
      BY <1>4, <1>5, <2>3, <3>2, <3>3 DEF Expected
    <3> QED BY <3>1, <3>4
  <2> QED BY <2>2, <2>3 DEF FreshInv
<1>9. CASE /\ left = <<>> /\ flights' = fs
           /\ \A s \in DOMAIN rows \intersect Pages[page].summary :
                rows'[s].from = Source(f.ctx)
  <2>1. ASSUME ~ spoilt
        PROVE  Alone(flights', ctx) /\ Expected(flights', rows', page, ctx)
    <3>1. Alone(flights', ctx)  BY <1>3, <1>9, <2>1, NoneIsAlone
    <3>2. \A s \in DOMAIN rows \ Apart(page) : rows'[s].from = Source(ctx)
      BY <1>3, <1>5, <1>7, <1>9, <2>1
    <3> QED BY <3>1, <3>2 DEF Expected
  <2> QED BY <1>2, <1>9, <2>1 DEF FreshInv
<1> QED BY <1>6, <1>8, <1>9

\* A load is answered without data: the page breaks, the count fails, or the
\* stage is empty.
LEMMA FreshAfterNothing ==
  ASSUME ScreenInv, FreshInv, NEW f \in DOMAIN flights, NEW bare, FetchesNothing(f, bare),
         UNCHANGED ctx
  PROVE  FreshInv'
<1> DEFINE st == Head(f.todo)
           left == Tail(f.todo)
           counts == Pages[page].summary # {}
           nothing == [s \in {} |-> Blank]
<1>1. f.kind \in Loads  BY DEF FetchesNothing
<1>2. CASE Throws(bare)
  <2>1. Mount("broken", {ctx})  BY <1>2 DEF FetchesNothing
  <2> QED BY <2>1, FreshAfterMount, PageNames
<1>3. CASE ~ Throws(bare)
  <2>1. /\ UNCHANGED page
        /\ rows' = [s \in DOMAIN rows |-> IF s \in st.slots THEN Emptied(f) ELSE rows[s]]
        /\ spoilt' = (spoilt \/ counts)
        /\ IF left # <<>> /\ ~ counts
           THEN flights' = BagAdd(BagRemove(flights, f), [f EXCEPT !.todo = left])
           ELSE flights' = BagRemove(flights, f)
    BY <1>3 DEF FetchesNothing, Ends
  <2>2. CASE counts
    <3>1. flights' = BagRemove(flights, f) /\ spoilt'  BY <2>1, <2>2
    <3>2. AllPlanned(flights', page)  BY <3>1, PlannedGoes DEF FreshInv
    <3> QED BY <2>1, <3>1, <3>2 DEF FreshInv
  <2>3. CASE ~ counts
    <3>1. DOMAIN nothing = {}  OBVIOUS
    <3> HIDE DEF nothing
    <3>2. Rest(f.todo, nothing) = left  BY <3>1 DEF Rest, Unasked
    <3>3. Emptied(f).from = Source(f.ctx)  BY DEF Emptied
    <3>4. Pages[page].summary = {}  BY <2>3
    <3> HIDE DEF st, left, counts
    <3>5. /\ DOMAIN rows' = DOMAIN rows
          /\ \A s \in DOMAIN rows \ st.slots : rows'[s] = rows[s]
          /\ \A s \in DOMAIN rows \intersect st.slots : rows'[s].from = Source(f.ctx)
      BY <2>1, <3>3
    <3>6. ~ spoilt' => ~ spoilt  BY <2>1
    <3>7. \/ left # <<>> /\ flights' = BagAdd(BagRemove(flights, f), [f EXCEPT !.todo = left])
          \/ left = <<>> /\ flights' = BagRemove(flights, f)
      BY <2>1, <2>3
    <3> QED BY <1>1, <2>1, <3>2, <3>4, <3>5, <3>6, <3>7, FreshAfterStage DEF st
  <2> QED BY <2>2, <2>3
<1> QED BY <1>2, <1>3

\* The answer to a load.
LEMMA FreshAfterLoad ==
  ASSUME ScreenInv, FreshInv, NEW f \in DOMAIN flights, f.kind \in Loads, Answer(f)
  PROVE  FreshInv'
<1> DEFINE st == Head(f.todo)
<1>1. UNCHANGED ctx  BY DEF Answer
<1>2. \A z, some : Answered(f, z, some).from = Source(f.ctx)  BY DEF Answered
<1>3. Emptied(f).from = Source(f.ctx)  BY DEF Emptied
<1>4. ASSUME NEW some \in BOOLEAN, FetchSucceeds(f, some)
      PROVE  FreshInv'
  <2> DEFINE answers == [s \in st.slots |-> Answered(f, st, some)]
             left == Rest(f.todo, answers)
  <2>1. /\ IF left # <<>>
           THEN /\ rows' = [s \in DOMAIN rows |-> IF s \in st.slots THEN answers[s] ELSE rows[s]]
                /\ flights' = BagAdd(BagRemove(flights, f), [f EXCEPT !.todo = left])
           ELSE /\ rows' = [s \in DOMAIN rows |->
                              IF s \in st.slots THEN answers[s]
                              ELSE IF s \in Pages[page].summary /\ f.kind \in Loads
                                   THEN Answered(f, st, TRUE) ELSE rows[s]]
                /\ flights' = BagRemove(flights, f)
        /\ UNCHANGED <<page, spoilt>>
    BY <1>4 DEF FetchSucceeds, Ends
  <2>2. \A s \in st.slots : answers[s].from = Source(f.ctx)  BY <1>2
  <2> HIDE DEF answers
  <2>3. /\ DOMAIN rows' = DOMAIN rows
        /\ \A s \in DOMAIN rows \ st.slots : rows'[s] = rows[s] \/ rows'[s].from = Source(f.ctx)
        /\ \A s \in DOMAIN rows \intersect st.slots : rows'[s].from = Source(f.ctx)
        /\ left = <<>> => \A s \in DOMAIN rows \intersect Pages[page].summary :
                            rows'[s].from = Source(f.ctx)
    <3> HIDE DEF st, left
    <3>1. CASE left # <<>>
      <4>1. rows' = [s \in DOMAIN rows |-> IF s \in st.slots THEN answers[s] ELSE rows[s]]
        BY <2>1, <3>1
      <4> QED BY <2>2, <3>1, <4>1
    <3>2. CASE left = <<>>
      <4>1. rows' = [s \in DOMAIN rows |->
                       IF s \in st.slots THEN answers[s]
                       ELSE IF s \in Pages[page].summary /\ f.kind \in Loads
                            THEN Answered(f, st, TRUE) ELSE rows[s]]
        BY <2>1, <3>2
      <4> QED BY <1>2, <2>2, <4>1
    <3> QED BY <3>1, <3>2
  <2> QED BY <1>1, <2>1, <2>3, FreshAfterStage
<1>5. ASSUME NEW failed \in SUBSET st.slots, FetchFails(f, failed)
      PROVE  FreshInv'
  <2> DEFINE answers == [s \in st.slots |-> IF s \in failed THEN Emptied(f)
                                            ELSE Answered(f, st, TRUE)]
             left == Rest(f.todo, answers)
  <2>1. /\ IF st.onError = "stop"
           THEN rows' = rows /\ flights' = BagRemove(flights, f)
           ELSE IF left # <<>>
           THEN /\ rows' = [s \in DOMAIN rows |-> IF s \in st.slots THEN answers[s] ELSE rows[s]]
                /\ flights' = BagAdd(BagRemove(flights, f), [f EXCEPT !.todo = left])
           ELSE /\ rows' = [s \in DOMAIN rows |->
                              IF s \in st.slots THEN answers[s]
                              ELSE IF s \in Pages[page].summary /\ f.kind \in Loads
                                   THEN Emptied(f) ELSE rows[s]]
                /\ flights' = BagRemove(flights, f)
        /\ spoilt' = (spoilt \/ (f.kind \in Loads /\ st.onError = "stop"))
        /\ UNCHANGED page
    BY <1>5 DEF FetchFails, Ends
  <2>2. \A s \in st.slots : answers[s].from = Source(f.ctx)  BY <1>2, <1>3
  <2> HIDE DEF answers
  <2>3. CASE st.onError = "stop"
    <3>1. AllPlanned(flights', page)  BY <2>1, <2>3, PlannedGoes DEF FreshInv
    <3>2. spoilt'  BY <2>1, <2>3
    <3> QED BY <1>1, <2>1, <3>1, <3>2 DEF FreshInv
  <2>4. CASE st.onError # "stop"
    <3>1. ~ spoilt' => ~ spoilt  BY <2>1
    <3>2. /\ DOMAIN rows' = DOMAIN rows
          /\ \A s \in DOMAIN rows \ st.slots :
               rows'[s] = rows[s] \/ rows'[s].from = Source(f.ctx)
          /\ \A s \in DOMAIN rows \intersect st.slots : rows'[s].from = Source(f.ctx)
          /\ left = <<>> => \A s \in DOMAIN rows \intersect Pages[page].summary :
                              rows'[s].from = Source(f.ctx)
      <4> HIDE DEF st, left
      <4>1. CASE left # <<>>
        <5>1. rows' = [s \in DOMAIN rows |-> IF s \in st.slots THEN answers[s] ELSE rows[s]]
          BY <2>1, <2>4, <4>1
        <5> QED BY <2>2, <4>1, <5>1
      <4>2. CASE left = <<>>
        <5>1. rows' = [s \in DOMAIN rows |->
                         IF s \in st.slots THEN answers[s]
                         ELSE IF s \in Pages[page].summary /\ f.kind \in Loads
                              THEN Emptied(f) ELSE rows[s]]
          BY <2>1, <2>4, <4>2
        <5> QED BY <1>3, <2>2, <5>1
      <4> QED BY <4>1, <4>2
    <3> QED BY <1>1, <2>1, <2>4, <3>1, <3>2, FreshAfterStage
  <2> QED BY <2>3, <2>4
<1>6. ASSUME NEW bare, FetchesNothing(f, bare)
      PROVE  FreshInv'
  BY <1>1, <1>6, FreshAfterNothing
<1> QED BY <1>4, <1>5, <1>6 DEF Answer

LEMMA FreshAfterPerson ==
  ASSUME ScreenInv, FreshInv, Person
  PROVE  FreshInv'
<1>0. page \in DOMAIN Pages  BY DEF ScreenInv
<1>1. ASSUME NEW p \in Visited, Visit(p)
      PROVE  FreshInv'
  <2>1. Mount(p, {ctx}) /\ ctx' = ctx  BY <1>1 DEF Visit
  <2>2. p \in DOMAIN Pages  BY ConsoleConstants
  <2> QED BY <2>1, <2>2, FreshAfterMount
<1>2. ASSUME NEW p \in Visited, HardReload(p)
      PROVE  FreshInv'
  <2>1. Mount(p, {Default, Hydrated}) /\ ctx' = Hydrated  BY <1>2 DEF HardReload
  <2>2. p \in DOMAIN Pages  BY ConsoleConstants
  <2> QED BY <2>1, <2>2, FreshAfterMount
<1>3. CASE ToggleDemoMode  BY <1>3, FreshInNewContext DEF ToggleDemoMode
<1>4. CASE SaveSettings  BY <1>4, FreshInNewContext DEF SaveSettings
<1>5. CASE ResetDemo  BY <1>5, FreshAtRest DEF ResetDemo, view
<1>6. CASE LookUp
  <2> DEFINE new == Flight("lookup", ctx, <<Find("selected")>>)
  <2>1. new.kind = "lookup" /\ new.todo = <<Find("selected")>>  BY FlightParts
  <2>2. flights' = BagAdd(flights, new) /\ UNCHANGED <<page, ctx, rows, spoilt>>
    BY <1>6 DEF LookUp, view
  <2> HIDE DEF new
  <2>3. FlightPlanned(new, page) /\ new.kind \notin Loads
    BY <2>1 DEF FlightPlanned, Loads
  <2> QED BY <2>2, <2>3, FreshWithNewFlight
<1>7. CASE SelectListing
  <2> DEFINE todo == <<Clearing(Fetch({"recommendations"}))>>
             new == Flight("load", ctx, todo)
  <2>1. new.kind = "load" /\ new.ctx = ctx /\ new.todo = todo  BY FlightParts
  <2>2. /\ page = "recommendations" /\ flights' = BagAdd(flights, new)
        /\ spoilt' = (spoilt \/ LoadsIn(flights))
        /\ UNCHANGED <<page, ctx, rows>>
    BY <1>7 DEF SelectListing
  <2>3. Clearing(Fetch({"recommendations"})) \in StagesOf(page)  BY <2>2 DEF StagesOf
  <2>4. todo \in Seq(StagesOf(page)) /\ todo # <<>>  BY <2>3, OneIsAPlan
  <2> HIDE DEF todo, new
  <2>5. FlightPlanned(new, page)  BY <2>1, <2>4 DEF FlightPlanned, Planned
  <2>6. AllPlanned(flights', page)  BY <2>2, <2>5, PlannedComes DEF FreshInv
  <2>7. ASSUME ~ spoilt'
        PROVE  Alone(flights', ctx) /\ Expected(flights', rows, page, ctx)
    <3>1. ~ spoilt /\ ~ LoadsIn(flights)  BY <2>2, <2>7
    <3>2. Alone(flights', ctx)  BY <2>1, <2>2, <3>1, LoadComes DEF Loads
    <3>3. \A s \in DOMAIN rows \ Apart(page) : rows[s].from = Source(ctx)
      BY <3>1 DEF FreshInv, Expected, LoadsIn
    <3> QED BY <3>2, <3>3 DEF Expected
  <2> QED BY <2>2, <2>6, <2>7 DEF FreshInv
<1>8. ASSUME NEW row \in Targets(page), SendCommand(row)
      PROVE  FreshInv'
  <2> DEFINE new == Command(row, About.from)
  <2>1. new.kind = "command"  BY CommandParts
  <2>2. /\ flights' = BagAdd(flights, new) /\ Pages[page].command
        /\ UNCHANGED <<page, ctx, rows, spoilt>>
    BY <1>8 DEF SendCommand, Command
  <2> HIDE DEF new
  <2>3. Pages[page].load # <<>>  BY <1>0, <2>2, SettingsAlone, EmptyPages
  <2>4. FlightPlanned(new, page) /\ new.kind \notin Loads
    BY <2>1, <2>3 DEF FlightPlanned, Loads
  <2> QED BY <2>2, <2>4, FreshWithNewFlight
<1>9. CASE ShowProfile
  <2>1. /\ UNCHANGED <<page, ctx, flights, spoilt>>
        /\ rows' = [rows EXCEPT !["selected"] = rows[Pages[page].drawer]]
    BY <1>9 DEF ShowProfile
  <2> QED BY <2>1, FreshAtRest
<1>10. CASE CloseProfile
  <2>1. /\ UNCHANGED <<page, ctx, flights, spoilt>>
        /\ rows' = [rows EXCEPT !["selected"] = Blank]
    BY <1>10 DEF CloseProfile
  <2> QED BY <2>1, FreshAtRest
<1>11. CASE PickPayment  BY <1>11, FreshAtRest DEF PickPayment
<1>12. CASE DismissPayment  BY <1>12, FreshAtRest DEF DismissPayment
<1> QED BY <1>1, <1>2, <1>3, <1>4, <1>5, <1>6, <1>7, <1>8, <1>9, <1>10, <1>11, <1>12
     DEF Person

LEMMA FreshKept == FreshInv /\ ScreenInv /\ [Next]_vars => FreshInv'
<1> SUFFICES ASSUME FreshInv, ScreenInv, [Next]_vars PROVE FreshInv'  OBVIOUS
<1>1. CASE UNCHANGED vars  BY <1>1, FreshAtRest DEF vars
<1>2. CASE Answers
  <2>1. ASSUME NEW f \in DOMAIN flights, Answer(f)
        PROVE  FreshInv'
    <3>1. f.kind \in Loads \/ f.kind = "lookup"  BY <2>1 DEF Answer
    <3> QED BY <2>1, <3>1, FreshAfterLoad, FreshAfterLookup
  <2> QED BY <1>2, <2>1, FreshAfterCommands DEF Answers
<1>3. CASE ResetFires  BY <1>3, FreshInNewContext DEF ResetFires
<1> QED BY <1>1, <1>2, <1>3, FreshAfterPerson DEF Next

LEMMA FreshAtFirst == Init => FreshInv
<1> SUFFICES ASSUME Init PROVE FreshInv  OBVIOUS
<1> DEFINE x == Load(page, Default)
<1>1. /\ page \in Visited /\ ctx = Default
      /\ rows = [s \in SlotsOf(page) |-> Blank]
      /\ flights = IF Pages[page].load = <<>> THEN EmptyBag ELSE SetToBag({x})
  BY DEF Init
<1>2. page \in DOMAIN Pages /\ DOMAIN rows = SlotsOf(page)  BY <1>1, ConsoleConstants
<1>3. CASE Pages[page].load = <<>>
  <2>1. DOMAIN flights = {}  BY <1>1, <1>3, FlightsOfSet DEF EmptyBag
  <2>2. DOMAIN rows = {}  BY <1>2, <1>3, SettingsAlone, EmptyPages
  <2> QED BY <2>1, <2>2 DEF FreshInv, AllPlanned, Alone, Expected
<1>4. CASE Pages[page].load # <<>>
  <2>1. flights = SetToBag({x})  BY <1>1, <1>4
  <2>2. DOMAIN flights = {x} /\ flights[x] = 1  BY <2>1, FlightsOfSet DEF SetToBag
  <2>3. x.kind \in Loads /\ x.ctx = Default /\ x.todo = Pages[page].load
    BY LoadParts DEF Loads
  <2> HIDE DEF x
  <2>4. SlotsOf(page) \ Apart(page) \subseteq Awaited(x, page)  BY <2>3, LoadAwaitsAll
  <2>5. FlightPlanned(x, page)  BY <1>2, <1>4, <2>3, LoadPlanned
  <2>6. Expected(flights, rows, page, ctx)  BY <1>2, <2>2, <2>3, <2>4 DEF Expected
  <2>7. Alone(flights, ctx)  BY <1>1, <2>2, <2>3 DEF Alone
  <2> QED BY <2>2, <2>5, <2>6, <2>7 DEF FreshInv, AllPlanned
<1> QED BY <1>3, <1>4

LEMMA FreshAlways == Spec => []FreshInv
<1>1. FreshInv /\ (ScreenInv /\ ContextTyped) /\ [Next]_vars => FreshInv'  BY FreshKept
<1> QED BY <1>1, FreshAtFirst, ScreenAlways, PTL DEF Spec

\* Whatever the servers are and however answers are ordered, fail or are late:
\* once no load is in flight, and the last one neither failed nor met another nor
\* followed a command of another context, the page shows the context that its
\* header names.
THEOREM CurrentWhenSettled == Spec => []CurrentUnlessOvertaken
<1>1. FreshInv => CurrentUnlessOvertaken
  BY DEF FreshInv, Expected, Apart, LoadsIn, CurrentUnlessOvertaken
<1> QED BY <1>1, FreshAlways, PTL

-----------------------------------------------------------------------------
(***************************************************************************)
(* What commands are about.                                                *)
(***************************************************************************)

\* A spinner that has stopped leaves no load in flight, and the payment in the
\* dialog is of the live server the header names.
KeepInv ==
  /\ ~ loading /\ LoadsIn(flights) => spoilt
  /\ picked # None => ctx.demo \/ spoilt \/ picked.from = ctx.url

LEMMA KeepAtRest ==
  ASSUME KeepInv, UNCHANGED <<loading, ctx, flights, spoilt>>, picked' = picked \/ picked' = None
  PROVE  KeepInv'
BY DEF KeepInv

LEMMA KeepAfterMount ==
  ASSUME NEW p, NEW cs, Mount(p, cs)
  PROVE  KeepInv'
<1>1. /\ flights' = IF Pages[p].load = <<>> THEN EmptyBag ELSE SetToBag({Load(p, c) : c \in cs})
      /\ loading' = (Pages[p].load # <<>>) /\ picked' = None
  BY DEF Mount
<1>2. DOMAIN EmptyBag = {}  BY FlightsOfSet DEF EmptyBag
<1>3. ~ loading' => ~ LoadsIn(flights')  BY <1>1, <1>2 DEF LoadsIn
<1> QED BY <1>1, <1>3 DEF KeepInv

\* Only the demo comes on while a dialog is open.
LEMMA KeepInNewContext ==
  ASSUME KeepInv, NEW c, ChangeContext(c), picked = None \/ c.demo
  PROVE  KeepInv'
<1>1. ctx' = c /\ UNCHANGED picked /\ (UNCHANGED <<flights, loading, spoilt>> \/ loading' = TRUE)
  BY DEF ChangeContext
<1> QED BY <1>1 DEF KeepInv

LEMMA KeepAfterEnd ==
  ASSUME KeepInv, FreshInv, NEW f \in DOMAIN flights, f.kind \in Loads \union {"lookup"},
         Ends(f), UNCHANGED <<ctx, picked>>, spoilt => spoilt'
  PROVE  KeepInv'
<1>1. /\ flights' = BagRemove(flights, f)
      /\ loading' = IF f.kind \in Loads THEN FALSE ELSE loading
  BY DEF Ends
<1>2. ASSUME ~ spoilt', ~ loading'
      PROVE  ~ LoadsIn(flights')
  <2>1. CASE f.kind \in Loads  BY <1>1, <1>2, <2>1, LoadGoes DEF FreshInv
  <2>2. CASE f.kind \notin Loads
    <3>1. ~ LoadsIn(flights)  BY <1>1, <1>2, <2>2 DEF KeepInv
    <3> QED BY <1>1, <2>2, <3>1, OtherGoes
  <2> QED BY <2>1, <2>2
<1> QED BY <1>2 DEF KeepInv

LEMMA KeepGoesOn ==
  ASSUME KeepInv, NEW f \in DOMAIN flights, NEW g, g.kind = f.kind,
         flights' = BagAdd(BagRemove(flights, f), g),
         UNCHANGED <<ctx, picked, loading>>, spoilt => spoilt'
  PROVE  KeepInv'
<1>1. LoadsIn(flights') => LoadsIn(flights)
  <2>1. DOMAIN BagAdd(BagRemove(flights, f), g) = DOMAIN BagRemove(flights, f) \union {g}
    BY AddedFlight
  <2>2. DOMAIN BagRemove(flights, f) \subseteq DOMAIN flights  BY RemovedFlight
  <2> QED BY <2>1, <2>2 DEF LoadsIn
<1> QED BY <1>1 DEF KeepInv

LEMMA KeepAfterAnswer ==
  ASSUME KeepInv, FreshInv, ScreenInv, NEW f \in DOMAIN flights, Answer(f)
  PROVE  KeepInv'
<1> DEFINE EndsOrGoesOn ==
             /\ UNCHANGED picked /\ (spoilt => spoilt')
             /\ \/ Ends(f)
                \/ \E left :
                     /\ flights' = BagAdd(BagRemove(flights, f), [f EXCEPT !.todo = left])
                     /\ UNCHANGED loading
<1>1. f.kind \in Loads \union {"lookup"} /\ UNCHANGED ctx  BY DEF Answer
<1>2. EndsOrGoesOn \/ Mount("broken", {ctx})
  <2>1. ASSUME NEW some \in BOOLEAN, FetchSucceeds(f, some)
        PROVE  EndsOrGoesOn
    BY <2>1 DEF FetchSucceeds
  <2>2. ASSUME NEW failed, FetchFails(f, failed)
        PROVE  EndsOrGoesOn
    BY <2>2 DEF FetchFails
  <2>3. ASSUME NEW bare, FetchesNothing(f, bare)
        PROVE  EndsOrGoesOn \/ Mount("broken", {ctx})
    BY <2>3 DEF FetchesNothing
  <2> HIDE DEF EndsOrGoesOn
  <2> QED BY <2>1, <2>2, <2>3 DEF Answer
<1>3. \A left : [f EXCEPT !.todo = left].kind = f.kind
  BY DEF ScreenInv, FlightOK, FlightFields
<1>4. CASE Mount("broken", {ctx})  BY <1>4, KeepAfterMount
<1>5. CASE EndsOrGoesOn
  <2>1. CASE Ends(f)  BY <1>1, <1>5, <2>1, KeepAfterEnd
  <2>2. CASE \E left :
               /\ flights' = BagAdd(BagRemove(flights, f), [f EXCEPT !.todo = left])
               /\ UNCHANGED loading
    BY <1>1, <1>3, <1>5, <2>2, KeepGoesOn
  <2> QED BY <1>5, <2>1, <2>2
<1> QED BY <1>2, <1>4, <1>5

\* What is shown when the spinner has stopped, and no load failed or met another,
\* is of the context of the header.
LEMMA ShownIsCurrent ==
  ASSUME KeepInv, FreshInv, ScreenInv, ~ loading, ~ spoilt,
         page \in {"order", "payments", "listings"}
  PROVE  rows[page].from = Source(ctx)
<1>1. page \in DOMAIN rows \ Apart(page)  BY CommandSlots DEF ScreenInv, Apart
<1>2. ~ LoadsIn(flights)  BY DEF KeepInv
<1>3. Expected(flights, rows, page, ctx)  BY DEF FreshInv
<1> QED BY <1>1, <1>2, <1>3 DEF Expected, LoadsIn

LEMMA KeepWithFlight ==
  ASSUME KeepInv, NEW new, flights' = BagAdd(flights, new), UNCHANGED <<ctx, picked>>,
         \/ new.kind \notin Loads /\ UNCHANGED <<loading, spoilt>>
         \/ loading' = TRUE /\ (spoilt => spoilt')
  PROVE  KeepInv'
<1>1. new.kind \notin Loads => (LoadsIn(flights') => LoadsIn(flights))
  <2>1. DOMAIN BagAdd(flights, new) = DOMAIN flights \union {new}  BY AddedFlight
  <2> QED BY <2>1 DEF LoadsIn
<1> QED BY <1>1 DEF KeepInv

LEMMA KeepAfterPerson ==
  ASSUME KeepInv, FreshInv, ScreenInv, Person
  PROVE  KeepInv'
<1>1. ASSUME NEW p \in Visited, Visit(p) \/ HardReload(p)
      PROVE  KeepInv'
  BY <1>1, KeepAfterMount DEF Visit, HardReload
<1>2. CASE ToggleDemoMode  BY <1>2, KeepInNewContext DEF ToggleDemoMode, Uncovered
<1>3. CASE SaveSettings
  <2>1. picked = None  BY <1>3 DEF SaveSettings, ScreenInv
  <2> QED BY <1>3, <2>1, KeepInNewContext DEF SaveSettings
<1>4. CASE ResetDemo  BY <1>4, KeepAtRest DEF ResetDemo, view
<1>5. CASE LookUp
  <2> DEFINE new == Flight("lookup", ctx, <<Find("selected")>>)
  <2>1. new.kind \notin Loads  BY FlightParts DEF Loads
  <2>2. flights' = BagAdd(flights, new) /\ UNCHANGED <<ctx, picked, loading, spoilt>>
    BY <1>5 DEF LookUp, view
  <2> HIDE DEF new
  <2> QED BY <2>1, <2>2, KeepWithFlight
<1>6. CASE SelectListing  BY <1>6, KeepWithFlight DEF SelectListing
<1>7. ASSUME NEW row \in Targets(page), SendCommand(row)
      PROVE  KeepInv'
  <2> DEFINE new == Command(row, About.from)
  <2>1. new.kind \notin Loads  BY CommandParts DEF Loads
  <2>2. flights' = BagAdd(flights, new) /\ UNCHANGED <<ctx, picked, loading, spoilt>>
    BY <1>7 DEF SendCommand, Command
  <2> HIDE DEF new
  <2> QED BY <2>1, <2>2, KeepWithFlight
<1>8. CASE ShowProfile  BY <1>8, KeepAtRest DEF ShowProfile
<1>9. CASE CloseProfile  BY <1>9, KeepAtRest DEF CloseProfile
<1>10. CASE DismissPayment  BY <1>10, KeepAtRest DEF DismissPayment
<1>11. CASE PickPayment
  <2>1. /\ page = "payments" /\ ~ loading /\ picked' = rows["payments"]
        /\ UNCHANGED <<ctx, loading, flights, spoilt>>
    BY <1>11 DEF PickPayment
  <2>2. ~ spoilt => picked'.from = Source(ctx)  BY <2>1, ShownIsCurrent
  <2>3. ctx.demo \/ spoilt \/ picked'.from = ctx.url  BY <2>2 DEF Source
  <2> QED BY <2>1, <2>3 DEF KeepInv
<1> QED BY <1>1, <1>2, <1>3, <1>4, <1>5, <1>6, <1>7, <1>8, <1>9, <1>10, <1>11 DEF Person

LEMMA KeepKept == KeepInv /\ FreshInv /\ (ScreenInv /\ ContextTyped) /\ [Next]_vars => KeepInv'
<1> SUFFICES ASSUME KeepInv, FreshInv, ScreenInv, ContextTyped, [Next]_vars PROVE KeepInv'  OBVIOUS
<1>1. CASE UNCHANGED vars  BY <1>1, KeepAtRest DEF vars
<1>2. ASSUME NEW f \in DOMAIN flights, CommandSucceeds(f)
      PROVE  KeepInv'
  BY <1>2 DEF CommandSucceeds, KeepInv
<1>3. ASSUME NEW f \in DOMAIN flights, CommandFails(f)
      PROVE  KeepInv'
  <2>1. f.kind \notin Loads /\ flights' = BagRemove(flights, f)
        /\ UNCHANGED <<ctx, picked, loading, spoilt>>
    BY <1>3 DEF CommandFails, Loads
  <2>2. LoadsIn(flights') => LoadsIn(flights)  BY <2>1, OtherGoes
  <2> QED BY <2>1, <2>2 DEF KeepInv
<1>4. CASE Answers  BY <1>2, <1>3, <1>4, KeepAfterAnswer DEF Answers
<1>5. CASE ResetFires
  <2>1. ChangeContext([ctx EXCEPT !.demo = TRUE])  BY <1>5 DEF ResetFires
  <2>2. [ctx EXCEPT !.demo = TRUE].demo  BY DEF ContextTyped, Contexts
  <2> QED BY <2>1, <2>2, KeepInNewContext
<1> QED BY <1>1, <1>4, <1>5, KeepAfterPerson DEF Next

\* For any servers, settings and listings, however loads and commands overlap and
\* the context changes: a live server gets a command only about a row that it
\* answered itself, unless a load failed or met another.
THEOREM CommandsKeep == Spec => CommandsKeepToTheirServer
<1> DEFINE Kept == \A row \in Targets(page) :
                     SendCommand(row) /\ ~ ctx.demo /\ ~ spoilt => About.from = ctx.url
<1>1. KeepInv /\ FreshInv /\ ScreenInv => Kept
  <2> SUFFICES ASSUME KeepInv, FreshInv, ScreenInv, NEW row \in Targets(page),
                      SendCommand(row), ~ ctx.demo, ~ spoilt
               PROVE  About.from = ctx.url
    OBVIOUS
  <2>1. CASE page = "payments"
    <3>1. picked # None  BY <2>1 DEF SendCommand
    <3> QED BY <2>1, <3>1 DEF About, KeepInv
  <2>2. CASE page # "payments"
    <3>1. page \in {"order", "listings"}
      BY <2>2, PageCommands DEF SendCommand, ScreenInv
    <3>2. ~ loading  BY <2>2 DEF SendCommand
    <3>3. rows[page].from = ctx.url  BY <3>1, <3>2, ShownIsCurrent DEF Source
    <3>4. CommandSlot(page) = page  BY <3>1 DEF CommandSlot
    <3> QED BY <2>2, <3>3, <3>4 DEF About
  <2> QED BY <2>1, <2>2
<1>2. Init => KeepInv
  <2> SUFFICES ASSUME Init PROVE KeepInv  OBVIOUS
  <2>1. /\ loading = (Pages[page].load # <<>>) /\ picked = None
        /\ Pages[page].load = <<>> => flights = EmptyBag
    BY DEF Init
  <2>2. DOMAIN EmptyBag = {}  BY FlightsOfSet DEF EmptyBag
  <2> QED BY <2>1, <2>2 DEF KeepInv, LoadsIn
<1>3. Spec => []KeepInv
  <2>1. KeepInv /\ FreshInv /\ (ScreenInv /\ ContextTyped) /\ [Next]_vars => KeepInv'
    BY KeepKept
  <2> QED BY <1>2, <2>1, FreshAlways, ScreenAlways, PTL DEF Spec
<1>4. KeepInv /\ FreshInv /\ (ScreenInv /\ ContextTyped) => [Kept]_vars  BY <1>1
<1>5. CommandsKeepToTheirServer <=> [][Kept]_vars  BY DEF CommandsKeepToTheirServer
<1> HIDE DEF Kept
<1> QED BY <1>3, <1>4, <1>5, FreshAlways, ScreenAlways, PTL DEF Spec
================================================================================
