---------------------------- MODULE AdminConsole ----------------------------
(***************************************************************************)
(* One tab of the administrators' console, src/apps/admin-web: the context *)
(* (demo or live, the server's URL and the token) that the header and the  *)
(* settings change, the page that is mounted, and the loads and commands   *)
(* it has in flight.                                                       *)
(*                                                                         *)
(* A page's effect runs again whenever the context changes.  Nothing       *)
(* aborts a load that is in flight or tells its answers from newer ones:   *)
(* each load keeps the context it began with and writes what it is         *)
(* answered.  After a hard reload a page loads with the defaults of the    *)
(* build first, and again once the provider has read localStorage.         *)
(*                                                                         *)
(* Of the data the model keeps where a row came from and whether there was *)
(* any.  What a server does with a command is not part of the console: see *)
(* OrderLifecycle and PaymentTransitions.                                  *)
(***************************************************************************)
EXTENDS AdminPages, Bags, BagsExt

CONSTANTS
  None,
  Visited,        \* the pages a person goes to
  Default,        \* the context of the build
  URLs, Tokens,   \* what is typed into the settings
  Servers,        \* the URLs at which the API answers
  Lots,           \* the listings whose buttons are told apart
  MaxSteps        \* bounds what people do

Contexts == [demo : BOOLEAN, url : URLs \union {Default.url}, token : Tokens \union {""}]

ASSUME ConsoleConstants ==
  /\ Visited \subseteq DOMAIN Pages \ {"broken"}
  /\ Visited # {}
  /\ Default \in [demo : BOOLEAN, url : Servers, token : {""}]
  /\ "" \notin Servers
  /\ "demo" \notin URLs \union Servers
  /\ None \notin BOOLEAN
  /\ None \notin URLs \union Tokens \union Servers \union {""}
  /\ None \notin Lots \union {"order", "payments"}
  /\ MaxSteps \in Nat

VARIABLES
  page,       \* the page that is mounted
  ctx,        \* demoMode, apiBaseUrl and authToken
  saved,      \* localStorage: each of the three, or None
  form,       \* the inputs of the settings page
  rows,       \* by slot: what the page shows
  loading,    \* its spinner
  flights,    \* the bag of loads, lookups and commands in flight
  picked,     \* what the payment dialog shows, or None
  busy,       \* whose buttons are disabled by a command, or None
  resetting,  \* the button of the demo's reset is disabled
  timers,     \* the half seconds that resets are waiting
  been,       \* where rows could come from since the page was mounted
  spoilt,     \* the last load may have left, or be left with, another's rows
  steps

vars == <<page, ctx, saved, form, rows, loading, flights, picked, busy, resetting,
          timers, been, spoilt, steps>>
view == <<rows, loading, picked, busy>>

Source(c) == IF c.demo THEN "demo" ELSE c.url

Blank == [from |-> None, some |-> FALSE]

\* What a page's command can be about: each listing has its own buttons.
Targets(p) == IF p = "listings" THEN Lots ELSE {p}

\* Kinds of flights: "load" by the page's effect, "reload" after a command about
\* row, "lookup" of one profile, and "command" about row, which came from of.
Loads == {"load", "reload"}

Flight(kind, c, todo) == [kind |-> kind, ctx |-> c, todo |-> todo, row |-> None, of |-> None]

Load(p, c) == Flight("load", c, Pages[p].load)

LoadsIn(fs) == \E f \in DOMAIN fs : f.kind \in Loads

Tick == steps < MaxSteps /\ steps' = steps + 1

\* What is answered without the network is answered before anything else
\* happens.
Prompt(f) == \/ f.ctx.demo
             \/ f.todo # <<>> /\ Head(f.todo).local
Settled   == \A f \in DOMAIN flights : ~ Prompt(f)

-----------------------------------------------------------------------------
(***************************************************************************)
(* Mounting pages and changing the context.                                *)
(***************************************************************************)

\* Page p is mounted and its effect runs once with each of these contexts.  The
\* flights of the page before end without an effect on the tab.
Mount(p, cs) ==
  /\ page' = p
  /\ rows' = [s \in SlotsOf(p) |-> Blank]
  /\ flights' = IF Pages[p].load = <<>> THEN EmptyBag
                ELSE SetToBag({Load(p, c) : c \in cs})
  /\ loading' = (Pages[p].load # <<>>)
  /\ picked' = None
  /\ busy' = None
  /\ resetting' = FALSE
  /\ been' = {Source(c) : c \in cs}
  /\ spoilt' = (\E c, d \in cs : c # d)

\* No dialog or drawer covers the page.
Uncovered == picked = None /\ ("selected" \in DOMAIN rows => ~ rows["selected"].some)

Inputs(c) == [url |-> c.url, token |-> c.token]

\* Broken: a saved mode is not read back.
HydratedUrlOnly ==
  [demo  |-> Default.demo,
   url   |-> IF saved.url \in {None, ""} THEN Default.url ELSE saved.url,
   token |-> IF saved.token = None THEN Default.token ELSE saved.token]

\* The saved preferences over the defaults; empty ones count as not saved.
Hydrated ==
  [demo  |-> IF saved.demo = None THEN Default.demo ELSE saved.demo,
   url   |-> IF saved.url \in {None, ""} THEN Default.url ELSE saved.url,
   token |-> IF saved.token = None THEN Default.token ELSE saved.token]

Init ==
  /\ page \in Visited
  /\ ctx = Default
  /\ saved = [demo |-> None, url |-> None, token |-> None]
  /\ form = Inputs(Default)
  /\ rows = [s \in SlotsOf(page) |-> Blank]
  /\ loading = (Pages[page].load # <<>>)
  /\ flights = IF Pages[page].load = <<>> THEN EmptyBag
               ELSE SetToBag({Load(page, Default)})
  /\ picked = None
  /\ busy = None
  /\ resetting = FALSE
  /\ timers = 0
  /\ been = {Source(Default)}
  /\ spoilt = FALSE
  /\ steps = 0

\* A link is followed: the provider stays.
Visit(p) ==
  /\ Settled
  /\ page # "broken"
  /\ p # page
  /\ Uncovered
  /\ Tick
  /\ Mount(p, {ctx})
  /\ form' = IF p = "settings" THEN Inputs(ctx) ELSE form
  /\ UNCHANGED <<ctx, saved, timers>>

\* The browser loads a page anew, from its address.  The inputs of the settings
\* are initialised before the saved preferences are read.
HardReload(p) ==
  /\ Settled
  /\ Tick
  /\ ctx' = Hydrated
  /\ Mount(p, {Default, Hydrated})
  /\ form' = Inputs(Default)
  /\ timers' = 0
  /\ UNCHANGED saved

\* Broken: the effect depends on the server and the token alone.
ChangeContextByServer(c) ==
  /\ ctx' = c
  /\ IF Inputs(c) = Inputs(ctx) \/ Pages[page].load = <<>>
     THEN UNCHANGED <<flights, loading, spoilt>>
     ELSE /\ flights' = BagAdd(flights, Load(page, c))
          /\ loading' = TRUE
          /\ spoilt' = LoadsIn(flights)
  /\ been' = been \union {Source(c)}
  /\ UNCHANGED <<page, rows, picked, busy>>

\* The effect of the mounted page runs again if the context is another one.
ChangeContext(c) ==
  /\ ctx' = c
  /\ IF c = ctx \/ Pages[page].load = <<>>
     THEN UNCHANGED <<flights, loading, spoilt>>
     ELSE /\ flights' = BagAdd(flights, Load(page, c))
          /\ loading' = TRUE
          /\ spoilt' = LoadsIn(flights)
  /\ been' = been \union {Source(c)}
  /\ UNCHANGED <<page, rows, picked, busy>>

\* Both buttons of the header, and the one of the settings.
ToggleDemoMode ==
  /\ Settled
  /\ page # "broken"
  /\ Uncovered
  /\ Tick
  /\ ChangeContext([ctx EXCEPT !.demo = ~ ctx.demo])
  /\ saved' = [saved EXCEPT !.demo = ~ ctx.demo]
  /\ UNCHANGED <<form, resetting, timers>>

\* Each input is left as it is or typed anew.
SaveSettings ==
  /\ Settled
  /\ page = "settings"
  /\ Tick
  /\ \E url \in URLs \union {form.url}, token \in Tokens \union {form.token} :
       /\ form' = [url |-> url, token |-> token]
       /\ ChangeContext([demo |-> ctx.demo, url |-> url, token |-> token])
       /\ saved' = [demo |-> saved.demo, url |-> url, token |-> token]
  /\ UNCHANGED <<resetting, timers>>

ResetDemo ==
  /\ Settled
  /\ page = "settings"
  /\ ~ resetting
  /\ Tick
  /\ resetting' = TRUE
  /\ timers' = timers + 1
  /\ UNCHANGED <<page, ctx, saved, form, view, flights, been, spoilt>>

\* A timer outlives the page, a broken one too, and the button belongs to the
\* last one of the page that is mounted.
ResetFires ==
  /\ Settled
  /\ timers > 0
  /\ timers' = timers - 1
  /\ resetting' = (resetting /\ timers > 1)
  /\ ChangeContext([ctx EXCEPT !.demo = TRUE])
  /\ saved' = [saved EXCEPT !.demo = TRUE]
  /\ UNCHANGED <<form, steps>>

-----------------------------------------------------------------------------
(***************************************************************************)
(* Answers to loads and lookups.                                           *)
(***************************************************************************)

\* What a fetch of stage st gives to a slot; the demo has fixtures of all.
Answered(f, st, some) ==
  [from |-> Source(f.ctx), some |-> f.ctx.demo \/ (some /\ ~ st.local)]

Emptied(f) == [from |-> Source(f.ctx), some |-> FALSE]

\* A stage has nothing to ask about when the slot it needs was answered empty.
Unasked(st, answers) ==
  st.needs # "" /\ st.needs \in DOMAIN answers /\ ~ answers[st.needs].some

\* The stages after the first, without the second if it is skipped.
Rest(todo, answers) ==
  LET left == Tail(todo)
  IN  IF left # <<>> /\ Unasked(Head(left), answers) THEN Tail(left) ELSE left

\* Broken: the spinner is not stopped.
EndsSpinning(f) ==
  /\ flights' = BagRemove(flights, f)
  /\ loading' = loading
  /\ busy' = IF f.kind = "reload" THEN None ELSE busy

\* Broken: the buttons stay disabled after a command and its reload.
EndsBusy(f) ==
  /\ flights' = BagRemove(flights, f)
  /\ loading' = IF f.kind \in Loads THEN FALSE ELSE loading
  /\ busy' = busy

Ends(f) ==
  /\ flights' = BagRemove(flights, f)
  /\ loading' = IF f.kind \in Loads THEN FALSE ELSE loading
  /\ busy' = IF f.kind = "reload" THEN None ELSE busy

FetchSucceeds(f, some) ==
  LET st == Head(f.todo)
      answers == [s \in st.slots |-> Answered(f, st, some)]
      left == Rest(f.todo, answers)
  IN  /\ f.ctx.demo \/ st.local \/ f.ctx.url \in Servers
      /\ (f.ctx.demo \/ st.local \/ st.finds) => some
      /\ IF left # <<>>
         THEN /\ rows' = [s \in DOMAIN rows |-> IF s \in st.slots THEN answers[s] ELSE rows[s]]
              /\ flights' = BagAdd(BagRemove(flights, f), [f EXCEPT !.todo = left])
              /\ UNCHANGED <<loading, busy>>
         ELSE /\ rows' = [s \in DOMAIN rows |->
                            IF s \in st.slots THEN answers[s]
                            ELSE IF s \in Pages[page].summary /\ f.kind \in Loads
                                 THEN Answered(f, st, TRUE) ELSE rows[s]]
              /\ Ends(f)
      /\ UNCHANGED <<page, picked, resetting, been, spoilt>>

\* Broken: a live load that fails is answered with the fixtures.
FetchFailsToDemo(f, failed) ==
  /\ Ends(f)
  /\ rows' = [s \in DOMAIN rows |->
                IF s \in failed THEN [from |-> "demo", some |-> TRUE] ELSE rows[s]]
  /\ UNCHANGED <<page, picked, resetting, been, spoilt>>

\* The fetches of these slots fail, the others of the stage succeed.
FetchFails(f, failed) ==
  LET st == Head(f.todo)
      answers == [s \in st.slots |-> IF s \in failed THEN Emptied(f)
                                     ELSE Answered(f, st, TRUE)]
      left == Rest(f.todo, answers)
  IN  /\ failed # {}
      /\ st.finds \/ ~ (f.ctx.demo \/ st.local)
      /\ (~ f.ctx.demo /\ f.ctx.url \notin Servers) => failed = st.slots
      /\ IF st.onError = "stop"
         THEN rows' = rows /\ Ends(f)
         ELSE IF left # <<>>
              THEN /\ rows' = [s \in DOMAIN rows |->
                                 IF s \in st.slots THEN answers[s] ELSE rows[s]]
                   /\ flights' = BagAdd(BagRemove(flights, f), [f EXCEPT !.todo = left])
                   /\ UNCHANGED <<loading, busy>>
              ELSE /\ rows' = [s \in DOMAIN rows |->
                                 IF s \in st.slots THEN answers[s]
                                 ELSE IF s \in Pages[page].summary /\ f.kind \in Loads
                                      THEN Emptied(f) ELSE rows[s]]
                   /\ Ends(f)
      /\ spoilt' = (spoilt \/ (f.kind \in Loads /\ st.onError = "stop"))
      /\ UNCHANGED <<page, picked, resetting, been>>

\* The page touches the missing data of one of these slots when it renders.
Throws(bare) ==
  \E s \in bare \cap DOMAIN Pages[page].frail :
    LET with == Pages[page].frail[s] IN with = "" \/ rows[with].some

\* Where no API answers, the console's own pages may: the answer is no error and
\* carries no data (client.ts:69-87).  Lookups fail on it.  The page throws as it
\* renders, or goes on with the slots empty; where there is a summary, counting
\* the missing rows throws and the load ends.
FetchesNothing(f, bare) ==
  LET st == Head(f.todo)
      left == Tail(f.todo)
      counts == Pages[page].summary # {}
  IN  /\ f.kind \in Loads
      /\ ~ (f.ctx.demo \/ st.local)
      /\ f.ctx.url \notin Servers
      /\ bare # {} \/ counts
      /\ st.onError = "stop" => bare = st.slots
      /\ IF Throws(bare)
         THEN Mount("broken", {ctx})
         ELSE /\ rows' = [s \in DOMAIN rows |->
                            IF s \in st.slots THEN Emptied(f) ELSE rows[s]]
              /\ IF left # <<>> /\ ~ counts
                 THEN /\ flights' = BagAdd(BagRemove(flights, f), [f EXCEPT !.todo = left])
                      /\ UNCHANGED <<loading, busy>>
                 ELSE Ends(f)
              /\ spoilt' = (spoilt \/ counts)
              /\ UNCHANGED <<page, picked, resetting, been>>

Answer(f) ==
  /\ f.kind \in Loads \union {"lookup"}
  /\ Prompt(f) \/ Settled
  /\ \/ \E some \in BOOLEAN : FetchSucceeds(f, some)
     \/ \E some \in SUBSET Head(f.todo).slots : FetchFails(f, some) \/ FetchesNothing(f, some)
  /\ UNCHANGED <<ctx, saved, form, timers, steps>>

\* Users and producers' organisations are looked up by their id.
LookUp ==
  /\ Settled
  /\ Pages[page].lookup
  /\ Uncovered
  /\ \A f \in DOMAIN flights : f.kind # "lookup"
  /\ Tick
  /\ flights' = BagAdd(flights, Flight("lookup", ctx, <<Find("selected")>>))
  /\ UNCHANGED <<page, ctx, saved, form, view, resetting, timers, been, spoilt>>

\* A row is shown in the drawer, which keeps it, or the drawer is closed.
ShowProfile ==
  /\ Settled
  /\ Pages[page].drawer # ""
  /\ Uncovered
  /\ ~ loading
  /\ rows[Pages[page].drawer].some
  /\ rows' = [rows EXCEPT !["selected"] = rows[Pages[page].drawer]]
  /\ UNCHANGED <<page, ctx, saved, form, loading, flights, picked, busy, resetting, timers,
                 been, spoilt, steps>>

CloseProfile ==
  /\ Settled
  /\ ~ Uncovered
  /\ picked = None
  /\ rows' = [rows EXCEPT !["selected"] = Blank]
  /\ UNCHANGED <<page, ctx, saved, form, loading, flights, picked, busy, resetting, timers,
                 been, spoilt, steps>>

\* Another listing is selected: only its options are fetched.
SelectListing ==
  /\ Settled
  /\ page = "recommendations"
  /\ rows["listings"].some
  /\ Tick
  /\ flights' = BagAdd(flights, Flight("load", ctx,
                                      <<Clearing(Fetch({"recommendations"}))>>))
  /\ loading' = TRUE
  /\ spoilt' = (spoilt \/ LoadsIn(flights))
  /\ UNCHANGED <<page, ctx, saved, form, rows, picked, busy, resetting, timers, been>>

-----------------------------------------------------------------------------
(***************************************************************************)
(* Commands: transitions of an order or a payment, and the publication or  *)
(* cancellation of a listing.                                              *)
(***************************************************************************)

\* Broken: a payment is picked from rows that are being replaced.
PickPaymentWhileLoading ==
  /\ Settled
  /\ page = "payments"
  /\ rows["payments"].some
  /\ picked = None
  /\ picked' = rows["payments"]
  /\ UNCHANGED <<page, ctx, saved, form, rows, loading, flights, busy, resetting, timers,
                 been, spoilt, steps>>

\* A payment is picked from the table into a dialog, which keeps it.
PickPayment ==
  /\ Settled
  /\ page = "payments"
  /\ ~ loading
  /\ rows["payments"].some
  /\ picked = None
  /\ picked' = rows["payments"]
  /\ UNCHANGED <<page, ctx, saved, form, rows, loading, flights, busy, resetting, timers,
                 been, spoilt, steps>>

DismissPayment ==
  /\ Settled
  /\ picked # None
  /\ picked' = None
  /\ UNCHANGED <<page, ctx, saved, form, rows, loading, flights, busy, resetting, timers,
                 been, spoilt, steps>>

\* What the command is about.
About == IF page = "payments" THEN picked ELSE rows[CommandSlot(page)]

\* Only the buttons of the row that the last command was about are disabled.
SendCommand(row) ==
  /\ Settled
  /\ Pages[page].command
  /\ row \in Targets(page)
  /\ busy # row
  /\ IF page = "payments" THEN picked # None
     ELSE ~ loading /\ rows[CommandSlot(page)].some
  /\ Tick
  /\ busy' = row
  /\ flights' = BagAdd(flights, [Flight("command", ctx, <<>>) EXCEPT
                                   !.row = row, !.of = About.from])
  /\ UNCHANGED <<page, ctx, saved, form, rows, loading, picked, resetting, timers, been,
                 spoilt>>

\* Success: the dialog closes and the page is loaded as when the command was
\* sent.  The demo's fixtures do not change.
CommandSucceeds(f) ==
  /\ f.kind = "command"
  /\ Prompt(f) \/ Settled
  /\ flights' = BagAdd(BagRemove(flights, f),
                       [Load(page, f.ctx) EXCEPT !.kind = "reload", !.row = f.row])
  /\ loading' = TRUE
  /\ picked' = None
  /\ spoilt' = (LoadsIn(flights) \/ f.ctx # ctx)
  /\ UNCHANGED <<page, ctx, saved, form, rows, busy, resetting, timers, been, steps>>

\* An alert: the command was refused or never arrived, or its answer is lost;
\* the demo does not find a row that is not its own.  The buttons come back,
\* whichever row they are of.
CommandFails(f) ==
  /\ f.kind = "command"
  /\ Prompt(f) \/ Settled
  /\ f.ctx.demo => f.of # "demo"
  /\ flights' = BagRemove(flights, f)
  /\ busy' = None
  /\ UNCHANGED <<page, ctx, saved, form, rows, loading, picked, resetting, timers, been,
                 spoilt, steps>>

-----------------------------------------------------------------------------
Answers == \E f \in DOMAIN flights : Answer(f) \/ CommandSucceeds(f) \/ CommandFails(f)

Person ==
  \/ \E p \in Visited : Visit(p) \/ HardReload(p)
  \/ ToggleDemoMode
  \/ SaveSettings
  \/ ResetDemo
  \/ LookUp
  \/ ShowProfile
  \/ CloseProfile
  \/ SelectListing
  \/ PickPayment
  \/ DismissPayment
  \/ \E row \in Targets(page) : SendCommand(row)

Next == Answers \/ Person \/ ResetFires

Spec == Init /\ [][Next]_vars

\* Whatever was asked is answered or fails, if only by a timeout of the
\* browser.
FairSpec == Spec /\ WF_vars(Answers)

-----------------------------------------------------------------------------
(***************************************************************************)
(* Properties.                                                             *)
(***************************************************************************)
Value == [from : URLs \union Servers \union {None, "demo"}, some : BOOLEAN]

\* The spinner turns for a load, disabled buttons wait for a command or for the
\* load after it, and except on the page of the listings, whose rows have their
\* own buttons, at most one command is under way.
AdminTypeOK ==
  /\ page \in Visited \union {"broken"}
  /\ ctx \in Contexts
  /\ DOMAIN rows = SlotsOf(page)
  /\ \A s \in DOMAIN rows : rows[s] \in Value
  /\ picked \in Value \union {None}
  /\ loading \in BOOLEAN /\ resetting \in BOOLEAN /\ timers \in Nat
  /\ \A f \in DOMAIN flights :
       f.kind \in Loads \union {"lookup", "command"} /\ f.ctx \in Contexts
  /\ loading => LoadsIn(flights)
  /\ busy # None =>
       \E f \in DOMAIN flights : f.kind \in {"command", "reload"} /\ f.row = busy
  /\ page # "listings" =>
       \A f, g \in DOMAIN flights :
         {f.kind, g.kind} \subseteq {"command", "reload"} => f = g /\ flights[f] = 1

\* A hard reload brings back the context that was left, field by field, but
\* for a URL that was cleared (demoContext.tsx:33-66).
ReloadRestores ==
  /\ Hydrated.demo = ctx.demo
  /\ Hydrated.token = ctx.token
  /\ ctx.url # "" => Hydrated.url = ctx.url

\* A row on the screen comes from a context the page has been in since it was
\* mounted: however loads overlap and fail, an error in live mode by itself
\* brings no fixture to the screen (client.ts:44-88, endpoints.ts:143-366).
RowsStemFromOwnContexts ==
  \A s \in DOMAIN rows : rows[s].from \in been \union {None}

\* When no load is in flight, what the page shows comes from the context its
\* header names, unless the last load failed, overlapped with another, or
\* followed a command that was sent in another context; slots that loads skip
\* when there is nothing to ask about, and looked up profiles, are apart
\* (orders/page.tsx:33-51 and its like on every page).
CurrentUnlessOvertaken ==
  ~ LoadsIn(flights) /\ ~ spoilt =>
    \A s \in DOMAIN rows \ (SkippedSlots(page) \union {"selected"}) :
      rows[s].from = Source(ctx)

\* A live server gets a command only about a row that it answered itself, unless
\* a load has failed or overlapped with another: not from a dialog that was
\* opened before the context changed, nor from rows that are being replaced
\* (orders/[id]/page.tsx:73-98, payments/page.tsx:53-71, listings/page.tsx:41-66).
CommandsKeepToTheirServer ==
  [][\A row \in Targets(page) :
       SendCommand(row) /\ ~ ctx.demo /\ ~ spoilt => About.from = ctx.url]_vars

\* A page does not stay on its spinner (finally { setLoading(false) }).
LoadingEnds == loading ~> ~ loading

\* In live mode nothing on the screen is a fixture, once its load has ended:
\* "Live API failures ... must surface honestly and never silently fall back
\* to demo data" (settings/page.tsx:102-105).
LiveShowsNoFixtures ==
  ~ LoadsIn(flights) /\ ~ ctx.demo => \A s \in DOMAIN rows : rows[s].from # "demo"
=============================================================================
