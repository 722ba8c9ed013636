------------------------------ MODULE DemoReset ------------------------------
(***************************************************************************)
(* The reset of the demonstration data, internal.reset_sih_demo (migration *)
(* 018), run by an operator while farmers may be accepting the demo's      *)
(* offers through OfferAcceptance.                                         *)
(*                                                                         *)
(* The reset is one transaction under READ COMMITTED: each statement sees  *)
(* what is committed when it starts.  It notes the demo's orders, deletes  *)
(* them and what hangs on them, and then restores the demo's rows, first   *)
(* the listing, then the demands, then the offers: the opposite of the     *)
(* order in which accept_offer locks them.  PostgreSQL notices the         *)
(* deadlock and aborts one of the two transactions.                        *)
(*                                                                         *)
(* The clock stands still here: the windows that the reset moves ahead are *)
(* not what these properties are about.                                    *)
(***************************************************************************)
EXTENDS OfferAcceptance, Sequences

CONSTANTS
  DemoFarmer,   \* whose acceptances the reset forgets
  DemoOffers,   \* the two offers of the demo
  Script,       \* the rows the reset restores, in its order, as <<table, row>>
  Resetting     \* holds locks in the name of the reset

Tables == {<<"listing", l>> : l \in Listings} \union {<<"demand", d>> : d \in Demands}
            \union {<<"offer", o>> : o \in Offers}

ASSUME DemoConstants ==
  /\ DemoFarmer \in Farmers
  /\ Script \in Seq(Tables)
  /\ \A o \in Offers : o \in DemoOffers <=> \E i \in DOMAIN Script : Script[i] = <<"offer", o>>
  /\ Resetting \notin Calls \union {None}

VARIABLES
  stage,     \* what the reset is about to do
  todo,      \* the part of the script that is left
  doomed,    \* v_order_ids: the orders it has noted
  dropped    \* the slots whose receipts it has deleted

reset    == <<stage, todo, doomed, dropped>>
demoVars == <<vars, reset>>

Scripted(table, row) == \E i \in DOMAIN Script : Script[i] = <<table, row>>

(***************************************************************************)
(* The rows as the seed creates them and the reset restores them.          *)
(***************************************************************************)

\* Broken: the offers stay as they were decided.
RestoredOffersNone(table) == table

RestoredOffers(table) ==
  [o \in Offers |-> IF Scripted("offer", o)
                    THEN [status |-> "PENDING", version |-> 1] ELSE table[o]]

RestoredListings(table) ==
  [l \in Listings |->
     IF Scripted("listing", l)
     THEN [status |-> "ACTIVE", version |-> 1, available |-> Stock[l]] ELSE table[l]]

RestoredDemands(table) ==
  [d \in Demands |->
     IF Scripted("demand", d)
     THEN [status |-> "ACTIVE", version |-> 1, fulfilled |-> 0] ELSE table[d]]

\* Everything as before the first offer, but for the rows of the seed.
SeededInit ==
  /\ offers   = RestoredOffers([o \in Offers |-> [status |-> "ABSENT", version |-> 1]])
  /\ listings = RestoredListings([l \in Listings |->
                   [status |-> "DRAFT", version |-> 1, available |-> Stock[l]]])
  /\ demands  = RestoredDemands([d \in Demands |->
                   [status |-> "DRAFT", version |-> 1, fulfilled |-> 0]])
  /\ orders   = {}
  /\ receipts = [s \in Slots |-> NoReceipt]
  /\ marker      = [s \in Slots |-> None]
  /\ offerLock   = [o \in Offers |-> None]
  /\ listingLock = [l \in Listings |-> None]
  /\ demandLock  = [d \in Demands |-> None]
  /\ now   = 0
  /\ pc    = [t \in Calls |-> "idle"]
  /\ cmd   = [t \in Calls |-> None]
  /\ began = [t \in Calls |-> 0]
  /\ reply = [t \in Calls |-> None]
  /\ stage   = "off"
  /\ todo    = <<>>
  /\ doomed  = {}
  /\ dropped = {}

(***************************************************************************)
(* The reset.                                                              *)
(***************************************************************************)

StartReset ==
  /\ stage = "off"
  /\ stage' = "note"
  /\ UNCHANGED <<vars, todo, doomed, dropped>>

NoteOrders ==
  /\ stage = "note"
  /\ stage'  = "delete"
  /\ doomed' = {x \in orders : x.offer \in DemoOffers}
  /\ UNCHANGED <<vars, todo, dropped>>

OfDoomed(s)  == \E x \in doomed : receipts[s].order = x.id

\* Broken: repeats the deletion while the farmer has a receipt, but deletes
\* those of the noted orders only.
DeleteReceiptsUntilNone ==
  /\ stage = "delete"
  /\ dropped' = {s \in Slots : receipts[s] # NoReceipt /\ OfDoomed(s)}
  /\ marker'  = [s \in Slots |-> IF s \in dropped' THEN Resetting ELSE marker[s]]
  /\ \A s \in Slots : receipts[s] # NoReceipt /\ s[1] = DemoFarmer => s \in dropped'
  /\ stage'   = "restore"
  /\ todo'    = Script
  /\ UNCHANGED <<rows, offerLock, listingLock, demandLock, now, calls, doomed>>

\* The deleted receipts are gone at the commit; until then the entries of
\* their unique index make other transactions wait.  The deletion of the noted
\* orders and of their descendants, which no acceptance touches, is part of
\* the same step.
DeleteReceipts ==
  /\ stage = "delete"
  /\ stage'   = "restore"
  /\ todo'    = Script
  /\ dropped' = {s \in Slots : /\ receipts[s] # NoReceipt
                               /\ OfDoomed(s) \/ s[1] = DemoFarmer}
  /\ marker'  = [s \in Slots |-> IF s \in dropped' THEN Resetting ELSE marker[s]]
  /\ UNCHANGED <<rows, offerLock, listingLock, demandLock, now, calls, doomed>>

\* An UPDATE of one row waits for the row's lock and keeps it.  The values it
\* writes do not depend on what it finds, so they are applied at the commit.
Restore ==
  /\ stage = "restore" /\ todo # <<>>
  /\ todo' = Tail(todo)
  /\ LET row == Head(todo)[2] IN
       \/ /\ Head(todo)[1] = "listing"
          /\ listingLock[row] = None
          /\ listingLock' = [listingLock EXCEPT ![row] = Resetting]
          /\ UNCHANGED <<demandLock, offerLock>>
       \/ /\ Head(todo)[1] = "demand"
          /\ demandLock[row] = None
          /\ demandLock' = [demandLock EXCEPT ![row] = Resetting]
          /\ UNCHANGED <<listingLock, offerLock>>
       \/ /\ Head(todo)[1] = "offer"
          /\ offerLock[row] = None
          /\ offerLock' = [offerLock EXCEPT ![row] = Resetting]
          /\ UNCHANGED <<listingLock, demandLock>>
  /\ UNCHANGED <<rows, marker, now, calls, stage, doomed, dropped>>

ReleaseReset ==
  /\ Release(Resetting)
  /\ stage' = "off" /\ todo' = <<>> /\ doomed' = {} /\ dropped' = {}

\* Broken: the receipts are kept.
RemainingReceiptsAll == receipts

RemainingReceipts == [s \in Slots |-> IF s \in dropped THEN NoReceipt ELSE receipts[s]]

CommitReset ==
  /\ stage = "restore" /\ todo = <<>>
  /\ orders'   = orders \ doomed
  /\ receipts' = RemainingReceipts
  /\ offers'   = RestoredOffers(offers)
  /\ listings' = RestoredListings(listings)
  /\ demands'  = RestoredDemands(demands)
  /\ ReleaseReset
  /\ UNCHANGED <<now, calls>>

RollbackReset == ReleaseReset /\ UNCHANGED <<rows, now, calls>>

\* A lost connection, or an operator who gives up.
AbortReset == stage # "off" /\ RollbackReset

(***************************************************************************)
(* The reset waits for a row that a call holds, and the call for one that  *)
(* the reset holds: PostgreSQL aborts either of them.                      *)
(***************************************************************************)

ResetWaitsFor(t) ==
  /\ stage = "restore" /\ todo # <<>>
  /\ LET table == Head(todo)[1]  row == Head(todo)[2] IN
       \/ table = "listing" /\ listingLock[row] = t
       \/ table = "demand" /\ demandLock[row] = t
       \/ table = "offer" /\ offerLock[row] = t

WaitsForReset(t) ==
  \/ At(t, "mark") /\ marker[Slot(t)] = Resetting
  \/ At(t, "lockOffer") /\ offerLock[OfferOf(t)] = Resetting
  \/ At(t, "lockListing") /\ listingLock[ListingOf(t)] = Resetting
  \/ At(t, "lockDemand") /\ demandLock[DemandOf(t)] = Resetting

BreakDeadlock(t) ==
  /\ ResetWaitsFor(t) /\ WaitsForReset(t)
  /\ \/ Rollback(t, "aborted") /\ UNCHANGED reset
     \/ RollbackReset

-----------------------------------------------------------------------------
ResetStep == NoteOrders \/ DeleteReceipts \/ Restore \/ CommitReset

DemoNext ==
  \/ \E t \in Calls : CallStep(t) /\ UNCHANGED reset
  \/ OtherCommand /\ UNCHANGED reset
  \/ StartReset \/ ResetStep \/ AbortReset
  \/ \E t \in Calls : BreakDeadlock(t)

DemoSpec == SeededInit /\ [][DemoNext]_demoVars

\* The database goes on with a statement whose locks are free, and breaks the
\* deadlocks it finds.  The waiters of a row lock are queued, so a call is not
\* overtaken for ever by one reset after another: its fairness is strong.
FairDemoSpec ==
  /\ DemoSpec
  /\ WF_demoVars(ResetStep)
  /\ \A t \in Calls : /\ SF_demoVars(Proceed(t) /\ UNCHANGED reset)
                       /\ WF_demoVars(BreakDeadlock(t))

-----------------------------------------------------------------------------
(***************************************************************************)
(* Properties.                                                             *)
(***************************************************************************)

\* However resets and acceptances overlap, an offer that reads ACCEPTED has its
\* order, and no offer has two.  So a reset undoes a sale as a whole or not at
\* all, and an order it has missed (see NoDemoOrderSurvives) makes the next
\* acceptance of its offer fail, until the reset after that removes the order,
\* instead of letting the offer be sold a second time.
AcceptedHasOneOrder ==
  /\ \A o \in Offers : offers[o].status = "ACCEPTED" => OrdersOf(o) # {}
  /\ \A x, y \in orders : x.offer = y.offer => x = y

\* No receipt outlives its order: a retry after a reset is not answered with
\* the id of an order that the reset has deleted.
ReceiptsNameOrders ==
  \A s \in Slots : receipts[s] # NoReceipt =>
    \E x \in orders : x.id = receipts[s].order

\* A reset ends, though it locks its rows in the opposite order: either it is
\* done or it was told of the deadlock.
EveryResetEnds == stage = "note" ~> stage = "off"

\* tests/database/004_contract_hardening.sql: "demo order survived reset" is an
\* error.  docs/DATABASE.md: the reset "deletes only their transaction
\* descendants, restores canonical quantities".
NoDemoOrderSurvives ==
  [][CommitReset => \A x \in orders' : x.offer \notin DemoOffers]_demoVars
=============================================================================
