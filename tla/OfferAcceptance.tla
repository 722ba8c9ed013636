--------------------------- MODULE OfferAcceptance ---------------------------
(***************************************************************************)
(* The acceptance of offers: concurrent calls of internal.accept_offer     *)
(* (database/migrations/016), each one PostgreSQL transaction under READ   *)
(* COMMITTED, beside the API's single-statement commands on offers,        *)
(* listings and demands.                                                   *)
(*                                                                         *)
(* A call walks through the statements of the function.  Its uncommitted   *)
(* writes are visible to nobody, so they are applied in the step that      *)
(* commits; what other sessions do see before that are its row locks and   *)
(* the unique-index entry of its idempotency marker, on which they wait.   *)
(* A call is one-shot: a client whose answer was lost, or which gave up    *)
(* waiting for it, makes another call with the same command.               *)
(***************************************************************************)
EXTENDS Integers, FiniteSets, FiniteSetsExt

CONSTANTS
  Farmers, Keys,        \* actors and the Idempotency-Key values they send
  Offers, Listings, Demands,
  Quotes, Recs,         \* rows of logistics_quotes and recommendations
  Calls,                \* invocations of the accept endpoint
  Commands,             \* the requests farmers' clients may send
  None,

  \* Columns that never change once the row exists.
  Owner,                \* listing -> its farmer
  Stock,                \* listing -> quantity
  Wanted,               \* demand  -> maximum quantity, delivery window, fit
  Terms,                \* offer   -> listing, demand, quantity, expiry
  Quote,                \* quote   -> listing, demand, expiry, total cost
  Rec,                  \* recommendation -> offers and quotes it restates, expiry

  MaxTime               \* bound on the clock

Slots == Farmers \X Keys   \* the unique index of idempotency_records

OfferTerms  == [listing : Listings, demand : Demands \union {None},
                qty : Nat \ {0}, expires : Nat]
DemandTerms == [max : Nat \ {0}, from : Nat, until : Nat, fits : SUBSET Offers]
QuoteTerms  == [listing : Listings, demand : Demands \union {None},
                expires : Nat, cost : Nat]
RecTerms    == [offers : SUBSET Offers, quotes : SUBSET Quotes, expires : Nat]
Command     == [actor : Farmers, key : Keys, offer : Offers,
                offerVersion : Nat, listingVersion : Nat,
                quote : Quotes, rec : Recs \union {None}, cost : Nat]

ASSUME ConstantTypes ==
  /\ Owner \in [Listings -> Farmers]
  /\ Stock \in [Listings -> Nat \ {0}]
  /\ Wanted \in [Demands -> DemandTerms]
  /\ Terms \in [Offers -> OfferTerms]
  /\ Quote \in [Quotes -> QuoteTerms]
  /\ Rec \in [Recs -> RecTerms]
  /\ Commands \subseteq Command
  /\ MaxTime \in Nat

ASSUME NoneIsNoRow ==
  None \notin Demands \union Recs \union Calls \union Commands \union Offers

VARIABLES
  offers,       \* [status, version] of each offer
  listings,     \* [status, version, available] of each listing
  demands,      \* [status, version, fulfilled] of each demand
  orders,       \* the rows of orders
  receipts,     \* the committed idempotency_records
  marker,       \* slot -> the call whose uncommitted marker occupies it
  offerLock,    \* row locks: the call that holds FOR UPDATE on the row
  listingLock,
  demandLock,
  now,          \* the database clock
  pc,           \* call -> the statement it is about to execute
  cmd,          \* call -> its request
  began,        \* call -> now() of its transaction
  reply         \* call -> the order id it is to return

rows  == <<offers, listings, demands, orders, receipts>>
locks == <<marker, offerLock, listingLock, demandLock>>
calls == <<pc, cmd, began, reply>>
vars  == <<rows, locks, now, calls>>

(***************************************************************************)
(* Row types.                                                              *)
(***************************************************************************)

OfferStatus   == {"ABSENT", "PENDING", "ACCEPTED", "REJECTED", "WITHDRAWN"}
ListingStatus == {"DRAFT", "ACTIVE", "RESERVED", "SOLD", "CANCELLED"}
DemandStatus  == {"DRAFT", "ACTIVE", "PARTIALLY_FILLED", "FULFILLED", "CANCELLED"}

\* The canonical request without its key; SHA-256 is taken to be injective.
Fingerprint(c) == <<c.actor, c.offer, c.offerVersion, c.listingVersion,
                    c.quote, c.rec, c.cost>>

OfferRow   == [status : OfferStatus, version : Nat]
ListingRow == [status : ListingStatus, version : Nat, available : Nat]
DemandRow  == [status : DemandStatus, version : Nat, fulfilled : Nat]
OrderRow   == [id : Calls, offer : Offers, quote : Quotes, cost : Nat,
               acceptedAt : Nat]
ReceiptRow == [status : {"ABSENT", "IN_PROGRESS", "SUCCEEDED", "FAILED"},
               fp : {Fingerprint(c) : c \in Commands} \union {None},
               order : Calls \union {None}]
NoReceipt  == [status |-> "ABSENT", fp |-> None, order |-> None]

Statement == {"lookup", "mark", "reread", "lockOffer", "lockListing",
              "checkTerms", "lockDemand", "settle"}
Ended     == {"done", "refused", "aborted"}
Places    == {"idle"} \union Statement \union Ended

Slot(t)      == <<cmd[t].actor, cmd[t].key>>
OfferOf(t)   == cmd[t].offer
ListingOf(t) == Terms[OfferOf(t)].listing
DemandOf(t)  == Terms[OfferOf(t)].demand
Qty(t)       == Terms[OfferOf(t)].qty

-----------------------------------------------------------------------------
Init ==
  /\ offers   = [o \in Offers |-> [status |-> "ABSENT", version |-> 1]]
  /\ listings = [l \in Listings |->
                   [status |-> "DRAFT", version |-> 1, available |-> Stock[l]]]
  /\ demands  = [d \in Demands |->
                   [status |-> "DRAFT", version |-> 1, fulfilled |-> 0]]
  /\ orders   = {}
  /\ receipts = [s \in Slots |-> NoReceipt]
  /\ marker      = [s \in Slots |-> None]
  /\ offerLock   = [o \in Offers |-> None]
  /\ listingLock = [l \in Listings |-> None]
  /\ demandLock  = [d \in Demands |-> None]
  /\ now   = 0
  /\ pc    = [t \in Calls |-> "idle"]
  /\ cmd   = [t \in Calls |-> None]
  /\ began = [t \in Calls |-> 0]
  /\ reply = [t \in Calls |-> None]

(***************************************************************************)
(* How a call ends.  Raising an exception, a cancelled statement or a lost *)
(* connection rolls the transaction back; either way its locks and its     *)
(* marker are gone, and nothing remembers the call.                        *)
(***************************************************************************)

At(t, place)   == pc[t] = place
Goto(t, place) == pc' = [pc EXCEPT ![t] = place]

Freed(lock, t) == [r \in DOMAIN lock |-> IF lock[r] = t THEN None ELSE lock[r]]

Release(t) ==
  /\ marker'      = Freed(marker, t)
  /\ offerLock'   = Freed(offerLock, t)
  /\ listingLock' = Freed(listingLock, t)
  /\ demandLock'  = Freed(demandLock, t)

Rollback(t, place) ==
  /\ Goto(t, place)
  /\ Release(t)
  /\ cmd'   = [cmd EXCEPT ![t] = None]
  /\ began' = [began EXCEPT ![t] = 0]
  /\ UNCHANGED <<rows, now, reply>>

Refuse(t) == Rollback(t, "refused")

\* `return v_existing.resource_id`: the earlier call's order, nothing written.
Replay(t) ==
  /\ Goto(t, "done")
  /\ reply' = [reply EXCEPT ![t] = receipts[Slot(t)].order]
  /\ UNCHANGED <<rows, locks, now, cmd, began>>

(***************************************************************************)
(* The statements of accept_offer, in order.                               *)
(***************************************************************************)

Begin(t) ==
  /\ At(t, "idle")
  /\ \E c \in Commands : cmd' = [cmd EXCEPT ![t] = c]
  /\ began' = [began EXCEPT ![t] = now]
  /\ Goto(t, "lookup")
  /\ UNCHANGED <<rows, locks, now, reply>>

\* What a committed receipt in the caller's slot means for its request.  A
\* FAILED one is deleted by the same transaction: as good as none.
IsFresh(r)     == r.status \in {"ABSENT", "FAILED"}
IsReplay(r, t) == /\ r.status = "SUCCEEDED"
                  /\ r.fp = Fingerprint(cmd[t])
                  /\ r.order # None

\* The first SELECT on idempotency_records: it sees committed rows only.
Lookup(t) ==
  /\ At(t, "lookup")
  /\ LET r == receipts[Slot(t)] IN
       \/ /\ IsFresh(r)
          /\ Goto(t, "mark")
          /\ UNCHANGED <<rows, locks, now, cmd, began, reply>>
       \/ IsReplay(r, t) /\ Replay(t)
       \/ ~IsFresh(r) /\ ~IsReplay(r, t) /\ Refuse(t)

\* INSERT ... ON CONFLICT DO NOTHING: waits while another transaction's
\* uncommitted marker is in the slot, then inserts or finds a committed row.
Mark(t) ==
  /\ At(t, "mark")
  /\ marker[Slot(t)] = None
  /\ \/ /\ IsFresh(receipts[Slot(t)])
        /\ marker' = [marker EXCEPT ![Slot(t)] = t]
        /\ Goto(t, "lockOffer")
     \/ /\ ~IsFresh(receipts[Slot(t)])
        /\ Goto(t, "reread")
        /\ UNCHANGED marker
  /\ UNCHANGED <<rows, offerLock, listingLock, demandLock, now, cmd, began, reply>>

\* Broken: the loser of the insert is always told of a conflict.
RereadRefusing(t) == At(t, "reread") /\ Refuse(t)

\* The loser of the insert reads the winner's row.
Reread(t) ==
  /\ At(t, "reread")
  /\ \/ IsReplay(receipts[Slot(t)], t) /\ Replay(t)
     \/ ~IsReplay(receipts[Slot(t)], t) /\ Refuse(t)

OfferAcceptable(t) ==
  /\ offers[OfferOf(t)].status = "PENDING"
  /\ began[t] < Terms[OfferOf(t)].expires
  /\ offers[OfferOf(t)].version = cmd[t].offerVersion

LockOffer(t) ==
  /\ At(t, "lockOffer")
  /\ offerLock[OfferOf(t)] = None
  /\ \/ /\ OfferAcceptable(t)
        /\ offerLock' = [offerLock EXCEPT ![OfferOf(t)] = t]
        /\ Goto(t, "lockListing")
        /\ UNCHANGED <<rows, marker, listingLock, demandLock, now, cmd, began, reply>>
     \/ ~OfferAcceptable(t) /\ Refuse(t)

ListingAcceptable(t) ==
  LET row == listings[ListingOf(t)] IN
  /\ Owner[ListingOf(t)] = cmd[t].actor
  /\ row.version = cmd[t].listingVersion
  /\ row.status \in {"ACTIVE", "RESERVED"}
  /\ row.available >= Qty(t)

\* Broken: a plain SELECT, which neither waits nor locks.
LockListingPlainRead(t) ==
  /\ At(t, "lockListing")
  /\ \/ /\ ListingAcceptable(t)
        /\ Goto(t, "checkTerms")
        /\ UNCHANGED <<rows, locks, now, cmd, began, reply>>
     \/ ~ListingAcceptable(t) /\ Refuse(t)

\* Broken: a listing that is not as expected is read again until it is, with
\* the offer locked, instead of refusing.
LockListingRetrying(t) ==
  /\ At(t, "lockListing")
  /\ listingLock[ListingOf(t)] = None
  /\ ListingAcceptable(t)
  /\ listingLock' = [listingLock EXCEPT ![ListingOf(t)] = t]
  /\ Goto(t, "checkTerms")
  /\ UNCHANGED <<rows, marker, offerLock, demandLock, now, cmd, began, reply>>

LockListing(t) ==
  /\ At(t, "lockListing")
  /\ listingLock[ListingOf(t)] = None
  /\ \/ /\ ListingAcceptable(t)
        /\ listingLock' = [listingLock EXCEPT ![ListingOf(t)] = t]
        /\ Goto(t, "checkTerms")
        /\ UNCHANGED <<rows, marker, offerLock, demandLock, now, cmd, began, reply>>
     \/ ~ListingAcceptable(t) /\ Refuse(t)

\* Broken: a quote is still good at the instant it expires.
TermsAcceptableAtExpiry(t) ==
  LET q == Quote[cmd[t].quote] IN
  /\ q.listing = ListingOf(t)
  /\ q.demand = DemandOf(t)
  /\ began[t] <= q.expires
  /\ cmd[t].rec # None =>
       /\ OfferOf(t) \in Rec[cmd[t].rec].offers
       /\ cmd[t].quote \in Rec[cmd[t].rec].quotes
       /\ began[t] < Rec[cmd[t].rec].expires

\* The quote must be for this listing and this demand (or none); the
\* recommendation, if one is given, must restate the offer's parties, amounts
\* and demand and the quote's costs.
TermsAcceptable(t) ==
  LET q == Quote[cmd[t].quote] IN
  /\ q.listing = ListingOf(t)
  /\ q.demand = DemandOf(t)
  /\ began[t] < q.expires
  /\ cmd[t].rec # None =>
       /\ OfferOf(t) \in Rec[cmd[t].rec].offers
       /\ cmd[t].quote \in Rec[cmd[t].rec].quotes
       /\ began[t] < Rec[cmd[t].rec].expires

\* Plain reads: neither row is locked, and no column checked here ever changes.
CheckTerms(t) ==
  /\ At(t, "checkTerms")
  /\ \/ /\ TermsAcceptable(t)
        /\ Goto(t, IF DemandOf(t) = None THEN "settle" ELSE "lockDemand")
        /\ UNCHANGED <<rows, locks, now, cmd, began, reply>>
     \/ ~TermsAcceptable(t) /\ Refuse(t)

DemandAcceptable(t) ==
  LET d == DemandOf(t) IN
  /\ demands[d].status \in {"ACTIVE", "PARTIALLY_FILLED"}
  /\ OfferOf(t) \in Wanted[d].fits
  /\ Wanted[d].from <= began[t] /\ began[t] <= Wanted[d].until
  /\ Qty(t) <= Wanted[d].max - demands[d].fulfilled

LockDemand(t) ==
  /\ At(t, "lockDemand")
  /\ demandLock[DemandOf(t)] = None
  /\ \/ /\ DemandAcceptable(t)
        /\ demandLock' = [demandLock EXCEPT ![DemandOf(t)] = t]
        /\ Goto(t, "settle")
        /\ UNCHANGED <<rows, marker, offerLock, listingLock, now, cmd, began, reply>>
     \/ ~DemandAcceptable(t) /\ Refuse(t)

\* The total cost the farmer acknowledged is the quote's.
FinancialsAgree(t) == cmd[t].cost = Quote[cmd[t].quote].cost

\* The table constraints the writes run into: orders.accepted_offer_id is
\* unique, and the two CHECKs on quantities.
ConstraintsHold(t) ==
  /\ \A x \in orders : x.offer # OfferOf(t)
  /\ listings[ListingOf(t)].available >= Qty(t)
  /\ DemandOf(t) # None =>
       demands[DemandOf(t)].fulfilled + Qty(t) <= Wanted[DemandOf(t)].max

NewOrder(t) == [id |-> t, offer |-> OfferOf(t), quote |-> cmd[t].quote,
                cost |-> Quote[cmd[t].quote].cost, acceptedAt |-> began[t]]

\* Broken: the version is bumped and the status forgotten.
AcceptedOfferStillPending(row) == [status |-> row.status, version |-> row.version + 1]

AcceptedOffer(row) == [status |-> "ACCEPTED", version |-> row.version + 1]

\* Broken: the status is computed from the quantity before the draw.
DrawnListingStaleStatus(row, qty) ==
  [status    |-> IF row.available = 0 THEN "SOLD" ELSE "ACTIVE",
   version   |-> row.version + 1,
   available |-> row.available - qty]

DrawnListing(row, qty) ==
  [status    |-> IF row.available - qty = 0 THEN "SOLD" ELSE "ACTIVE",
   version   |-> row.version + 1,
   available |-> row.available - qty]

\* Broken: the last order's quantity replaces the sum.
FilledDemandOverwritten(row, qty, max) ==
  [status    |-> IF row.fulfilled + qty = max THEN "FULFILLED" ELSE "PARTIALLY_FILLED",
   version   |-> row.version + 1,
   fulfilled |-> qty]

FilledDemand(row, qty, max) ==
  [status    |-> IF row.fulfilled + qty = max THEN "FULFILLED" ELSE "PARTIALLY_FILLED",
   version   |-> row.version + 1,
   fulfilled |-> row.fulfilled + qty]

\* Broken: the receipt does not say which order it is for.
SucceededUnlinked(t) ==
  [status |-> "SUCCEEDED", fp |-> Fingerprint(cmd[t]), order |-> None]

Succeeded(t) == [status |-> "SUCCEEDED", fp |-> Fingerprint(cmd[t]), order |-> t]

\* The inserts and updates and the commit: all of them, at once.
Commit(t) ==
  /\ Goto(t, "done")
  /\ reply'    = [reply EXCEPT ![t] = t]
  /\ orders'   = orders \union {NewOrder(t)}
  /\ offers'   = [offers EXCEPT ![OfferOf(t)] = AcceptedOffer(@)]
  /\ listings' = [listings EXCEPT ![ListingOf(t)] = DrawnListing(@, Qty(t))]
  /\ demands'  = IF DemandOf(t) = None THEN demands
                 ELSE [demands EXCEPT ![DemandOf(t)] =
                         FilledDemand(@, Qty(t), Wanted[DemandOf(t)].max)]
  /\ receipts' = [receipts EXCEPT ![Slot(t)] = Succeeded(t)]
  /\ Release(t)
  /\ UNCHANGED <<now, cmd, began>>

Settle(t) ==
  /\ At(t, "settle")
  /\ \/ FinancialsAgree(t) /\ ConstraintsHold(t) /\ Commit(t)
     \/ ~(FinancialsAgree(t) /\ ConstraintsHold(t)) /\ Refuse(t)

\* command_timeout, a dropped connection or a dying backend before the commit.
Abort(t) == pc[t] \in Statement /\ Rollback(t, "aborted")

(***************************************************************************)
(* The other commands: one UPDATE or INSERT each, which waits for the row  *)
(* lock of a call and then sees the row that call left behind.  An INSERT  *)
(* of an offer waits too, for the key-share locks of its foreign keys; the *)
(* expiry that the API compares with its own clock just before is tested   *)
(* in the same step, and the key of the command is not modelled.           *)
(***************************************************************************)

CreateOffer(o) ==
  /\ offers[o].status = "ABSENT"
  /\ now < Terms[o].expires
  /\ listingLock[Terms[o].listing] = None
  /\ Terms[o].demand # None => demandLock[Terms[o].demand] = None
  /\ offers' = [offers EXCEPT ![o] = [status |-> "PENDING", version |-> 1]]
  /\ UNCHANGED <<listings, demands, orders, receipts, locks, now, calls>>

\* Broken: any existing offer can be withdrawn or rejected.
OfferCommandUnguarded(o, target) ==
  /\ offerLock[o] = None
  /\ offers[o].status # "ABSENT"
  /\ offers' = [offers EXCEPT ![o] = [status |-> target, version |-> @.version + 1]]
  /\ UNCHANGED <<listings, demands, orders, receipts, locks, now, calls>>

OfferCommand(o, target) ==
  /\ offerLock[o] = None
  /\ offers[o].status = "PENDING"
  /\ offers' = [offers EXCEPT ![o] = [status |-> target, version |-> @.version + 1]]
  /\ UNCHANGED <<listings, demands, orders, receipts, locks, now, calls>>

WithdrawOffer(o) == OfferCommand(o, "WITHDRAWN")
RejectOffer(o)   == OfferCommand(o, "REJECTED")

SetListingStatus(l, target, allowed) ==
  /\ listingLock[l] = None
  /\ listings[l].status \in allowed
  /\ listings' = [listings EXCEPT ![l] =
       [status |-> target, version |-> @.version + 1, available |-> @.available]]
  /\ UNCHANGED <<offers, demands, orders, receipts, locks, now, calls>>

PublishListing(l) == SetListingStatus(l, "ACTIVE", {"DRAFT"})

\* Broken: a sold listing is cancelled.
CancelListingSold(l) == SetListingStatus(l, "CANCELLED", {"DRAFT", "ACTIVE", "SOLD"})

CancelListing(l)  == SetListingStatus(l, "CANCELLED", {"DRAFT", "ACTIVE"})

SetDemandStatus(d, target, allowed) ==
  /\ demandLock[d] = None
  /\ demands[d].status \in allowed
  /\ demands' = [demands EXCEPT ![d] =
       [status |-> target, version |-> @.version + 1, fulfilled |-> @.fulfilled]]
  /\ UNCHANGED <<offers, listings, orders, receipts, locks, now, calls>>

PublishDemand(d) == SetDemandStatus(d, "ACTIVE", {"DRAFT"})
CancelDemand(d)  == SetDemandStatus(d, "CANCELLED", {"DRAFT", "ACTIVE", "PARTIALLY_FILLED"})

Tick ==
  /\ now < MaxTime
  /\ now' = now + 1
  /\ UNCHANGED <<rows, locks, calls>>

-----------------------------------------------------------------------------
\* What a call does by itself, once it has begun.
Proceed(t) ==
  \/ Lookup(t) \/ Mark(t) \/ Reread(t)
  \/ LockOffer(t) \/ LockListing(t) \/ CheckTerms(t) \/ LockDemand(t)
  \/ Settle(t)

CallStep(t) == Begin(t) \/ Proceed(t) \/ Abort(t)

OtherCommand ==
  \/ \E o \in Offers : CreateOffer(o) \/ WithdrawOffer(o) \/ RejectOffer(o)
  \/ \E l \in Listings : PublishListing(l) \/ CancelListing(l)
  \/ \E d \in Demands : PublishDemand(d) \/ CancelDemand(d)

Next == (\E t \in Calls : CallStep(t)) \/ OtherCommand \/ Tick

Spec == Init /\ [][Next]_vars

\* PostgreSQL goes on with a statement once the lock it waits for is free,
\* and queues the waiters of a lock.  Nothing obliges a client to call, a
\* farmer or a buyer to act, or a connection to break.
FairSpec == Spec /\ \A t \in Calls : WF_vars(Proceed(t))

-----------------------------------------------------------------------------
(***************************************************************************)
(* Properties.                                                             *)
(***************************************************************************)

\* The shape of every row, lock and call.
TypeOK ==
  /\ offers \in [Offers -> OfferRow]
  /\ listings \in [Listings -> ListingRow]
  /\ demands \in [Demands -> DemandRow]
  /\ orders \subseteq OrderRow
  /\ receipts \in [Slots -> ReceiptRow]
  /\ marker \in [Slots -> Calls \union {None}]
  /\ offerLock \in [Offers -> Calls \union {None}]
  /\ listingLock \in [Listings -> Calls \union {None}]
  /\ demandLock \in [Demands -> Calls \union {None}]
  /\ now \in Nat
  /\ pc \in [Calls -> Places]
  /\ cmd \in [Calls -> Commands \union {None}]
  /\ began \in [Calls -> Nat]
  /\ reply \in [Calls -> Calls \union {None}]

OrdersOf(o) == {x \in orders : x.offer = o}

\* "creates exactly one order per accepted offer": an offer is ACCEPTED when,
\* and only when, one order and no more carries it, whatever calls raced for it.
AcceptedIffOneOrder ==
  /\ \A o \in Offers : offers[o].status = "ACCEPTED" <=> OrdersOf(o) # {}
  /\ \A x, y \in orders : x.offer = y.offer => x = y

SoldQty(S) == MapThenSumSet(LAMBDA x : Terms[x.offer].qty, S)

\* Nothing is sold twice and nothing vanishes: what is left of a listing and
\* what its orders took add up to the harvest, and a demand has been filled by
\* exactly its own orders and never beyond its maximum.
QuantityConserved ==
  /\ \A l \in Listings :
       listings[l].available
         + SoldQty({x \in orders : Terms[x.offer].listing = l}) = Stock[l]
  /\ \A d \in Demands :
       /\ demands[d].fulfilled = SoldQty({x \in orders : Terms[x.offer].demand = d})
       /\ demands[d].fulfilled <= Wanted[d].max

\* "only exact exhaustion sets the listing to SOLD"; an open or cancelled
\* listing still has stock, and a demand's status tells how much of it is
\* filled, as the buyers' and farmers' screens assume.
StatusTellsQuantity ==
  /\ \A l \in Listings :
       /\ listings[l].status = "SOLD" <=> listings[l].available = 0
       /\ listings[l].status = "DRAFT" => listings[l].available = Stock[l]
  /\ \A d \in Demands : LET row == demands[d] IN
       /\ row.status \in {"DRAFT", "ACTIVE"} => row.fulfilled = 0
       /\ row.status = "PARTIALLY_FILLED" =>
            0 < row.fulfilled /\ row.fulfilled < Wanted[d].max
       /\ row.status = "FULFILLED" <=> row.fulfilled = Wanted[d].max

\* A committed receipt names a real order, placed by the actor of its slot and
\* for the offer its fingerprint names; an order has exactly one receipt; and
\* no failed or abandoned call leaves a receipt that would block its retry.
ReceiptsMatchOrders ==
  /\ \A s \in Slots :
       \/ receipts[s] = NoReceipt
       \/ /\ receipts[s].status = "SUCCEEDED"
          /\ \E x \in orders : /\ x.id = receipts[s].order
                               /\ x.offer = receipts[s].fp[2]
                               /\ Owner[Terms[x.offer].listing] = s[1]
  /\ \A x \in orders : \E s \in Slots :
       /\ receipts[s].order = x.id
       /\ \A r \in Slots : receipts[r].order = x.id => r = s

\* The snapshot of an order is what its farmer acknowledged, and everything it
\* rests on was still valid at the time it is stamped with.
OrderAsAcknowledged ==
  \A x \in orders :
    LET c == cmd[x.id]
        o == Terms[x.offer]
    IN  /\ x.offer = c.offer /\ x.quote = c.quote /\ x.cost = c.cost
        /\ Quote[x.quote].listing = o.listing /\ Quote[x.quote].demand = o.demand
        /\ x.acceptedAt < o.expires
        /\ x.acceptedAt < Quote[x.quote].expires
        /\ c.rec # None => x.acceptedAt < Rec[c.rec].expires
        /\ o.demand # None => /\ x.offer \in Wanted[o.demand].fits
                              /\ Wanted[o.demand].from <= x.acceptedAt
                              /\ x.acceptedAt <= Wanted[o.demand].until

\* At the moment an order appears, its offer is still pending and its listing
\* and demand still open, in exactly the versions the farmer had seen: no
\* withdrawal, cancellation or competing sale slips in between a call's checks
\* and its commit.
SaleStep ==
  \A x \in orders' \ orders :
    LET c == cmd[x.id]
        l == Terms[x.offer].listing
        d == Terms[x.offer].demand
    IN  /\ offers[x.offer] = [status |-> "PENDING", version |-> c.offerVersion]
        /\ listings[l].status = "ACTIVE"
        /\ listings[l].version = c.listingVersion
        /\ d # None => demands[d].status \in {"ACTIVE", "PARTIALLY_FILLED"}

SellsWhatWasSeen == [][SaleStep]_vars

\* Orders, successful receipts and decisions are for ever: no later command
\* removes an order, rebinds a key, reopens a decided offer, revives a
\* cancelled listing or demand or refills a sold one.
KeepsStep ==
  /\ orders \subseteq orders'
  /\ \A s \in Slots : receipts[s] # NoReceipt => receipts'[s] = receipts[s]
  /\ \A o \in Offers :
       offers[o].status \notin {"ABSENT", "PENDING"} => offers'[o] = offers[o]
  /\ \A l \in Listings :
       listings[l].status \in {"SOLD", "CANCELLED"} => listings'[l] = listings[l]
  /\ \A d \in Demands :
       demands[d].status \in {"FULFILLED", "CANCELLED"} => demands'[d] = demands[d]

DecisionsAreFinal == [][KeepsStep]_vars

\* "returns an existing result for a matching idempotent replay": once a key
\* has succeeded, a call repeating the request gets that order and no error,
\* however the calls overlapped, unless it is cut off itself.
ReplayStep ==
  \A t \in Calls :
    LET r == receipts[Slot(t)] IN
      (pc[t] \in Statement /\ r.status = "SUCCEEDED" /\ r.fp = Fingerprint(cmd[t])) =>
        /\ pc'[t] # "refused"
        /\ pc'[t] = "done" => reply'[t] = r.order

RetryGetsTheOrder == [][ReplayStep]_vars

\* No call waits for ever: locks are taken in one order and given back by
\* every way of ending, so each call is answered, refused or cut off.
EveryCallEnds == \A t \in Calls : pc[t] = "lookup" ~> pc[t] \in Ended

\* docs/DATABASE.md: "in-progress duplicates return IDEMPOTENCY_CONFLICT".
InProgressDuplicateRefused ==
  \A t \in Calls :
    [](/\ pc[t] = "mark"
       /\ marker[Slot(t)] \in Calls
       => [](reply[t] \in {None, t}))

(***************************************************************************)
(* Refinement: all a call does before its commit, and all that a call      *)
(* without a commit does, is invisible in the promised sale.               *)
(***************************************************************************)

OrderById(i) == CHOOSE x \in orders : x.id = i

BookEntry(status) ==
  CASE status = "ABSENT"   -> "absent"
    [] status = "PENDING"  -> "open"
    [] status = "ACCEPTED" -> "sold"
    [] OTHER               -> "closed"

Sale == INSTANCE AtomicSale WITH
  book    <- [o \in Offers |-> BookEntry(offers[o].status)],
  left    <- [l \in Listings |-> listings[l].available],
  filled  <- [d \in Demands |-> demands[d].fulfilled],
  receipt <- [s \in Slots |-> IF receipts[s] = NoReceipt THEN None
                              ELSE OrderById(receipts[s].order).offer]

\* Every behaviour of the transactions is a behaviour of the atomic sale.
ImplementsAtomicSale == Sale!Spec
=============================================================================
