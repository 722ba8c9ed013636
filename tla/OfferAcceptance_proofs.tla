----------------------- MODULE OfferAcceptance_proofs -----------------------
(***************************************************************************)
(* What OfferAcceptance promises for any number of farmers, listings,      *)
(* demands, offers, keys and calls, and what DemoReset adds to it.         *)
(*                                                                         *)
(* Next has many disjuncts but few kinds of step, as far as the invariants *)
(* are concerned: StepKinds sorts them once, and every invariance proof    *)
(* goes through the kinds.                                                 *)
(***************************************************************************)
EXTENDS DemoReset, Totals, TLAPS

-----------------------------------------------------------------------------
(***************************************************************************)
(* The kinds of step a call can make.                                      *)
(***************************************************************************)

\* A statement that only reads: nothing but the call's place changes.
Pass(t) ==
  /\ UNCHANGED <<rows, locks, now, cmd, began, reply>>
  /\ \/ At(t, "lookup") /\ Goto(t, "mark")
     \/ At(t, "mark") /\ Goto(t, "reread")
     \/ /\ At(t, "checkTerms")
        /\ TermsAcceptable(t)
        /\ Goto(t, IF DemandOf(t) = None THEN "settle" ELSE "lockDemand")

\* A finished request is answered with its earlier order.
Repeat(t) ==
  /\ pc[t] \in {"lookup", "reread"}
  /\ IsReplay(receipts[Slot(t)], t)
  /\ Replay(t)

Undo(t) == pc[t] \in Statement /\ \E place \in {"refused", "aborted"} : Rollback(t, place)

TakeMarker(t) ==
  /\ At(t, "mark")
  /\ marker[Slot(t)] = None
  /\ IsFresh(receipts[Slot(t)])
  /\ marker' = [marker EXCEPT ![Slot(t)] = t]
  /\ Goto(t, "lockOffer")
  /\ UNCHANGED <<rows, offerLock, listingLock, demandLock, now, cmd, began, reply>>

TakeOffer(t) ==
  /\ At(t, "lockOffer")
  /\ offerLock[OfferOf(t)] = None
  /\ OfferAcceptable(t)
  /\ offerLock' = [offerLock EXCEPT ![OfferOf(t)] = t]
  /\ Goto(t, "lockListing")
  /\ UNCHANGED <<rows, marker, listingLock, demandLock, now, cmd, began, reply>>

TakeListing(t) ==
  /\ At(t, "lockListing")
  /\ listingLock[ListingOf(t)] = None
  /\ ListingAcceptable(t)
  /\ listingLock' = [listingLock EXCEPT ![ListingOf(t)] = t]
  /\ Goto(t, "checkTerms")
  /\ UNCHANGED <<rows, marker, offerLock, demandLock, now, cmd, began, reply>>

TakeDemand(t) ==
  /\ At(t, "lockDemand")
  /\ demandLock[DemandOf(t)] = None
  /\ DemandAcceptable(t)
  /\ demandLock' = [demandLock EXCEPT ![DemandOf(t)] = t]
  /\ Goto(t, "settle")
  /\ UNCHANGED <<rows, marker, offerLock, listingLock, now, cmd, began, reply>>

Sells(t) ==
  At(t, "settle") /\ FinancialsAgree(t) /\ ConstraintsHold(t) /\ Commit(t)

KindOfStep(t) ==
  \/ Begin(t) \/ Pass(t) \/ Repeat(t) \/ Undo(t)
  \/ TakeMarker(t) \/ TakeOffer(t) \/ TakeListing(t) \/ TakeDemand(t)
  \/ Sells(t)

\* Every step of a call is of one of these kinds, whichever statement it was.
LEMMA StepKinds ==
  ASSUME NEW t \in Calls, CallStep(t)
  PROVE  KindOfStep(t)
<1>1. CASE Begin(t)
  BY <1>1 DEF KindOfStep
<1>2. CASE Lookup(t)
  <2>1. At(t, "lookup") /\ pc[t] \in Statement
    BY <1>2 DEF Lookup, At, Statement
  <2>2. QED
    BY <1>2, <2>1 DEF Lookup, KindOfStep, Pass, Repeat, Undo, Refuse, At, rows, locks
<1>3. CASE Mark(t)
  BY <1>3 DEF Mark, KindOfStep, Pass, TakeMarker, rows, locks
<1>4. CASE Reread(t)
  <2>1. pc[t] = "reread" /\ pc[t] \in Statement
    BY <1>4 DEF Reread, At, Statement
  <2>2. QED
    BY <1>4, <2>1 DEF Reread, KindOfStep, Repeat, Undo, Refuse
<1>5. CASE LockOffer(t)
  <2>1. pc[t] \in Statement
    BY <1>5 DEF LockOffer, At, Statement
  <2>2. QED
    BY <1>5, <2>1 DEF LockOffer, KindOfStep, TakeOffer, Undo, Refuse
<1>6. CASE LockListing(t)
  <2>1. pc[t] \in Statement
    BY <1>6 DEF LockListing, At, Statement
  <2>2. QED
    BY <1>6, <2>1 DEF LockListing, KindOfStep, TakeListing, Undo, Refuse
<1>7. CASE CheckTerms(t)
  <2>1. pc[t] \in Statement
    BY <1>7 DEF CheckTerms, At, Statement
  <2>2. QED
    BY <1>7, <2>1 DEF CheckTerms, KindOfStep, Pass, Undo, Refuse
<1>8. CASE LockDemand(t)
  <2>1. pc[t] \in Statement
    BY <1>8 DEF LockDemand, At, Statement
  <2>2. QED
    BY <1>8, <2>1 DEF LockDemand, KindOfStep, TakeDemand, Undo, Refuse
<1>9. CASE Settle(t)
  <2>1. pc[t] \in Statement
    BY <1>9 DEF Settle, At, Statement
  <2>2. QED
    BY <1>9, <2>1 DEF Settle, KindOfStep, Sells, Undo, Refuse
<1>10. CASE Abort(t)
  BY <1>10 DEF Abort, KindOfStep, Undo
<1>11. QED
  BY <1>1, <1>2, <1>3, <1>4, <1>5, <1>6, <1>7, <1>8, <1>9, <1>10 DEF CallStep, Proceed

(***************************************************************************)
(* What the constants give a request and what releasing locks does.        *)
(***************************************************************************)

\* A request names existing rows, and so do the terms of its offer.
LEMMA RequestTypes ==
  ASSUME NEW t \in Calls, cmd[t] \in Commands
  PROVE  /\ cmd[t] \in Command
         /\ Slot(t) \in Slots
         /\ OfferOf(t) \in Offers
         /\ ListingOf(t) \in Listings
         /\ DemandOf(t) \in Demands \union {None}
         /\ Qty(t) \in Nat /\ Qty(t) > 0
         /\ Fingerprint(cmd[t]) \in {Fingerprint(c) : c \in Commands}
<1>1. cmd[t] \in Command
  BY ConstantTypes
<1>2. Terms[cmd[t].offer] \in OfferTerms
  BY <1>1, ConstantTypes DEF Command
<1>3. QED
  BY <1>1, <1>2 DEF Command, OfferTerms, Slot, Slots, OfferOf, ListingOf, DemandOf, Qty

\* Releasing frees exactly the call's own locks.
LEMMA FreedLock ==
  ASSUME NEW S, NEW lock \in [S -> Calls \union {None}], NEW t \in Calls
  PROVE  /\ Freed(lock, t) \in [S -> Calls \union {None}]
         /\ \A r \in S, u \in Calls : Freed(lock, t)[r] = u <=> lock[r] = u /\ u # t
BY NoneIsNoRow DEF Freed

-----------------------------------------------------------------------------
(***************************************************************************)
(* Type correctness.  A call that has begun knows its request.             *)
(***************************************************************************)

Running(t) == pc[t] \in Statement

KnowsRequest == \A t \in Calls : Running(t) \/ pc[t] = "done" => cmd[t] \in Commands

TypeInv == TypeOK /\ KnowsRequest

\* The rows start out with their types.
LEMMA TypeInit == Init => TypeInv
<1> SUFFICES ASSUME Init PROVE TypeInv
  OBVIOUS
<1>1. receipts \in [Slots -> ReceiptRow]
  BY DEF Init, NoReceipt, ReceiptRow
<1>2. TypeOK
  BY <1>1, ConstantTypes
     DEF Init, TypeOK, OfferRow, ListingRow, DemandRow, OfferStatus, ListingStatus, DemandStatus, OrderRow, Places
<1>3. KnowsRequest
  BY DEF Init, KnowsRequest, Running, Statement
<1>4. QED
  BY <1>2, <1>3 DEF TypeInv

\* What a sale writes has its type; the quantity left is not negative because
\* the constraint on the column holds.
LEMMA SaleTypes ==
  ASSUME TypeInv, NEW t \in Calls, Sells(t)
  PROVE  /\ NewOrder(t) \in OrderRow
         /\ AcceptedOffer(offers[OfferOf(t)]) \in OfferRow
         /\ DrawnListing(listings[ListingOf(t)], Qty(t)) \in ListingRow
         /\ DemandOf(t) # None =>
              FilledDemand(demands[DemandOf(t)], Qty(t), Wanted[DemandOf(t)].max) \in DemandRow
         /\ Succeeded(t) \in ReceiptRow
<1>1. cmd[t] \in Commands
  BY DEF TypeInv, KnowsRequest, Running, Statement, Sells, At
<1>2. /\ cmd[t] \in Command /\ OfferOf(t) \in Offers /\ ListingOf(t) \in Listings
      /\ DemandOf(t) \in Demands \union {None} /\ Qty(t) \in Nat
      /\ Fingerprint(cmd[t]) \in {Fingerprint(c) : c \in Commands}
  BY <1>1, RequestTypes
<1>3. /\ offers[OfferOf(t)] \in OfferRow
      /\ listings[ListingOf(t)] \in ListingRow
      /\ DemandOf(t) # None =>
           demands[DemandOf(t)] \in DemandRow
      /\ began[t] \in Nat
  BY <1>2 DEF TypeInv, TypeOK
<1>4. NewOrder(t) \in OrderRow
  <2>1. Quote[cmd[t].quote] \in QuoteTerms /\ cmd[t].quote \in Quotes
    BY <1>2, ConstantTypes DEF Command
  <2>2. QED
    BY <1>2, <1>3, <2>1 DEF NewOrder, OrderRow, QuoteTerms
<1>5. AcceptedOffer(offers[OfferOf(t)]) \in OfferRow
  BY <1>3 DEF AcceptedOffer, OfferRow, OfferStatus
<1>6. DrawnListing(listings[ListingOf(t)], Qty(t)) \in ListingRow
  <2>1. listings[ListingOf(t)].available >= Qty(t)
    BY DEF Sells, ConstraintsHold
  <2>2. QED
    BY <1>2, <1>3, <2>1 DEF DrawnListing, ListingRow, ListingStatus
<1>7. DemandOf(t) # None =>
        FilledDemand(demands[DemandOf(t)], Qty(t), Wanted[DemandOf(t)].max) \in DemandRow
  BY <1>2, <1>3 DEF FilledDemand, DemandRow, DemandStatus
<1>8. Succeeded(t) \in ReceiptRow
  BY <1>2 DEF Succeeded, ReceiptRow
<1>9. QED
  BY <1>4, <1>5, <1>6, <1>7, <1>8

\* A step of accept_offer keeps the types.
LEMMA TypeCallStep ==
  ASSUME TypeInv, NEW t \in Calls, KindOfStep(t)
  PROVE  TypeInv'
<1>1. CASE Begin(t)
  <2>1. PICK c \in Commands : cmd' = [cmd EXCEPT ![t] = c]
    BY <1>1 DEF Begin
  <2>2. TypeOK'
    BY <1>1, <2>1 DEF TypeInv, TypeOK, Begin, Goto, Places, Statement, rows, locks
  <2>3. KnowsRequest'
    BY <1>1, <2>1 DEF TypeInv, TypeOK, KnowsRequest, Running, Begin, Goto
  <2>4. QED
    BY <2>2, <2>3 DEF TypeInv
<1>2. CASE Pass(t)
  <2>1. TypeOK'
    BY <1>2 DEF TypeInv, TypeOK, Pass, Goto, Places, Statement, rows, locks
  <2>2. KnowsRequest'
    BY <1>2 DEF TypeInv, TypeOK, KnowsRequest, Running, Pass, At, Goto, Statement
  <2>3. QED
    BY <2>1, <2>2 DEF TypeInv
<1>3. CASE Repeat(t)
  <2>1. Running(t) /\ receipts[Slot(t)] \in ReceiptRow
    <3>1. Running(t)
      BY <1>3 DEF Repeat, Running, Statement
    <3>2. QED
      BY <3>1, RequestTypes DEF TypeInv, TypeOK, KnowsRequest
  <2>2. TypeOK'
    BY <1>3, <2>1 DEF TypeInv, TypeOK, Repeat, Replay, Goto, Places, Ended, ReceiptRow, rows, locks
  <2>3. KnowsRequest'
    BY <1>3, <2>1 DEF TypeInv, TypeOK, KnowsRequest, Running, Repeat, Replay, Goto
  <2>4. QED
    BY <2>2, <2>3 DEF TypeInv
<1>4. CASE Undo(t)
  <2>1. PICK place \in {"refused", "aborted"} : Rollback(t, place)
    BY <1>4 DEF Undo
  <2>2. TypeOK'
    BY <2>1, FreedLock DEF TypeInv, TypeOK, Rollback, Release, Goto, Places, Ended, rows
  <2>3. KnowsRequest'
    BY <2>1 DEF TypeInv, TypeOK, KnowsRequest, Running, Rollback, Goto, Statement
  <2>4. QED
    BY <2>2, <2>3 DEF TypeInv
<1>5. CASE TakeMarker(t)
  <2>1. TypeOK'
    BY <1>5 DEF TypeInv, TypeOK, TakeMarker, Goto, Places, Statement, rows
  <2>2. KnowsRequest'
    BY <1>5 DEF TypeInv, TypeOK, KnowsRequest, Running, TakeMarker, At, Goto, Statement
  <2>3. QED
    BY <2>1, <2>2 DEF TypeInv
<1>6. CASE TakeOffer(t)
  <2>1. TypeOK'
    BY <1>6 DEF TypeInv, TypeOK, TakeOffer, Goto, Places, Statement, rows
  <2>2. KnowsRequest'
    BY <1>6 DEF TypeInv, TypeOK, KnowsRequest, Running, TakeOffer, At, Goto, Statement
  <2>3. QED
    BY <2>1, <2>2 DEF TypeInv
<1>7. CASE TakeListing(t)
  <2>1. TypeOK'
    BY <1>7 DEF TypeInv, TypeOK, TakeListing, Goto, Places, Statement, rows
  <2>2. KnowsRequest'
    BY <1>7 DEF TypeInv, TypeOK, KnowsRequest, Running, TakeListing, At, Goto, Statement
  <2>3. QED
    BY <2>1, <2>2 DEF TypeInv
<1>8. CASE TakeDemand(t)
  <2>1. TypeOK'
    BY <1>8 DEF TypeInv, TypeOK, TakeDemand, Goto, Places, Statement, rows
  <2>2. KnowsRequest'
    BY <1>8 DEF TypeInv, TypeOK, KnowsRequest, Running, TakeDemand, At, Goto, Statement
  <2>3. QED
    BY <2>1, <2>2 DEF TypeInv
<1>9. CASE Sells(t)
  <2>1. Commit(t)
    BY <1>9 DEF Sells
  <2>2. /\ orders' \subseteq OrderRow
        /\ offers' \in [Offers -> OfferRow]
        /\ listings' \in [Listings -> ListingRow]
        /\ demands' \in [Demands -> DemandRow]
        /\ receipts' \in [Slots -> ReceiptRow]
    BY <1>9, <2>1, SaleTypes DEF TypeInv, TypeOK, Commit
  <2>3. TypeOK'
    BY <2>1, <2>2, FreedLock DEF TypeInv, TypeOK, Commit, Release, Goto, Places, Ended
  <2>4. KnowsRequest'
    BY <1>9, <2>1
       DEF TypeInv, TypeOK, KnowsRequest, Running, Commit, Sells, At, Goto, Statement
  <2>5. QED
    BY <2>3, <2>4 DEF TypeInv
<1>10. QED
  BY <1>1, <1>2, <1>3, <1>4, <1>5, <1>6, <1>7, <1>8, <1>9 DEF KindOfStep

\* So do the commands beside it and the clock.
LEMMA TypeOtherStep ==
  ASSUME TypeInv, OtherCommand \/ Tick \/ UNCHANGED vars
  PROVE  TypeInv'
<1>1. ASSUME NEW o \in Offers, CreateOffer(o)
      PROVE  TypeInv'
  BY <1>1 DEF TypeInv, TypeOK, KnowsRequest, Running, CreateOffer, OfferRow, OfferStatus,
              locks, calls
<1>2. ASSUME NEW o \in Offers, WithdrawOffer(o) \/ RejectOffer(o)
      PROVE  TypeInv'
  <2>1. PICK target \in OfferStatus : OfferCommand(o, target)
    BY <1>2 DEF WithdrawOffer, RejectOffer, OfferStatus
  <2>2. offers' \in [Offers -> OfferRow]
    BY <2>1 DEF TypeInv, TypeOK, OfferCommand, OfferRow
  <2>3. QED
    BY <2>1, <2>2 DEF TypeInv, TypeOK, KnowsRequest, Running, OfferCommand, locks, calls
<1>3. ASSUME NEW l \in Listings, PublishListing(l) \/ CancelListing(l)
      PROVE  TypeInv'
  <2>1. PICK target \in ListingStatus, allowed \in SUBSET ListingStatus :
          SetListingStatus(l, target, allowed)
    BY <1>3 DEF PublishListing, CancelListing, ListingStatus
  <2>2. listings[l] \in ListingRow
    BY DEF TypeInv, TypeOK
  <2>3. listings' \in [Listings -> ListingRow]
    BY <2>1, <2>2 DEF TypeInv, TypeOK, SetListingStatus, ListingRow
  <2>4. QED
    BY <2>1, <2>3
       DEF TypeInv, TypeOK, KnowsRequest, Running, SetListingStatus, locks, calls
<1>4. ASSUME NEW d \in Demands, PublishDemand(d) \/ CancelDemand(d)
      PROVE  TypeInv'
  <2>1. PICK target \in DemandStatus, allowed \in SUBSET DemandStatus :
          SetDemandStatus(d, target, allowed)
    BY <1>4 DEF PublishDemand, CancelDemand, DemandStatus
  <2>2. demands[d] \in DemandRow
    BY DEF TypeInv, TypeOK
  <2>3. demands' \in [Demands -> DemandRow]
    BY <2>1, <2>2 DEF TypeInv, TypeOK, SetDemandStatus, DemandRow
  <2>4. QED
    BY <2>1, <2>3
       DEF TypeInv, TypeOK, KnowsRequest, Running, SetDemandStatus, locks, calls
<1>5. CASE Tick
  BY <1>5 DEF TypeInv, TypeOK, KnowsRequest, Running, Tick, rows, locks, calls
<1>6. CASE UNCHANGED vars
  BY <1>6 DEF TypeInv, TypeOK, KnowsRequest, Running, vars, rows, locks, calls
<1>7. QED
  BY <1>1, <1>2, <1>3, <1>4, <1>5, <1>6 DEF OtherCommand

\* Every row, lock and call keeps its type, whatever the constants: in
\* particular no sale leaves a negative quantity behind.
THEOREM TypeCorrect == Spec => []TypeOK
<1>1. Init => TypeInv
  BY TypeInit
<1>2. TypeInv /\ [Next]_vars => TypeInv'
  BY StepKinds, TypeCallStep, TypeOtherStep DEF Next
<1>3. TypeInv => TypeOK
  BY DEF TypeInv
<1>4. QED
  BY <1>1, <1>2, <1>3, PTL DEF Spec

-----------------------------------------------------------------------------
(***************************************************************************)
(* Locks.  A call's place tells exactly which locks it holds: this is what *)
(* lets a check made under a lock be relied on when the sale is written.   *)
(***************************************************************************)

InBody      == {"lockOffer", "lockListing", "checkTerms", "lockDemand", "settle"}
PastOffer   == {"lockListing", "checkTerms", "lockDemand", "settle"}
PastListing == {"checkTerms", "lockDemand", "settle"}

MarkersHeld == \A t \in Calls, s \in Slots :
  marker[s] = t <=> pc[t] \in InBody /\ s = Slot(t)
OffersHeld == \A t \in Calls, o \in Offers :
  offerLock[o] = t <=> pc[t] \in PastOffer /\ o = OfferOf(t)
ListingsHeld == \A t \in Calls, l \in Listings :
  listingLock[l] = t <=> pc[t] \in PastListing /\ l = ListingOf(t)
DemandsHeld == \A t \in Calls, d \in Demands :
  demandLock[d] = t <=> pc[t] = "settle" /\ d = DemandOf(t)

LocksHeld == MarkersHeld /\ OffersHeld /\ ListingsHeld /\ DemandsHeld

\* No call holds a lock before it has begun.
LEMMA LocksInit == Init => LocksHeld
BY NoneIsNoRow
   DEF Init, LocksHeld, MarkersHeld, OffersHeld, ListingsHeld, DemandsHeld,
       InBody, PastOffer, PastListing

\* A step of one call leaves the others where they are.
LEMMA OthersStay ==
  ASSUME TypeInv, NEW t \in Calls, KindOfStep(t), NEW u \in Calls, u # t
  PROVE  pc'[u] = pc[u] /\ cmd'[u] = cmd[u] /\ began'[u] = began[u] /\ reply'[u] = reply[u]
<1> USE DEF TypeInv, TypeOK, Goto
<1>1. CASE Begin(t)
  BY <1>1 DEF Begin
<1>2. CASE Pass(t)
  BY <1>2 DEF Pass
<1>3. CASE Repeat(t)
  BY <1>3 DEF Repeat, Replay
<1>4. CASE Undo(t)
  BY <1>4 DEF Undo, Rollback
<1>5. CASE TakeMarker(t) \/ TakeOffer(t) \/ TakeListing(t) \/ TakeDemand(t)
  BY <1>5 DEF TakeMarker, TakeOffer, TakeListing, TakeDemand
<1>6. CASE Sells(t)
  BY <1>6 DEF Sells, Commit
<1>7. QED
  BY <1>1, <1>2, <1>3, <1>4, <1>5, <1>6 DEF KindOfStep

\* The locks of a call that has just ended are free, all others are as before.
LEMMA LocksReleased ==
  ASSUME TypeInv, LocksHeld, NEW t \in Calls, Release(t), pc'[t] \in Ended,
         \A u \in Calls : u # t => pc'[u] = pc[u] /\ cmd'[u] = cmd[u]
  PROVE  LocksHeld'
<1>1. pc'[t] \notin InBody /\ pc'[t] \notin PastOffer /\ pc'[t] \notin PastListing
      /\ pc'[t] # "settle"
  BY DEF Ended, InBody, PastOffer, PastListing
<1>2. MarkersHeld'
  <2>1. \A r \in Slots, u \in Calls : marker'[r] = u <=> marker[r] = u /\ u # t
    <3>1. marker \in [Slots -> Calls \union {None}] /\ marker' = Freed(marker, t)
      BY DEF TypeInv, TypeOK, Release
    <3>2. QED
      BY <3>1, FreedLock
  <2>2. QED
    BY <1>1, <2>1 DEF LocksHeld, MarkersHeld, Slot
<1>3. OffersHeld'
  <2>1. \A r \in Offers, u \in Calls : offerLock'[r] = u <=> offerLock[r] = u /\ u # t
    <3>1. offerLock \in [Offers -> Calls \union {None}] /\ offerLock' = Freed(offerLock, t)
      BY DEF TypeInv, TypeOK, Release
    <3>2. QED
      BY <3>1, FreedLock
  <2>2. QED
    BY <1>1, <2>1 DEF LocksHeld, OffersHeld, OfferOf
<1>4. ListingsHeld'
  <2>1. \A r \in Listings, u \in Calls : listingLock'[r] = u <=> listingLock[r] = u /\ u # t
    <3>1. listingLock \in [Listings -> Calls \union {None}] /\ listingLock' = Freed(listingLock, t)
      BY DEF TypeInv, TypeOK, Release
    <3>2. QED
      BY <3>1, FreedLock
  <2>2. QED
    BY <1>1, <2>1 DEF LocksHeld, ListingsHeld, ListingOf, OfferOf
<1>5. DemandsHeld'
  <2>1. \A r \in Demands, u \in Calls : demandLock'[r] = u <=> demandLock[r] = u /\ u # t
    <3>1. demandLock \in [Demands -> Calls \union {None}] /\ demandLock' = Freed(demandLock, t)
      BY DEF TypeInv, TypeOK, Release
    <3>2. QED
      BY <3>1, FreedLock
  <2>2. QED
    BY <1>1, <2>1 DEF LocksHeld, DemandsHeld, DemandOf, OfferOf
<1>6. QED
  BY <1>2, <1>3, <1>4, <1>5 DEF LocksHeld

\* A call holds a lock exactly while it is past the statement that takes it.
LEMMA LocksCallStep ==
  ASSUME TypeInv, LocksHeld, NEW t \in Calls, KindOfStep(t)
  PROVE  LocksHeld'
<1>1. \A u \in Calls : u # t => pc'[u] = pc[u] /\ cmd'[u] = cmd[u]
  BY OthersStay
<1>2. CASE Begin(t) \/ Pass(t) \/ Repeat(t)
  <2>1. UNCHANGED locks
    BY <1>2 DEF Begin, Pass, Repeat, Replay, locks
  <2>2. pc[t] \in {"idle", "lookup", "mark", "reread", "checkTerms"}
    BY <1>2 DEF Begin, Pass, Repeat, At
  <2>3. CASE pc[t] = "checkTerms"
    <3>1. /\ cmd' = cmd
          /\ pc'[t] = IF DemandOf(t) = None THEN "settle" ELSE "lockDemand"
      BY <1>2, <2>3 DEF Begin, Pass, Repeat, At, Goto, TypeInv, TypeOK
    <3>2. MarkersHeld' /\ OffersHeld' /\ ListingsHeld'
      BY <1>1, <2>1, <2>3, <3>1
         DEF LocksHeld, MarkersHeld, OffersHeld, ListingsHeld, InBody, PastOffer,
             PastListing, Slot, ListingOf, OfferOf, locks
    <3>3. DemandsHeld'
      BY <1>1, <2>1, <2>3, <3>1, NoneIsNoRow
         DEF LocksHeld, DemandsHeld, DemandOf, OfferOf, locks
    <3>4. QED
      BY <3>2, <3>3 DEF LocksHeld
  <2>4. CASE pc[t] # "checkTerms"
    <3>1. pc'[t] \in {"lookup", "mark", "reread", "done"}
      BY <1>2, <2>4 DEF Begin, Pass, Repeat, Replay, At, Goto, TypeInv, TypeOK
    <3>2. QED
      BY <1>1, <2>1, <2>2, <2>4, <3>1
         DEF LocksHeld, MarkersHeld, OffersHeld, ListingsHeld, DemandsHeld, InBody,
             PastOffer, PastListing, Slot, ListingOf, DemandOf, OfferOf, locks
  <2>5. QED
    BY <2>3, <2>4
<1>3. CASE Undo(t)
  BY <1>1, <1>3, LocksReleased DEF Undo, Rollback, Goto, Ended, TypeInv, TypeOK
<1>4. CASE Sells(t)
  BY <1>1, <1>4, LocksReleased DEF Sells, Commit, Goto, Ended, TypeInv, TypeOK
<1>5. CASE TakeMarker(t)
  <2>1. pc[t] = "mark" /\ pc' = [pc EXCEPT ![t] = "lockOffer"] /\ cmd' = cmd
    BY <1>5 DEF TakeMarker, At, Goto
  <2>2. MarkersHeld'
    <3>1. Slot(t) \in Slots
      BY <2>1, RequestTypes DEF TypeInv, KnowsRequest, Running, Statement
    <3>2. \A u \in Calls : Slot(u)' = Slot(u)
      BY <2>1 DEF Slot
    <3>3. \A s \in Slots : marker'[s] = IF s = Slot(t) THEN t ELSE marker[s]
      BY <1>5, <3>1 DEF TypeInv, TypeOK, TakeMarker
    <3>4. \A u \in Calls : pc'[u] \in InBody <=> pc[u] \in InBody \/ u = t
      BY <2>1 DEF TypeInv, TypeOK, InBody
    <3>5. marker[Slot(t)] = None
      BY <1>5 DEF TakeMarker
    <3>6. pc[t] \notin InBody
      BY <2>1 DEF InBody
    <3>7. QED
      BY <3>1, <3>2, <3>3, <3>4, <3>5, <3>6, NoneIsNoRow DEF LocksHeld, MarkersHeld
  <2>3. OffersHeld' /\ ListingsHeld' /\ DemandsHeld'
    BY <1>5, <2>1
       DEF TypeInv, TypeOK, LocksHeld, OffersHeld, ListingsHeld, DemandsHeld, TakeMarker,
           PastOffer, PastListing, ListingOf, DemandOf, OfferOf
  <2>4. QED
    BY <2>2, <2>3 DEF LocksHeld
<1>6. CASE TakeOffer(t)
  <2>1. pc[t] = "lockOffer" /\ pc' = [pc EXCEPT ![t] = "lockListing"] /\ cmd' = cmd
    BY <1>6 DEF TakeOffer, At, Goto
  <2>2. OffersHeld'
    BY <1>6, <2>1, NoneIsNoRow
       DEF TypeInv, TypeOK, LocksHeld, OffersHeld, TakeOffer, PastOffer, OfferOf
  <2>3. MarkersHeld' /\ ListingsHeld' /\ DemandsHeld'
    BY <1>6, <2>1
       DEF TypeInv, TypeOK, LocksHeld, MarkersHeld, ListingsHeld, DemandsHeld, TakeOffer,
           InBody, PastListing, Slot, ListingOf, DemandOf, OfferOf
  <2>4. QED
    BY <2>2, <2>3 DEF LocksHeld
<1>7. CASE TakeListing(t)
  <2>1. pc[t] = "lockListing" /\ pc' = [pc EXCEPT ![t] = "checkTerms"] /\ cmd' = cmd
    BY <1>7 DEF TakeListing, At, Goto
  <2>2. ListingsHeld'
    BY <1>7, <2>1, NoneIsNoRow
       DEF TypeInv, TypeOK, LocksHeld, ListingsHeld, TakeListing, PastListing, ListingOf,
           OfferOf
  <2>3. MarkersHeld' /\ OffersHeld' /\ DemandsHeld'
    BY <1>7, <2>1
       DEF TypeInv, TypeOK, LocksHeld, MarkersHeld, OffersHeld, DemandsHeld, TakeListing,
           InBody, PastOffer, Slot, DemandOf, OfferOf
  <2>4. QED
    BY <2>2, <2>3 DEF LocksHeld
<1>8. CASE TakeDemand(t)
  <2>1. pc[t] = "lockDemand" /\ pc' = [pc EXCEPT ![t] = "settle"] /\ cmd' = cmd
    BY <1>8 DEF TakeDemand, At, Goto
  <2>2. DemandsHeld'
    BY <1>8, <2>1, NoneIsNoRow
       DEF TypeInv, TypeOK, LocksHeld, DemandsHeld, TakeDemand, DemandOf, OfferOf
  <2>3. MarkersHeld' /\ OffersHeld' /\ ListingsHeld'
    BY <1>8, <2>1
       DEF TypeInv, TypeOK, LocksHeld, MarkersHeld, OffersHeld, ListingsHeld, TakeDemand,
           InBody, PastOffer, PastListing, Slot, ListingOf, OfferOf
  <2>4. QED
    BY <2>2, <2>3 DEF LocksHeld
<1>9. QED
  BY <1>2, <1>3, <1>4, <1>5, <1>6, <1>7, <1>8 DEF KindOfStep

\* Nothing but a call's own steps touches its locks.
LEMMA OtherStepsKeepCalls ==
  ASSUME OtherCommand \/ Tick \/ UNCHANGED vars
  PROVE  UNCHANGED <<locks, calls, orders, receipts>>
<1>1. CASE OtherCommand
  BY <1>1 DEF OtherCommand, CreateOffer, WithdrawOffer, RejectOffer, OfferCommand,
              PublishListing, CancelListing, SetListingStatus,
              PublishDemand, CancelDemand, SetDemandStatus
<1>2. CASE Tick \/ UNCHANGED vars
  BY <1>2 DEF Tick, vars, rows
<1>3. QED
  BY <1>1, <1>2

\* A command of another kind takes and frees no lock.
LEMMA LocksOtherStep ==
  ASSUME LocksHeld, OtherCommand \/ Tick \/ UNCHANGED vars
  PROVE  LocksHeld'
BY OtherStepsKeepCalls
   DEF LocksHeld, MarkersHeld, OffersHeld, ListingsHeld, DemandsHeld, Slot, ListingOf,
       DemandOf, OfferOf, locks, calls

-----------------------------------------------------------------------------
(***************************************************************************)
(* What a call has checked stays true until it commits: each check is made *)
(* under the lock that forbids everybody else to change its outcome.       *)
(***************************************************************************)

CheckedOffer   == \A t \in Calls : pc[t] \in PastOffer => OfferAcceptable(t)
CheckedListing == \A t \in Calls : pc[t] \in PastListing => ListingAcceptable(t)
CheckedTerms   == \A t \in Calls :
  pc[t] \in {"lockDemand", "settle"} => TermsAcceptable(t)
CheckedDemand  == \A t \in Calls :
  /\ pc[t] = "lockDemand" => DemandOf(t) # None
  /\ pc[t] = "settle" /\ DemandOf(t) # None => DemandAcceptable(t)
CheckedKey     == \A t \in Calls : pc[t] \in InBody => receipts[Slot(t)] = NoReceipt

Checked == CheckedOffer /\ CheckedListing /\ CheckedTerms /\ CheckedDemand /\ CheckedKey

(***************************************************************************)
(* What is known of every order, of every receipt and of every status.     *)
(***************************************************************************)

OrderSound(x) ==
  /\ pc[x.id] = "done"
  /\ x = NewOrder(x.id)
  /\ receipts[Slot(x.id)] = Succeeded(x.id)
  /\ offers[x.offer].status = "ACCEPTED"
  /\ Owner[ListingOf(x.id)] = cmd[x.id].actor
  /\ FinancialsAgree(x.id)
  /\ TermsAcceptable(x.id)
  /\ began[x.id] < Terms[x.offer].expires
  /\ DemandOf(x.id) # None =>
       /\ x.offer \in Wanted[DemandOf(x.id)].fits
       /\ Wanted[DemandOf(x.id)].from <= began[x.id]
       /\ began[x.id] <= Wanted[DemandOf(x.id)].until

OrdersSound == \A x \in orders : OrderSound(x)

OneOrderPerOffer ==
  /\ \A o \in Offers : offers[o].status = "ACCEPTED" => \E x \in orders : x.offer = o
  /\ \A x, y \in orders : x.offer = y.offer => x = y

ReceiptsSound == \A s \in Slots :
  receipts[s] = NoReceipt \/ \E x \in orders : s = Slot(x.id) /\ receipts[s] = Succeeded(x.id)

NeverReserved == \A l \in Listings : listings[l].status # "RESERVED"

IInv ==
  /\ TypeInv /\ LocksHeld /\ Checked
  /\ OrdersSound /\ OneOrderPerOffer /\ ReceiptsSound
  /\ StatusTellsQuantity /\ NeverReserved

-----------------------------------------------------------------------------
(***************************************************************************)
(* Checks stay true.                                                       *)
(***************************************************************************)

\* What depends on the request alone stays while the call keeps its request.
LEMMA SameRequest ==
  ASSUME NEW u \in Calls, cmd'[u] = cmd[u], began'[u] = began[u]
  PROVE  /\ Slot(u)' = Slot(u)
         /\ OfferOf(u)' = OfferOf(u)
         /\ ListingOf(u)' = ListingOf(u)
         /\ DemandOf(u)' = DemandOf(u)
         /\ Qty(u)' = Qty(u)
         /\ TermsAcceptable(u)' = TermsAcceptable(u)
         /\ FinancialsAgree(u)' = FinancialsAgree(u)
         /\ NewOrder(u)' = NewOrder(u)
         /\ Succeeded(u)' = Succeeded(u)
BY DEF Slot, OfferOf, ListingOf, DemandOf, Qty, TermsAcceptable, FinancialsAgree, NewOrder,
       Succeeded, Fingerprint

\* A check is about one row: while that row and the request stay the same, so
\* does its outcome.
LEMMA SameOutcome ==
  ASSUME NEW u \in Calls, cmd'[u] = cmd[u], began'[u] = began[u]
  PROVE  /\ offers'[OfferOf(u)] = offers[OfferOf(u)] =>
              OfferAcceptable(u)' = OfferAcceptable(u)
         /\ listings'[ListingOf(u)] = listings[ListingOf(u)] =>
              ListingAcceptable(u)' = ListingAcceptable(u)
         /\ demands'[DemandOf(u)] = demands[DemandOf(u)] =>
              DemandAcceptable(u)' = DemandAcceptable(u)
BY SameRequest DEF OfferAcceptable, ListingAcceptable, DemandAcceptable

\* A call that only reads and locks leaves every check as true as it was.
LEMMA CheckedReading ==
  ASSUME TypeInv, LocksHeld, Checked, ReceiptsSound,
         NEW t \in Calls, KindOfStep(t), ~ Sells(t)
  PROVE  Checked'
<1>1. UNCHANGED rows
  BY DEF KindOfStep, Begin, Pass, Repeat, Replay, Undo, Rollback, TakeMarker, TakeOffer,
         TakeListing, TakeDemand
<1>2. SUFFICES ASSUME NEW u \in Calls
               PROVE  /\ pc'[u] \in PastOffer => OfferAcceptable(u)'
                      /\ pc'[u] \in PastListing => ListingAcceptable(u)'
                      /\ pc'[u] \in {"lockDemand", "settle"} => TermsAcceptable(u)'
                      /\ pc'[u] = "lockDemand" => DemandOf(u)' # None
                      /\ pc'[u] = "settle" /\ DemandOf(u)' # None => DemandAcceptable(u)'
                      /\ pc'[u] \in InBody => receipts'[Slot(u)'] = NoReceipt
  BY DEF Checked, CheckedOffer, CheckedListing, CheckedTerms, CheckedDemand, CheckedKey
<1>3. ASSUME cmd'[u] = cmd[u], began'[u] = began[u]
      PROVE  /\ OfferAcceptable(u)' = OfferAcceptable(u)
             /\ ListingAcceptable(u)' = ListingAcceptable(u)
             /\ TermsAcceptable(u)' = TermsAcceptable(u)
             /\ DemandAcceptable(u)' = DemandAcceptable(u)
             /\ DemandOf(u)' = DemandOf(u)
             /\ receipts'[Slot(u)'] = receipts[Slot(u)]
  BY <1>1, <1>3, SameOutcome, SameRequest DEF rows
<1>4. CASE u # t
  BY <1>3, <1>4, OthersStay
     DEF Checked, CheckedOffer, CheckedListing, CheckedTerms, CheckedDemand, CheckedKey
<1>5. CASE u = t
  <2>1. CASE Begin(t) \/ Repeat(t) \/ Undo(t)
    <3>1. pc'[t] \in {"lookup", "done", "refused", "aborted"}
      BY <2>1 DEF Begin, Repeat, Replay, Undo, Rollback, Goto, TypeInv, TypeOK
    <3>2. QED
      BY <1>5, <3>1 DEF PastOffer, PastListing, InBody
  <2>2. CASE Pass(t)
    <3>1. CASE pc[t] = "checkTerms"
      <4>1. /\ pc'[t] = IF DemandOf(t) = None THEN "settle" ELSE "lockDemand"
            /\ TermsAcceptable(t)
            /\ cmd' = cmd /\ began' = began
        BY <2>2, <3>1 DEF Pass, At, Goto, TypeInv, TypeOK
      <4>2. /\ OfferAcceptable(t) /\ ListingAcceptable(t)
            /\ receipts[Slot(t)] = NoReceipt
        BY <3>1 DEF Checked, CheckedOffer, CheckedListing, CheckedKey, PastOffer,
                    PastListing, InBody
      <4>3. QED
        BY <1>3, <1>5, <4>1, <4>2
    <3>2. CASE pc[t] # "checkTerms"
      BY <1>5, <2>2, <3>2 DEF Pass, At, Goto, TypeInv, TypeOK, PastOffer, PastListing, InBody
    <3>3. QED
      BY <3>1, <3>2
  <2>3. CASE TakeMarker(t)
    <3>1. pc'[t] = "lockOffer" /\ cmd' = cmd /\ began' = began
      BY <2>3 DEF TakeMarker, Goto, TypeInv, TypeOK
    <3>2. receipts[Slot(t)] = NoReceipt
      <4>1. Slot(t) \in Slots
        BY <2>3, RequestTypes
           DEF TakeMarker, At, TypeInv, KnowsRequest, Running, Statement
      <4>2. receipts[Slot(t)] = NoReceipt \/ receipts[Slot(t)].status = "SUCCEEDED"
        <5>1. \A x : Succeeded(x).status = "SUCCEEDED"
          BY DEF Succeeded
        <5>2. QED
          BY <4>1, <5>1 DEF ReceiptsSound
      <4>3. receipts[Slot(t)].status # "SUCCEEDED"
        BY <2>3 DEF TakeMarker, IsFresh
      <4>4. QED
        BY <4>2, <4>3
    <3>3. QED
      BY <1>3, <1>5, <3>1, <3>2 DEF PastOffer, PastListing
  <2>4. CASE TakeOffer(t)
    <3>1. /\ pc[t] = "lockOffer" /\ pc'[t] = "lockListing" /\ cmd' = cmd /\ began' = began
          /\ OfferAcceptable(t)
      BY <2>4 DEF TakeOffer, At, Goto, TypeInv, TypeOK
    <3>2. receipts[Slot(t)] = NoReceipt
      BY <3>1 DEF Checked, CheckedKey, InBody
    <3>3. QED
      BY <1>3, <1>5, <3>1, <3>2 DEF PastListing
  <2>5. CASE TakeListing(t)
    <3>1. /\ pc[t] = "lockListing" /\ pc'[t] = "checkTerms" /\ cmd' = cmd /\ began' = began
          /\ ListingAcceptable(t)
      BY <2>5 DEF TakeListing, At, Goto, TypeInv, TypeOK
    <3>2. OfferAcceptable(t) /\ receipts[Slot(t)] = NoReceipt
      BY <3>1 DEF Checked, CheckedOffer, CheckedKey, PastOffer, InBody
    <3>3. QED
      BY <1>3, <1>5, <3>1, <3>2
  <2>6. CASE TakeDemand(t)
    <3>1. /\ pc[t] = "lockDemand" /\ pc'[t] = "settle" /\ cmd' = cmd /\ began' = began
          /\ DemandAcceptable(t)
      BY <2>6 DEF TakeDemand, At, Goto, TypeInv, TypeOK
    <3>2. /\ OfferAcceptable(t) /\ ListingAcceptable(t) /\ TermsAcceptable(t)
          /\ receipts[Slot(t)] = NoReceipt
      BY <3>1 DEF Checked, CheckedOffer, CheckedListing, CheckedTerms, CheckedKey,
                  PastOffer, PastListing, InBody
    <3>3. QED
      BY <1>3, <1>5, <3>1, <3>2
  <2>7. QED
    BY <2>1, <2>2, <2>3, <2>4, <2>5, <2>6 DEF KindOfStep
<1>6. QED
  BY <1>4, <1>5

\* Two calls never hold the lock of one row, so a sale writes no row that
\* another call has checked.
LEMMA SaleDisturbsNobody ==
  ASSUME TypeInv, LocksHeld, Checked, NEW t \in Calls, Sells(t), NEW u \in Calls, u # t
  PROVE  /\ pc[u] \in InBody => receipts'[Slot(u)] = receipts[Slot(u)]
         /\ pc[u] \in PastOffer => offers'[OfferOf(u)] = offers[OfferOf(u)]
         /\ pc[u] \in PastListing => listings'[ListingOf(u)] = listings[ListingOf(u)]
         /\ pc[u] = "settle" /\ DemandOf(u) # None =>
              demands'[DemandOf(u)] = demands[DemandOf(u)]
<1>1. pc[t] = "settle" /\ Commit(t) /\ pc[t] \in InBody /\ pc[t] \in PastOffer
      /\ pc[t] \in PastListing
  BY DEF Sells, At, InBody, PastOffer, PastListing
<1>2. /\ Slot(t) \in Slots /\ OfferOf(t) \in Offers /\ ListingOf(t) \in Listings
      /\ DemandOf(t) \in Demands \union {None}
  BY <1>1, RequestTypes DEF TypeInv, KnowsRequest, Running, Statement
<1>3. pc[u] \in InBody =>
        /\ Slot(u) \in Slots /\ OfferOf(u) \in Offers /\ ListingOf(u) \in Listings
        /\ DemandOf(u) \in Demands \union {None}
  BY RequestTypes DEF TypeInv, KnowsRequest, Running, Statement, InBody
<1>4. pc[u] \in InBody => Slot(u) # Slot(t)
  BY <1>1, <1>2, <1>3 DEF LocksHeld, MarkersHeld
<1>5. pc[u] \in PastOffer => pc[u] \in InBody /\ OfferOf(u) # OfferOf(t)
  BY <1>1, <1>2, <1>3 DEF LocksHeld, OffersHeld, PastOffer, InBody
<1>6. pc[u] \in PastListing => pc[u] \in InBody /\ ListingOf(u) # ListingOf(t)
  BY <1>1, <1>2, <1>3 DEF LocksHeld, ListingsHeld, PastListing, InBody
<1>7. pc[u] = "settle" /\ DemandOf(u) # None =>
        DemandOf(u) \in Demands /\ DemandOf(u) # DemandOf(t)
  BY <1>1, <1>2, <1>3 DEF LocksHeld, DemandsHeld, InBody
<1>8. pc[u] \in InBody => receipts'[Slot(u)] = receipts[Slot(u)]
  BY <1>1, <1>3, <1>4 DEF Commit, TypeInv, TypeOK
<1>9. pc[u] \in PastOffer => offers'[OfferOf(u)] = offers[OfferOf(u)]
  BY <1>1, <1>3, <1>5 DEF Commit, TypeInv, TypeOK
<1>10. pc[u] \in PastListing => listings'[ListingOf(u)] = listings[ListingOf(u)]
  BY <1>1, <1>3, <1>6 DEF Commit, TypeInv, TypeOK
<1>11. pc[u] = "settle" /\ DemandOf(u) # None =>
         demands'[DemandOf(u)] = demands[DemandOf(u)]
  BY <1>1, <1>7 DEF Commit, TypeInv, TypeOK
<1>12. QED
  BY <1>8, <1>9, <1>10, <1>11

\* A sale invalidates no check that another call has made.
LEMMA CheckedSale ==
  ASSUME TypeInv, LocksHeld, Checked, NEW t \in Calls, Sells(t)
  PROVE  Checked'
<1>1. pc'[t] = "done"
  BY DEF Sells, Commit, Goto, TypeInv, TypeOK
<1>2. SUFFICES ASSUME NEW u \in Calls, u # t
               PROVE  /\ pc'[u] \in PastOffer => OfferAcceptable(u)'
                      /\ pc'[u] \in PastListing => ListingAcceptable(u)'
                      /\ pc'[u] \in {"lockDemand", "settle"} => TermsAcceptable(u)'
                      /\ pc'[u] = "lockDemand" => DemandOf(u)' # None
                      /\ pc'[u] = "settle" /\ DemandOf(u)' # None => DemandAcceptable(u)'
                      /\ pc'[u] \in InBody => receipts'[Slot(u)'] = NoReceipt
  BY <1>1 DEF Checked, CheckedOffer, CheckedListing, CheckedTerms, CheckedDemand, CheckedKey,
              PastOffer, PastListing, InBody
<1>3. pc'[u] = pc[u] /\ cmd'[u] = cmd[u] /\ began'[u] = began[u]
  <2>1. KindOfStep(t)
    BY DEF KindOfStep
  <2>2. QED
    BY <1>2, <2>1, OthersStay
<1>4. /\ pc[u] \in PastOffer => OfferAcceptable(u)'
      /\ pc[u] \in PastListing => ListingAcceptable(u)'
  BY <1>2, <1>3, SaleDisturbsNobody, SameOutcome DEF Checked, CheckedOffer, CheckedListing
<1>5. /\ pc[u] \in {"lockDemand", "settle"} => TermsAcceptable(u)'
      /\ pc[u] = "lockDemand" => DemandOf(u)' # None
      /\ pc[u] = "settle" /\ DemandOf(u)' # None => DemandAcceptable(u)'
  BY <1>2, <1>3, SaleDisturbsNobody, SameRequest, SameOutcome
     DEF Checked, CheckedTerms, CheckedDemand
<1>6. pc[u] \in InBody => receipts'[Slot(u)'] = NoReceipt
  BY <1>2, <1>3, SaleDisturbsNobody, SameRequest DEF Checked, CheckedKey
<1>7. QED
  BY <1>3, <1>4, <1>5, <1>6

\* The other commands wait for the row's lock, or find no pending offer yet.
LEMMA CheckedOtherStep ==
  ASSUME TypeInv, LocksHeld, Checked, OtherCommand \/ Tick \/ UNCHANGED vars
  PROVE  Checked'
<1>1. UNCHANGED <<locks, calls, orders, receipts>>
  BY OtherStepsKeepCalls
<1>2. SUFFICES ASSUME NEW u \in Calls
               PROVE  /\ pc[u] \in PastOffer => OfferAcceptable(u)'
                      /\ pc[u] \in PastListing => ListingAcceptable(u)'
                      /\ pc[u] = "settle" /\ DemandOf(u) # None => DemandAcceptable(u)'
  BY <1>1, SameRequest
     DEF Checked, CheckedOffer, CheckedListing, CheckedTerms, CheckedDemand, CheckedKey, calls
<1>3. pc[u] \in InBody =>
        /\ OfferOf(u) \in Offers /\ ListingOf(u) \in Listings
        /\ DemandOf(u) \in Demands \union {None}
  BY RequestTypes DEF TypeInv, KnowsRequest, Running, Statement, InBody
<1>4. /\ pc[u] \in PastOffer => offerLock[OfferOf(u)] = u /\ OfferAcceptable(u)
      /\ pc[u] \in PastListing => listingLock[ListingOf(u)] = u /\ ListingAcceptable(u)
      /\ pc[u] = "settle" /\ DemandOf(u) # None =>
           demandLock[DemandOf(u)] = u /\ DemandAcceptable(u)
  BY <1>3 DEF LocksHeld, OffersHeld, ListingsHeld, DemandsHeld, Checked, CheckedOffer,
              CheckedListing, CheckedDemand, PastOffer, PastListing, InBody
<1>5. /\ pc[u] \in PastOffer => offers'[OfferOf(u)] = offers[OfferOf(u)]
      /\ pc[u] \in PastListing => listings'[ListingOf(u)] = listings[ListingOf(u)]
      /\ pc[u] = "settle" /\ DemandOf(u) # None =>
           demands'[DemandOf(u)] = demands[DemandOf(u)]
  <2>1. ASSUME NEW o \in Offers, CreateOffer(o) \/ WithdrawOffer(o) \/ RejectOffer(o)
        PROVE  /\ pc[u] \in PastOffer => o # OfferOf(u)
               /\ \A r \in Offers : r # o => offers'[r] = offers[r]
               /\ UNCHANGED <<listings, demands>>
    BY <1>4, <2>1, NoneIsNoRow
       DEF CreateOffer, WithdrawOffer, RejectOffer, OfferCommand, OfferAcceptable, TypeInv,
           TypeOK
  <2>2. ASSUME NEW l \in Listings, PublishListing(l) \/ CancelListing(l)
        PROVE  /\ pc[u] \in PastListing => l # ListingOf(u)
               /\ \A r \in Listings : r # l => listings'[r] = listings[r]
               /\ UNCHANGED <<offers, demands>>
    BY <1>4, <2>2, NoneIsNoRow
       DEF PublishListing, CancelListing, SetListingStatus, TypeInv, TypeOK
  <2>3. ASSUME NEW d \in Demands, PublishDemand(d) \/ CancelDemand(d)
        PROVE  /\ pc[u] = "settle" /\ DemandOf(u) # None => d # DemandOf(u)
               /\ \A r \in Demands : r # d => demands'[r] = demands[r]
               /\ UNCHANGED <<offers, listings>>
    BY <1>4, <2>3, NoneIsNoRow
       DEF PublishDemand, CancelDemand, SetDemandStatus, TypeInv, TypeOK
  <2>4. CASE OtherCommand
    BY <1>3, <2>1, <2>2, <2>3, <2>4 DEF OtherCommand, PastOffer, PastListing, InBody
  <2>5. CASE Tick \/ UNCHANGED vars
    BY <2>5 DEF Tick, vars, rows
  <2>6. QED
    BY <2>4, <2>5
<1>6. QED
  BY <1>1, <1>4, <1>5, SameOutcome DEF calls

-----------------------------------------------------------------------------
(***************************************************************************)
(* Orders, receipts and accepted offers belong together.                   *)
(***************************************************************************)

Ledger == OrdersSound /\ OneOrderPerOffer /\ ReceiptsSound

\* An order's soundness outlives any step that keeps its call, its receipt and
\* the status of its offer.
LEMMA OrderStaysSound ==
  ASSUME NEW x \in orders, OrderSound(x), x.id \in Calls,
         pc'[x.id] = pc[x.id], cmd'[x.id] = cmd[x.id], began'[x.id] = began[x.id],
         receipts'[Slot(x.id)] = receipts[Slot(x.id)],
         offers'[x.offer].status = offers[x.offer].status
  PROVE  OrderSound(x)'
BY SameRequest DEF OrderSound

\* Orders and receipts keep matching while nothing is written.
LEMMA LedgerReading ==
  ASSUME TypeInv, Ledger, NEW t \in Calls, KindOfStep(t), ~ Sells(t)
  PROVE  Ledger'
<1>1. UNCHANGED rows
  BY DEF KindOfStep, Begin, Pass, Repeat, Replay, Undo, Rollback, TakeMarker, TakeOffer,
         TakeListing, TakeDemand
<1>2. pc[t] # "done"
  BY DEF KindOfStep, Begin, Pass, Repeat, Undo, TakeMarker, TakeOffer, TakeListing,
         TakeDemand, At, Statement
<1>3. \A x \in orders :
        /\ x.id \in Calls
        /\ pc'[x.id] = pc[x.id] /\ cmd'[x.id] = cmd[x.id] /\ began'[x.id] = began[x.id]
  <2>1. SUFFICES ASSUME NEW x \in orders
                 PROVE  /\ x.id \in Calls
                        /\ pc'[x.id] = pc[x.id] /\ cmd'[x.id] = cmd[x.id]
                        /\ began'[x.id] = began[x.id]
    OBVIOUS
  <2>2. x.id \in Calls /\ x.id # t
    BY <1>2 DEF TypeInv, TypeOK, OrderRow, Ledger, OrdersSound, OrderSound
  <2>3. QED
    BY <2>2, OthersStay
<1>4. OrdersSound'
  BY <1>1, <1>3, OrderStaysSound DEF Ledger, OrdersSound, rows
<1>5. OneOrderPerOffer'
  BY <1>1 DEF Ledger, OneOrderPerOffer, rows
<1>6. ReceiptsSound'
  BY <1>1, <1>3, SameRequest DEF Ledger, ReceiptsSound, rows
<1>7. QED
  BY <1>4, <1>5, <1>6 DEF Ledger

\* A sale writes one order and its one receipt, and its offer had none before.
LEMMA LedgerSale ==
  ASSUME TypeInv, Checked, Ledger, NEW t \in Calls, Sells(t)
  PROVE  Ledger'
<1>1. /\ pc[t] = "settle" /\ Commit(t) /\ FinancialsAgree(t)
      /\ pc'[t] = "done" /\ cmd' = cmd /\ began' = began
      /\ cmd[t] \in Commands
  BY DEF Sells, At, Commit, Goto, TypeInv, TypeOK, KnowsRequest, Running, Statement
<1>2. /\ Slot(t) \in Slots /\ OfferOf(t) \in Offers /\ ListingOf(t) \in Listings
      /\ DemandOf(t) \in Demands \union {None}
  BY <1>1, RequestTypes
<1>3. /\ OfferAcceptable(t) /\ ListingAcceptable(t) /\ TermsAcceptable(t)
      /\ DemandOf(t) # None => DemandAcceptable(t)
      /\ receipts[Slot(t)] = NoReceipt
  BY <1>1 DEF Checked, CheckedOffer, CheckedListing, CheckedTerms, CheckedDemand, CheckedKey,
              PastOffer, PastListing, InBody
<1>4. /\ orders' = orders \union {NewOrder(t)}
      /\ \A o \in Offers : offers'[o] = IF o = OfferOf(t) THEN AcceptedOffer(offers[o])
                                                          ELSE offers[o]
      /\ \A s \in Slots : receipts'[s] = IF s = Slot(t) THEN Succeeded(t) ELSE receipts[s]
  BY <1>1, <1>2 DEF Commit, TypeInv, TypeOK
<1>5. NewOrder(t).id = t /\ NewOrder(t).offer = OfferOf(t)
  BY DEF NewOrder
<1>6. \A x \in orders :
        /\ x.id \in Calls /\ x.offer \in Offers /\ x.id # t /\ x.offer # OfferOf(t)
        /\ Slot(x.id) \in Slots /\ Slot(x.id) # Slot(t)
  <2>1. SUFFICES ASSUME NEW x \in orders
                 PROVE  /\ x.id \in Calls /\ x.offer \in Offers /\ x.id # t
                        /\ x.offer # OfferOf(t) /\ Slot(x.id) \in Slots
                        /\ Slot(x.id) # Slot(t)
    OBVIOUS
  <2>2. x.id \in Calls /\ x.offer \in Offers /\ OrderSound(x)
    BY DEF TypeInv, TypeOK, OrderRow, Ledger, OrdersSound
  <2>3. x.id # t /\ x.offer # OfferOf(t)
    BY <1>1, <1>3, <2>2 DEF OrderSound, OfferAcceptable
  <2>4. Slot(x.id) \in Slots
    BY <2>2, RequestTypes DEF OrderSound, TypeInv, KnowsRequest
  <2>5. Slot(x.id) # Slot(t)
    BY <1>3, <2>2 DEF OrderSound, NoReceipt, Succeeded
  <2>6. QED
    BY <2>2, <2>3, <2>4, <2>5
<1>7. OrderSound(NewOrder(t))'
  <2>1. /\ NewOrder(t)' = NewOrder(t) /\ Succeeded(t)' = Succeeded(t)
        /\ Slot(t)' = Slot(t) /\ ListingOf(t)' = ListingOf(t)
        /\ DemandOf(t)' = DemandOf(t) /\ TermsAcceptable(t)' /\ FinancialsAgree(t)'
    BY <1>1, <1>3, SameRequest
  <2>2. pc'[t] = "done" /\ receipts'[Slot(t)] = Succeeded(t)
    BY <1>1, <1>2, <1>4
  <2>3. offers'[OfferOf(t)].status = "ACCEPTED"
    <3>1. offers'[OfferOf(t)] = AcceptedOffer(offers[OfferOf(t)])
      BY <1>2, <1>4
    <3>2. QED
      BY <3>1 DEF AcceptedOffer
  <2>4. Owner[ListingOf(t)] = cmd'[t].actor
    BY <1>1, <1>3 DEF ListingAcceptable
  <2>5. began'[t] < Terms[OfferOf(t)].expires
    BY <1>1, <1>3 DEF OfferAcceptable
  <2>6. DemandOf(t) # None =>
          /\ OfferOf(t) \in Wanted[DemandOf(t)].fits
          /\ Wanted[DemandOf(t)].from <= began'[t]
          /\ began'[t] <= Wanted[DemandOf(t)].until
    BY <1>1, <1>3 DEF DemandAcceptable
  <2>7. QED
    BY <1>5, <2>1, <2>2, <2>3, <2>4, <2>5, <2>6 DEF OrderSound
<1>8. OrdersSound'
  <2>1. \A x \in orders : OrderSound(x)'
    BY <1>1, <1>4, <1>6, OrderStaysSound, OthersStay
       DEF Ledger, OrdersSound, KindOfStep, Commit, Goto, TypeInv, TypeOK
  <2>2. NewOrder(t)' = NewOrder(t)
    BY <1>1, SameRequest
  <2>3. QED
    BY <1>4, <1>7, <2>1, <2>2 DEF OrdersSound
<1>9. OneOrderPerOffer'
  BY <1>4, <1>5, <1>6 DEF Ledger, OneOrderPerOffer
<1>10. ReceiptsSound'
  BY <1>1, <1>4, <1>5, <1>6, SameRequest DEF Ledger, ReceiptsSound
<1>11. QED
  BY <1>8, <1>9, <1>10 DEF Ledger

\* No other command writes an order or a receipt or moves a decided offer.
LEMMA LedgerOtherStep ==
  ASSUME TypeInv, Ledger, OtherCommand \/ Tick \/ UNCHANGED vars
  PROVE  Ledger'
<1>1. UNCHANGED <<locks, calls, orders, receipts>>
  BY OtherStepsKeepCalls
<1>2. \A o \in Offers :
        /\ offers'[o].status = "ACCEPTED" <=> offers[o].status = "ACCEPTED"
  <2>1. CASE OtherCommand
    BY <2>1 DEF OtherCommand, CreateOffer, WithdrawOffer, RejectOffer, OfferCommand,
                PublishListing, CancelListing, SetListingStatus,
                PublishDemand, CancelDemand, SetDemandStatus, TypeInv, TypeOK
  <2>2. CASE Tick \/ UNCHANGED vars
    BY <2>2 DEF Tick, vars, rows
  <2>3. QED
    BY <2>1, <2>2
<1>3. \A x \in orders : x.id \in Calls /\ x.offer \in Offers
  BY DEF TypeInv, TypeOK, OrderRow
<1>4. OrdersSound'
  BY <1>1, <1>2, <1>3, SameRequest DEF Ledger, OrdersSound, OrderSound, calls
<1>5. OneOrderPerOffer'
  BY <1>1, <1>2 DEF Ledger, OneOrderPerOffer
<1>6. ReceiptsSound'
  BY <1>1, <1>3, SameRequest DEF Ledger, ReceiptsSound, calls
<1>7. QED
  BY <1>4, <1>5, <1>6 DEF Ledger

-----------------------------------------------------------------------------
(***************************************************************************)
(* Statuses tell quantities.                                               *)
(***************************************************************************)

ListingSound(row, stock) ==
  /\ row.status = "SOLD" <=> row.available = 0
  /\ row.status = "DRAFT" => row.available = stock
  /\ row.status # "RESERVED"

DemandSound(row, max) ==
  /\ row.status \in {"DRAFT", "ACTIVE"} => row.fulfilled = 0
  /\ row.status = "PARTIALLY_FILLED" => 0 < row.fulfilled /\ row.fulfilled < max
  /\ row.status = "FULFILLED" <=> row.fulfilled = max

StatusInv == StatusTellsQuantity /\ NeverReserved

\* The statuses are a matter of each row by itself.
LEMMA StatusByRow ==
  StatusInv <=> /\ \A l \in Listings : ListingSound(listings[l], Stock[l])
                /\ \A d \in Demands : DemandSound(demands[d], Wanted[d].max)
BY DEF StatusInv, StatusTellsQuantity, NeverReserved, ListingSound, DemandSound

\* A demand asks for something, so an empty one is not full.
LEMMA MaxIsPositive == \A d \in Demands : Wanted[d].max \in Nat /\ Wanted[d].max > 0
<1>1. \A d \in Demands : Wanted[d] \in DemandTerms
  BY ConstantTypes
<1>2. QED
  BY <1>1 DEF DemandTerms

\* Drafts are full listings and empty demands.
LEMMA StatusInit == Init => StatusInv
<1> SUFFICES ASSUME Init PROVE StatusInv
  OBVIOUS
<1>1. \A l \in Listings : ListingSound(listings[l], Stock[l])
  BY ConstantTypes DEF Init, ListingSound
<1>2. \A d \in Demands : DemandSound(demands[d], Wanted[d].max)
  BY MaxIsPositive DEF Init, DemandSound
<1>3. QED
  BY <1>1, <1>2, StatusByRow

\* Drawing an open listing down leaves a sound one.
LEMMA DrawingIsSound ==
  ASSUME NEW row \in ListingRow, NEW stock \in Nat, NEW qty \in Nat, qty > 0,
         row.available >= qty
  PROVE  ListingSound(DrawnListing(row, qty), stock)
<1>1. row.available \in Nat
  BY DEF ListingRow
<1>2. QED
  BY <1>1 DEF ListingSound, DrawnListing

\* Filling a demand within its maximum leaves a sound one.
LEMMA FillingIsSound ==
  ASSUME NEW row \in DemandRow, NEW max \in Nat, NEW qty \in Nat, qty > 0,
         qty <= max - row.fulfilled
  PROVE  DemandSound(FilledDemand(row, qty, max), max)
<1>1. row.fulfilled \in Nat
  BY DEF DemandRow
<1>2. QED
  BY <1>1 DEF DemandSound, FilledDemand

\* A step of accept_offer keeps statuses and quantities together.
LEMMA StatusCallStep ==
  ASSUME TypeInv, Checked, StatusInv, NEW t \in Calls, KindOfStep(t)
  PROVE  StatusInv'
<1>1. CASE ~ Sells(t)
  <2>1. UNCHANGED <<listings, demands>>
    BY <1>1 DEF KindOfStep, Begin, Pass, Repeat, Replay, Undo, Rollback, TakeMarker,
                TakeOffer, TakeListing, TakeDemand, rows
  <2>2. QED
    BY <2>1 DEF StatusInv, StatusTellsQuantity, NeverReserved
<1>2. CASE Sells(t)
  <2>1. /\ pc[t] = "settle" /\ Commit(t) /\ cmd[t] \in Commands
    BY <1>2 DEF Sells, At, TypeInv, KnowsRequest, Running, Statement
  <2>2. /\ ListingOf(t) \in Listings /\ DemandOf(t) \in Demands \union {None}
        /\ Qty(t) \in Nat /\ Qty(t) > 0
    BY <2>1, RequestTypes
  <2>3. ListingAcceptable(t) /\ (DemandOf(t) # None => DemandAcceptable(t))
    BY <2>1 DEF Checked, CheckedListing, CheckedDemand, PastListing
  <2>4. \A l \in Listings : ListingSound(listings'[l], Stock[l])
    <3>1. ListingSound(DrawnListing(listings[ListingOf(t)], Qty(t)), Stock[ListingOf(t)])
      <4>1. /\ listings[ListingOf(t)] \in ListingRow /\ Stock[ListingOf(t)] \in Nat
            /\ listings[ListingOf(t)].available >= Qty(t)
        BY <2>2, <2>3, ConstantTypes DEF ListingAcceptable, TypeInv, TypeOK
      <4>2. QED
        BY <2>2, <4>1, DrawingIsSound
    <3>2. \A l \in Listings : listings'[l] = IF l = ListingOf(t)
                                             THEN DrawnListing(listings[l], Qty(t))
                                             ELSE listings[l]
      BY <2>1, <2>2 DEF Commit, TypeInv, TypeOK
    <3>3. QED
      BY <3>1, <3>2, StatusByRow
  <2>5. \A d \in Demands : DemandSound(demands'[d], Wanted[d].max)
    <3>1. CASE DemandOf(t) = None
      BY <2>1, <3>1, StatusByRow DEF Commit
    <3>2. CASE DemandOf(t) # None
      <4>1. DemandSound(FilledDemand(demands[DemandOf(t)], Qty(t), Wanted[DemandOf(t)].max),
                        Wanted[DemandOf(t)].max)
        <5>1. /\ demands[DemandOf(t)] \in DemandRow /\ Wanted[DemandOf(t)].max \in Nat
              /\ Qty(t) <= Wanted[DemandOf(t)].max - demands[DemandOf(t)].fulfilled
          BY <2>2, <2>3, <3>2, MaxIsPositive DEF DemandAcceptable, TypeInv, TypeOK
        <5>2. QED
          BY <2>2, <5>1, FillingIsSound
      <4>2. \A d \in Demands : demands'[d] = IF d = DemandOf(t)
                                             THEN FilledDemand(demands[d], Qty(t), Wanted[d].max)
                                             ELSE demands[d]
        BY <2>1, <2>2, <3>2 DEF Commit, TypeInv, TypeOK
      <4>3. QED
        BY <4>1, <4>2, StatusByRow
    <3>3. QED
      BY <3>1, <3>2
  <2>6. QED
    BY <2>4, <2>5 DEF StatusInv, StatusTellsQuantity, NeverReserved, ListingSound, DemandSound
<1>3. QED
  BY <1>1, <1>2

\* Publishing opens a full listing and an empty demand; cancelling one that is
\* still open leaves its quantity where it is.
LEMMA StatusOtherStep ==
  ASSUME TypeInv, StatusInv, OtherCommand \/ Tick \/ UNCHANGED vars
  PROVE  StatusInv'
<1>1. ASSUME NEW l \in Listings, PublishListing(l) \/ CancelListing(l)
      PROVE  StatusInv'
  <2>1. /\ \A k \in Listings : k # l => listings'[k] = listings[k]
        /\ listings'[l].available = listings[l].available
        /\ demands' = demands
    BY <1>1 DEF PublishListing, CancelListing, SetListingStatus, TypeInv, TypeOK
  <2>2. \/ listings[l].status = "DRAFT" /\ listings'[l].status \in {"ACTIVE", "CANCELLED"}
        \/ listings[l].status = "ACTIVE" /\ listings'[l].status = "CANCELLED"
    BY <1>1 DEF PublishListing, CancelListing, SetListingStatus, TypeInv, TypeOK
  <2>3. ListingSound(listings'[l], Stock[l])
    BY <2>1, <2>2, StatusByRow DEF ListingSound
  <2>4. QED
    BY <2>1, <2>3 DEF StatusInv, StatusTellsQuantity, NeverReserved, ListingSound
<1>2. ASSUME NEW d \in Demands, PublishDemand(d) \/ CancelDemand(d)
      PROVE  StatusInv'
  <2>1. /\ \A k \in Demands : k # d => demands'[k] = demands[k]
        /\ demands'[d].fulfilled = demands[d].fulfilled
        /\ listings' = listings
    BY <1>2 DEF PublishDemand, CancelDemand, SetDemandStatus, TypeInv, TypeOK
  <2>2. \/ demands[d].status = "DRAFT" /\ demands'[d].status \in {"ACTIVE", "CANCELLED"}
        \/ /\ demands[d].status \in {"ACTIVE", "PARTIALLY_FILLED"}
           /\ demands'[d].status = "CANCELLED"
    BY <1>2 DEF PublishDemand, CancelDemand, SetDemandStatus, TypeInv, TypeOK
  <2>3. DemandSound(demands'[d], Wanted[d].max)
    BY <2>1, <2>2, StatusByRow DEF DemandSound
  <2>4. QED
    BY <2>1, <2>3 DEF StatusInv, StatusTellsQuantity, NeverReserved, DemandSound
<1>3. ASSUME UNCHANGED <<listings, demands>>
      PROVE  StatusInv'
  BY <1>3 DEF StatusInv, StatusTellsQuantity, NeverReserved
<1>4. ASSUME NEW o \in Offers, CreateOffer(o) \/ WithdrawOffer(o) \/ RejectOffer(o)
      PROVE  StatusInv'
  BY <1>3, <1>4 DEF CreateOffer, WithdrawOffer, RejectOffer, OfferCommand
<1>5. CASE Tick \/ UNCHANGED vars
  BY <1>3, <1>5 DEF Tick, vars, rows
<1>6. QED
  BY <1>1, <1>2, <1>4, <1>5 DEF OtherCommand

-----------------------------------------------------------------------------
(***************************************************************************)
(* The inductive invariant and what follows from it.                       *)
(***************************************************************************)

\* The inductive invariant holds at first.
LEMMA IInvInit == Init => IInv
<1> SUFFICES ASSUME Init PROVE IInv
  OBVIOUS
<1>1. Checked
  BY DEF Init, Checked, CheckedOffer, CheckedListing, CheckedTerms, CheckedDemand, CheckedKey,
         PastOffer, PastListing, InBody
<1>2. OrdersSound /\ OneOrderPerOffer /\ ReceiptsSound
  BY DEF Init, OrdersSound, OneOrderPerOffer, ReceiptsSound
<1>3. QED
  BY <1>1, <1>2, TypeInit, LocksInit, StatusInit DEF IInv, StatusInv

\* Every step preserves the inductive invariant.
LEMMA IInvStep == IInv /\ [Next]_vars => IInv'
<1> SUFFICES ASSUME IInv, [Next]_vars PROVE IInv'
  OBVIOUS
<1> USE DEF IInv, Ledger, StatusInv
<1>1. ASSUME NEW t \in Calls, CallStep(t)
      PROVE  IInv'
  <2>1. KindOfStep(t)
    BY <1>1, StepKinds
  <2>2. TypeInv' /\ LocksHeld'
    BY <2>1, TypeCallStep, LocksCallStep
  <2>3. Checked'
    BY <2>1, CheckedReading, CheckedSale
  <2>4. Ledger'
    BY <2>1, LedgerReading, LedgerSale
  <2>5. StatusInv'
    BY <2>1, StatusCallStep
  <2>6. QED
    BY <2>2, <2>3, <2>4, <2>5
<1>2. CASE OtherCommand \/ Tick \/ UNCHANGED vars
  BY <1>2, TypeOtherStep, LocksOtherStep, CheckedOtherStep, LedgerOtherStep, StatusOtherStep
<1>3. QED
  BY <1>1, <1>2 DEF Next

\* The inductive invariant always holds.
LEMMA Invariance == Spec => []IInv
BY IInvInit, IInvStep, PTL DEF Spec

\* An offer is accepted when, and only when, exactly one order carries it:
\* concurrent and repeated accepts of any number never sell an offer twice.
THEOREM OneOrderPerAcceptedOffer == Spec => []AcceptedIffOneOrder
<1>1. IInv => AcceptedIffOneOrder
  <2> SUFFICES ASSUME IInv PROVE AcceptedIffOneOrder
    OBVIOUS
  <2>1. \A x \in orders : offers[x.offer].status = "ACCEPTED"
    BY DEF IInv, OrdersSound, OrderSound
  <2>2. QED
    BY <2>1 DEF IInv, OneOrderPerOffer, AcceptedIffOneOrder, OrdersOf
<1>2. QED
  BY <1>1, Invariance, PTL

\* A committed receipt leads to one order of its actor, every order has one
\* receipt, and nothing else is ever left in the table of receipts.
THEOREM ReceiptsLeadToOrders == Spec => []ReceiptsMatchOrders
<1>1. IInv => ReceiptsMatchOrders
  <2> SUFFICES ASSUME IInv PROVE ReceiptsMatchOrders
    OBVIOUS
  <2>1. \A x \in orders :
          /\ Slot(x.id) \in Slots
          /\ receipts[Slot(x.id)] = Succeeded(x.id)
          /\ x.offer = OfferOf(x.id)
          /\ Owner[Terms[x.offer].listing] = Slot(x.id)[1]
    <3>1. SUFFICES ASSUME NEW x \in orders
                   PROVE  /\ Slot(x.id) \in Slots
                          /\ receipts[Slot(x.id)] = Succeeded(x.id)
                          /\ x.offer = OfferOf(x.id)
                          /\ Owner[Terms[x.offer].listing] = Slot(x.id)[1]
      OBVIOUS
    <3>2. x.id \in Calls /\ OrderSound(x)
      BY DEF IInv, TypeInv, TypeOK, OrderRow, OrdersSound
    <3>3. Slot(x.id) \in Slots
      BY <3>2, RequestTypes DEF OrderSound, IInv, TypeInv, KnowsRequest
    <3>4. x.offer = OfferOf(x.id)
      BY <3>2 DEF OrderSound, NewOrder
    <3>5. Owner[Terms[x.offer].listing] = Slot(x.id)[1]
      BY <3>2, <3>4 DEF OrderSound, ListingOf, Slot
    <3>6. QED
      BY <3>2, <3>3, <3>4, <3>5 DEF OrderSound
  <2>2. \A t : /\ Succeeded(t).status = "SUCCEEDED"
               /\ Succeeded(t).order = t
               /\ Succeeded(t).fp[2] = OfferOf(t)
    BY DEF Succeeded, Fingerprint, OfferOf
  <2>3. \A s \in Slots : receipts[s] = NoReceipt \/
          \E x \in orders : s = Slot(x.id) /\ receipts[s] = Succeeded(x.id)
    BY DEF IInv, ReceiptsSound
  <2>4. \A s \in Slots : receipts[s] # NoReceipt =>
          /\ receipts[s].status = "SUCCEEDED"
          /\ \E x \in orders : /\ x.id = receipts[s].order
                               /\ x.offer = receipts[s].fp[2]
                               /\ Owner[Terms[x.offer].listing] = s[1]
    BY <2>1, <2>2, <2>3
  <2>5. ASSUME NEW x \in orders
        PROVE  \E s \in Slots : /\ receipts[s].order = x.id
                                /\ \A r \in Slots : receipts[r].order = x.id => r = s
    <3>1. x.id # None
      BY NoneIsNoRow DEF IInv, TypeInv, TypeOK, OrderRow
    <3>2. receipts[Slot(x.id)].order = x.id
      BY <2>1, <2>2
    <3>3. ASSUME NEW r \in Slots, receipts[r].order = x.id
          PROVE  r = Slot(x.id)
      <4>1. receipts[r] # NoReceipt
        BY <3>1, <3>3 DEF NoReceipt
      <4>2. QED
        BY <2>2, <2>3, <3>3, <4>1
    <3>4. QED
      BY <2>1, <3>2, <3>3
  <2>6. QED
    BY <2>4, <2>5 DEF ReceiptsMatchOrders
<1>2. QED
  BY <1>1, Invariance, PTL

\* Only exact exhaustion makes a listing SOLD, and a demand's status tells how
\* much of it is filled.
THEOREM StatusesTellQuantities == Spec => []StatusTellsQuantity
<1>1. IInv => StatusTellsQuantity
  BY DEF IInv
<1>2. QED
  BY <1>1, Invariance, PTL

\* An order restates what its farmer acknowledged, and nothing it rests on had
\* expired at the time it is stamped with.
THEOREM OrdersAreAcknowledged == Spec => []OrderAsAcknowledged
<1>1. IInv => OrderAsAcknowledged
  <2> SUFFICES ASSUME IInv, NEW x \in orders
               PROVE  LET c == cmd[x.id]
                          o == Terms[x.offer]
                      IN  /\ x.offer = c.offer /\ x.quote = c.quote /\ x.cost = c.cost
                          /\ Quote[x.quote].listing = o.listing
                          /\ Quote[x.quote].demand = o.demand
                          /\ x.acceptedAt < o.expires
                          /\ x.acceptedAt < Quote[x.quote].expires
                          /\ c.rec # None => x.acceptedAt < Rec[c.rec].expires
                          /\ o.demand # None => /\ x.offer \in Wanted[o.demand].fits
                                                /\ Wanted[o.demand].from <= x.acceptedAt
                                                /\ x.acceptedAt <= Wanted[o.demand].until
    BY DEF OrderAsAcknowledged
  <2>1. OrderSound(x)
    BY DEF IInv, OrdersSound
  <2>2. /\ x.offer = cmd[x.id].offer /\ x.quote = cmd[x.id].quote
        /\ x.cost = Quote[cmd[x.id].quote].cost /\ x.acceptedAt = began[x.id]
        /\ OfferOf(x.id) = x.offer
    BY <2>1 DEF OrderSound, NewOrder, OfferOf
  <2>3. QED
    BY <2>1, <2>2 DEF OrderSound, FinancialsAgree, TermsAcceptable, ListingOf, DemandOf
<1>2. QED
  BY <1>1, Invariance, PTL

-----------------------------------------------------------------------------
(***************************************************************************)
(* What no step does.                                                      *)
(***************************************************************************)

\* A step sells only by a call that has reached its end; what it then writes.
LEMMA SaleWrites ==
  ASSUME IInv, NEW t \in Calls, Sells(t)
  PROVE  /\ Slot(t) \in Slots /\ OfferOf(t) \in Offers /\ ListingOf(t) \in Listings
         /\ DemandOf(t) \in Demands \union {None}
         /\ OfferAcceptable(t) /\ ListingAcceptable(t)
         /\ DemandOf(t) # None => DemandAcceptable(t)
         /\ receipts[Slot(t)] = NoReceipt
         /\ orders' = orders \union {NewOrder(t)}
         /\ \A o \in Offers : o # OfferOf(t) => offers'[o] = offers[o]
         /\ \A l \in Listings : l # ListingOf(t) => listings'[l] = listings[l]
         /\ \A d \in Demands : d # DemandOf(t) => demands'[d] = demands[d]
         /\ \A s \in Slots : s # Slot(t) => receipts'[s] = receipts[s]
<1>1. pc[t] = "settle" /\ Commit(t) /\ cmd[t] \in Commands
  BY DEF IInv, Sells, At, TypeInv, KnowsRequest, Running, Statement
<1>2. /\ Slot(t) \in Slots /\ OfferOf(t) \in Offers /\ ListingOf(t) \in Listings
      /\ DemandOf(t) \in Demands \union {None}
  BY <1>1, RequestTypes
<1>3. /\ OfferAcceptable(t) /\ ListingAcceptable(t)
      /\ DemandOf(t) # None => DemandAcceptable(t)
      /\ receipts[Slot(t)] = NoReceipt
  BY <1>1 DEF IInv, Checked, CheckedOffer, CheckedListing, CheckedDemand, CheckedKey,
              PastOffer, PastListing, InBody
<1>4. QED
  BY <1>1, <1>2, <1>3 DEF Commit, IInv, TypeInv, TypeOK

\* All steps of a call but the sale leave the rows as they are.
LEMMA ReadingWritesNothing ==
  ASSUME NEW t \in Calls, KindOfStep(t), ~ Sells(t)
  PROVE  UNCHANGED rows
BY DEF KindOfStep, Begin, Pass, Repeat, Replay, Undo, Rollback, TakeMarker, TakeOffer,
       TakeListing, TakeDemand

\* At the moment an order appears, its offer is pending and its listing and
\* demand are open, in the versions the farmer had seen.
THEOREM SalesAreOfWhatWasSeen == Spec => SellsWhatWasSeen
<1>1. IInv /\ [Next]_vars => [SaleStep]_vars
  <2> SUFFICES ASSUME IInv, Next, NEW x \in orders' \ orders
               PROVE  LET c == cmd[x.id]
                          l == Terms[x.offer].listing
                          d == Terms[x.offer].demand
                      IN  /\ offers[x.offer] = [status |-> "PENDING", version |-> c.offerVersion]
                          /\ listings[l].status = "ACTIVE"
                          /\ listings[l].version = c.listingVersion
                          /\ d # None => demands[d].status \in {"ACTIVE", "PARTIALLY_FILLED"}
    BY DEF SaleStep
  <2>1. PICK t \in Calls : CallStep(t)
    BY OtherStepsKeepCalls DEF Next
  <2>2. Sells(t)
    BY <2>1, StepKinds, ReadingWritesNothing DEF rows
  <2>3. x = NewOrder(t)
    BY <2>2, SaleWrites
  <2>4. x.id = t /\ x.offer = OfferOf(t)
    BY <2>3 DEF NewOrder
  <2>5. offers[OfferOf(t)] = [status |-> "PENDING", version |-> cmd[t].offerVersion]
    <3>1. offers[OfferOf(t)] \in OfferRow
      BY <2>2, SaleWrites DEF IInv, TypeInv, TypeOK
    <3>2. QED
      BY <2>2, <3>1, SaleWrites DEF OfferAcceptable, OfferRow
  <2>6. /\ listings[ListingOf(t)].status = "ACTIVE"
        /\ listings[ListingOf(t)].version = cmd[t].listingVersion
    BY <2>2, SaleWrites DEF ListingAcceptable, IInv, NeverReserved
  <2>7. DemandOf(t) # None => demands[DemandOf(t)].status \in {"ACTIVE", "PARTIALLY_FILLED"}
    BY <2>2, SaleWrites DEF DemandAcceptable
  <2>8. QED
    BY <2>4, <2>5, <2>6, <2>7 DEF ListingOf, DemandOf
<1>2. QED
  BY <1>1, Invariance, PTL DEF Spec, SellsWhatWasSeen

\* Orders, receipts and decisions are for ever.
THEOREM DecisionsStand == Spec => DecisionsAreFinal
<1>1. IInv /\ [Next]_vars => [KeepsStep]_vars
  <2> SUFFICES ASSUME IInv, Next PROVE KeepsStep
    OBVIOUS
  <2>1. ASSUME NEW t \in Calls, Sells(t)
        PROVE  KeepsStep
    <3>1. \A o \in Offers :
            offers[o].status \notin {"ABSENT", "PENDING"} => offers'[o] = offers[o]
      BY <2>1, SaleWrites DEF OfferAcceptable
    <3>2. \A l \in Listings :
            listings[l].status \in {"SOLD", "CANCELLED"} => listings'[l] = listings[l]
      BY <2>1, SaleWrites DEF ListingAcceptable
    <3>3. \A d \in Demands :
            demands[d].status \in {"FULFILLED", "CANCELLED"} => demands'[d] = demands[d]
      BY <2>1, SaleWrites, NoneIsNoRow DEF DemandAcceptable
    <3>4. /\ orders \subseteq orders'
          /\ \A s \in Slots : receipts[s] # NoReceipt => receipts'[s] = receipts[s]
      BY <2>1, SaleWrites
    <3>5. QED
      BY <3>1, <3>2, <3>3, <3>4 DEF KeepsStep
  <2>2. ASSUME UNCHANGED rows
        PROVE  KeepsStep
    BY <2>2 DEF KeepsStep, rows
  <2>3. CASE OtherCommand
    BY <2>3 DEF OtherCommand, CreateOffer, WithdrawOffer, RejectOffer, OfferCommand,
                PublishListing, CancelListing, SetListingStatus, PublishDemand, CancelDemand,
                SetDemandStatus, KeepsStep, IInv, TypeInv, TypeOK
  <2>4. CASE Tick
    BY <2>2, <2>4 DEF Tick
  <2>5. QED
    BY <2>1, <2>2, <2>3, <2>4, StepKinds, ReadingWritesNothing DEF Next
<1>2. QED
  BY <1>1, Invariance, PTL DEF Spec, DecisionsAreFinal

\* A call that repeats a request which has succeeded is never refused and gets
\* that order and no other.
THEOREM RetriesGetTheOrder == Spec => RetryGetsTheOrder
<1>1. IInv /\ [Next]_vars => [ReplayStep]_vars
  <2> SUFFICES ASSUME IInv, Next,
                      NEW u \in Calls, pc[u] \in Statement,
                      receipts[Slot(u)].status = "SUCCEEDED",
                      receipts[Slot(u)].fp = Fingerprint(cmd[u])
               PROVE  /\ pc'[u] # "refused"
                      /\ pc'[u] = "done" => reply'[u] = receipts[Slot(u)].order
    BY DEF ReplayStep
  <2>1. Slot(u) \in Slots
    BY RequestTypes DEF IInv, TypeInv, KnowsRequest, Running
  <2>2. IsReplay(receipts[Slot(u)], u) /\ ~ IsFresh(receipts[Slot(u)])
    <3>1. receipts[Slot(u)] # NoReceipt
      BY DEF NoReceipt
    <3>2. PICK x \in orders : receipts[Slot(u)] = Succeeded(x.id)
      BY <2>1, <3>1 DEF IInv, ReceiptsSound
    <3>3. receipts[Slot(u)].order \in Calls
      BY <3>2 DEF Succeeded, IInv, TypeInv, TypeOK, OrderRow
    <3>4. QED
      BY <3>3, NoneIsNoRow DEF IsReplay, IsFresh
  <2>3. pc[u] \notin InBody
    BY <2>2 DEF IInv, Checked, CheckedKey, IsFresh, NoReceipt
  <2>4. pc[u] \in {"lookup", "mark", "reread"}
    BY <2>3 DEF Statement, InBody
  <2>5. CASE CallStep(u)
    <3>1. CASE Lookup(u)
      BY <2>2, <3>1 DEF Lookup, Replay, Goto, IInv, TypeInv, TypeOK
    <3>2. CASE Mark(u)
      BY <2>2, <3>2 DEF Mark, Goto, IInv, TypeInv, TypeOK
    <3>3. CASE Reread(u)
      BY <2>2, <3>3 DEF Reread, Replay, Goto, IInv, TypeInv, TypeOK
    <3>4. CASE Abort(u)
      BY <3>4 DEF Abort, Rollback, Goto, IInv, TypeInv, TypeOK
    <3>5. QED
      BY <2>4, <2>5, <3>1, <3>2, <3>3, <3>4
         DEF CallStep, Proceed, Begin, LockOffer, LockListing, CheckTerms, LockDemand, Settle, At
  <2>6. ASSUME NEW t \in Calls, CallStep(t), t # u
        PROVE  pc'[u] = pc[u]
    BY <2>6, StepKinds, OthersStay DEF IInv
  <2>7. CASE OtherCommand \/ Tick
    BY <2>4, <2>7, OtherStepsKeepCalls DEF calls
  <2>8. QED
    BY <2>4, <2>5, <2>6, <2>7 DEF Next
<1>2. QED
  BY <1>1, Invariance, PTL DEF Spec, RetryGetsTheOrder

-----------------------------------------------------------------------------
(***************************************************************************)
(* Waiting.  Locks are taken in one order, so among any calls there is one *)
(* that waits for none of the others: nobody waits for ever in a ring.     *)
(***************************************************************************)

\* Call t cannot go on until call u gives a lock back.
WaitsFor(t, u) ==
  \/ At(t, "mark") /\ marker[Slot(t)] = u
  \/ At(t, "lockOffer") /\ offerLock[OfferOf(t)] = u
  \/ At(t, "lockListing") /\ listingLock[ListingOf(t)] = u
  \/ At(t, "lockDemand") /\ demandLock[DemandOf(t)] = u

NoRing == \A S \in (SUBSET Calls) \ {{}} : \E t \in S : \A u \in S : ~ WaitsFor(t, u)

\* Nothing is in the way of the call's next statement.
Unhindered(t) ==
  /\ pc[t] \in Statement
  /\ At(t, "mark") => marker[Slot(t)] = None
  /\ At(t, "lockOffer") => offerLock[OfferOf(t)] = None
  /\ At(t, "lockListing") => listingLock[ListingOf(t)] = None
  /\ At(t, "lockDemand") => demandLock[DemandOf(t)] = None

SomebodyGoesOn == (\E t \in Calls : pc[t] \in Statement) => \E t \in Calls : Unhindered(t)

\* What a waiting call waits at is a row or a slot.
LEMMA WaitsAtRows ==
  ASSUME TypeInv, Checked, NEW t \in Calls, pc[t] \in Statement
  PROVE  /\ Slot(t) \in Slots /\ OfferOf(t) \in Offers /\ ListingOf(t) \in Listings
         /\ At(t, "lockDemand") => DemandOf(t) \in Demands
<1>1. cmd[t] \in Commands
  BY DEF TypeInv, KnowsRequest, Running
<1>2. At(t, "lockDemand") => DemandOf(t) # None
  BY DEF Checked, CheckedDemand, At
<1>3. QED
  BY <1>1, <1>2, RequestTypes

\* Whoever is waited for is further on than whoever waits.
LEMMA HolderIsAhead ==
  ASSUME TypeInv, LocksHeld, Checked, NEW t \in Calls, NEW u \in Calls, WaitsFor(t, u)
  PROVE  \/ At(t, "mark") /\ pc[u] \in InBody
         \/ At(t, "lockOffer") /\ pc[u] \in PastOffer
         \/ At(t, "lockListing") /\ pc[u] \in PastListing
         \/ At(t, "lockDemand") /\ pc[u] = "settle"
<1>1. pc[t] \in Statement
  BY DEF WaitsFor, At, Statement
<1>2. QED
  BY <1>1, WaitsAtRows
     DEF WaitsFor, LocksHeld, MarkersHeld, OffersHeld, ListingsHeld, DemandsHeld

LEMMA NoRingEver == TypeInv /\ LocksHeld /\ Checked => NoRing
<1> SUFFICES ASSUME TypeInv, LocksHeld, Checked, NEW S \in (SUBSET Calls) \ {{}}
             PROVE  \E t \in S : \A u \in S : ~ WaitsFor(t, u)
  BY DEF NoRing
<1>1. \A t, u \in S : WaitsFor(t, u) =>
        \/ At(t, "mark") /\ pc[u] \in InBody
        \/ At(t, "lockOffer") /\ pc[u] \in PastOffer
        \/ At(t, "lockListing") /\ pc[u] \in PastListing
        \/ At(t, "lockDemand") /\ pc[u] = "settle"
  BY HolderIsAhead
<1> DEFINE Waiting == {"mark", "lockOffer", "lockListing", "lockDemand"}
<1>2. CASE \E t \in S : pc[t] \notin Waiting
  BY <1>1, <1>2 DEF At
<1>3. CASE \A t \in S : pc[t] \in Waiting
  <2>1. CASE \E t \in S : pc[t] = "lockDemand"
    BY <1>1, <1>3, <2>1 DEF At
  <2>2. CASE \A t \in S : pc[t] # "lockDemand"
    <3>1. CASE \E t \in S : pc[t] = "lockListing"
      BY <1>1, <1>3, <2>2, <3>1 DEF At, PastListing
    <3>2. CASE \A t \in S : pc[t] # "lockListing"
      <4>1. CASE \E t \in S : pc[t] = "lockOffer"
        BY <1>1, <1>3, <2>2, <3>2, <4>1 DEF At, PastOffer
      <4>2. CASE \A t \in S : pc[t] # "lockOffer"
        BY <1>1, <1>3, <2>2, <3>2, <4>2 DEF At, InBody
      <4>3. QED
        BY <4>1, <4>2
    <3>3. QED
      BY <3>1, <3>2
  <2>3. QED
    BY <2>1, <2>2
<1>4. QED
  BY <1>2, <1>3

\* However many calls there are and whatever they accept: among any of them one
\* waits for none of the others, and while any call is under way there is one
\* whose next statement nothing hinders.
THEOREM CallsNeverDeadlock == Spec => [](NoRing /\ SomebodyGoesOn)
<1>1. IInv => NoRing
  BY NoRingEver DEF IInv
<1>2. IInv /\ NoRing => SomebodyGoesOn
  <2> SUFFICES ASSUME IInv, NoRing, NEW g \in Calls, pc[g] \in Statement
               PROVE  \E t \in Calls : Unhindered(t)
    BY DEF SomebodyGoesOn
  <2> DEFINE S == {t \in Calls : pc[t] \in Statement}
  <2>1. PICK t \in S : \A u \in S : ~ WaitsFor(t, u)
    <3>1. S \in (SUBSET Calls) \ {{}}
      OBVIOUS
    <3>2. QED
      BY <3>1 DEF NoRing
  <2>2. \A u \in Calls : WaitsFor(t, u) => u \in S
    <3>1. InBody \union PastOffer \union PastListing \union {"settle"} \subseteq Statement
      BY DEF InBody, PastOffer, PastListing, Statement
    <3>2. QED
      BY <3>1, HolderIsAhead DEF IInv
  <2>3. \A u \in Calls : ~ WaitsFor(t, u)
    BY <2>1, <2>2
  <2>4. /\ At(t, "mark") => marker[Slot(t)] \in Calls \union {None}
        /\ At(t, "lockOffer") => offerLock[OfferOf(t)] \in Calls \union {None}
        /\ At(t, "lockListing") => listingLock[ListingOf(t)] \in Calls \union {None}
        /\ At(t, "lockDemand") => demandLock[DemandOf(t)] \in Calls \union {None}
    <3>1. pc[t] \in Statement /\ TypeInv /\ Checked
      BY DEF IInv
    <3>2. QED
      BY <3>1, WaitsAtRows DEF TypeInv, TypeOK
  <2>5. Unhindered(t)
    BY <2>3, <2>4 DEF Unhindered, WaitsFor
  <2>6. QED
    BY <2>5
<1>3. QED
  BY <1>1, <1>2, Invariance, PTL

-----------------------------------------------------------------------------
(***************************************************************************)
(* Quantities.  A sale moves its quantity from the listing into the order, *)
(* and counts it once for the demand; nothing else touches any of the      *)
(* three.  What is sold is a sum over the orders, so this rests on what    *)
(* adding one element does to a sum (Totals).                              *)
(***************************************************************************)

Ordered(S) == [x \in S |-> Terms[x.offer].qty]

\* SoldQty adds up the quantities of the orders.
LEMMA SoldIsTotal ==
  ASSUME NEW S, IsFiniteSet(S)
  PROVE  SoldQty(S) = Total(Ordered(S), S)
<1> DEFINE Table(g) == g = [T \in SUBSET S |->
                              IF T = {} THEN 0
                              ELSE Terms[Choice(T).offer].qty + g[T \ {Choice(T)}]]
           sold == CHOOSE g : Table(g)
<1>1. SoldQty(S) = sold[S]
  BY DEF SoldQty, MapThenSumSet, MapThenFoldSet, Choice
<1>2. \A T \in SUBSET S : T # {} => Ordered(S)[Choice(T)] = Terms[Choice(T).offer].qty
  BY Chosen DEF Ordered
<1>3. ASSUME NEW g
      PROVE  Table(g) <=> Adds(g, Ordered(S), S)
  BY <1>2 DEF Adds
<1>4. Table(Partial(Ordered(S), S))
  BY <1>3, TablesExist
<1>5. Table(sold)
  <2> HIDE DEF Table
  <2> QED
    BY <1>4
<1>6. Adds(sold, Ordered(S), S)
  BY <1>3, <1>5
<1>7. sold[S] = Total(Ordered(S), S)
  <2> HIDE DEF sold
  <2> QED
    BY <1>6, TotalIsUnique
<1>8. QED
  BY <1>1, <1>7

\* Without orders nothing is sold.
LEMMA SoldNothing == SoldQty({}) = 0
BY SoldIsTotal, TotalOfNothing, FS_EmptySet

\* One more order sells its quantity.
LEMMA SoldOneMore ==
  ASSUME NEW S, IsFiniteSet(S), \A x \in S : x.offer \in Offers,
         NEW a, a \notin S, a.offer \in Offers
  PROVE  SoldQty(S \union {a}) = SoldQty(S) + Terms[a.offer].qty
<1> DEFINE A == S \union {a}
<1>1. IsFiniteSet(A)
  BY FS_AddElement
<1>2. \A x \in A : Ordered(A)[x] \in Int /\ Ordered(A)[x] = Terms[x.offer].qty
  BY ConstantTypes DEF Ordered, OfferTerms
<1>3. Total(Ordered(A), A) = Total(Ordered(A), S) + Terms[a.offer].qty
  <2>1. Weighed(Ordered(A), S \union {a})
    BY <1>2 DEF Weighed
  <2>2. Total(Ordered(A), S \union {a}) = Total(Ordered(A), S) + Ordered(A)[a]
    BY <2>1, TotalWith
  <2>3. QED
    BY <1>2, <2>2
<1>4. Total(Ordered(A), S) = Total(Ordered(S), S)
  <2>1. Alike(Ordered(A), Ordered(S), S)
    BY DEF Alike, Ordered
  <2>2. QED
    BY <2>1, SameTotal
<1>5. QED
  BY <1>1, <1>3, <1>4, SoldIsTotal

\* What is sold is a number.
LEMMA SoldIsNumber ==
  ASSUME NEW S, IsFiniteSet(S), \A x \in S : x.offer \in Offers
  PROVE  SoldQty(S) \in Int
<1>1. Weighed(Ordered(S), S)
  BY ConstantTypes DEF Ordered, OfferTerms, Weighed
<1>2. QED
  BY <1>1, SoldIsTotal, TotalIsInteger

QuantityInv == IsFiniteSet(orders) /\ QuantityConserved

\* At first nothing is sold and everything is left.
LEMMA QuantityInit == Init => QuantityInv
<1> SUFFICES ASSUME Init PROVE QuantityInv
  OBVIOUS
<1>1. IsFiniteSet(orders)
  BY FS_EmptySet DEF Init
<1>2. \A l \in Listings :
        /\ SoldQty({x \in orders : Terms[x.offer].listing = l}) = 0
        /\ listings[l].available = Stock[l] /\ Stock[l] \in Nat
  <2>1. SUFFICES ASSUME NEW l \in Listings
                 PROVE  SoldQty({x \in orders : Terms[x.offer].listing = l}) = 0
    BY ConstantTypes DEF Init
  <2>2. {x \in orders : Terms[x.offer].listing = l} = {}
    BY DEF Init
  <2>3. QED
    BY <2>2, SoldNothing
<1>3. \A d \in Demands :
        /\ SoldQty({x \in orders : Terms[x.offer].demand = d}) = 0
        /\ demands[d].fulfilled = 0 /\ 0 <= Wanted[d].max
  <2>1. SUFFICES ASSUME NEW d \in Demands
                 PROVE  SoldQty({x \in orders : Terms[x.offer].demand = d}) = 0
    BY MaxIsPositive DEF Init
  <2>2. {x \in orders : Terms[x.offer].demand = d} = {}
    BY DEF Init
  <2>3. QED
    BY <2>2, SoldNothing
<1>4. QED
  BY <1>1, <1>2, <1>3 DEF QuantityInv, QuantityConserved

\* A sale moves its quantity.
LEMMA QuantitySale ==
  ASSUME IInv, QuantityInv, NEW t \in Calls, Sells(t)
  PROVE  QuantityInv'
<1> DEFINE a == NewOrder(t)
<1>1. /\ ListingOf(t) \in Listings /\ DemandOf(t) \in Demands \union {None}
      /\ OfferOf(t) \in Offers /\ Commit(t)
      /\ orders' = orders \union {a}
      /\ ListingAcceptable(t) /\ (DemandOf(t) # None => DemandAcceptable(t))
      /\ \A l \in Listings : l # ListingOf(t) => listings'[l] = listings[l]
      /\ \A d \in Demands : d # DemandOf(t) => demands'[d] = demands[d]
  BY SaleWrites DEF Sells
<1>2. Qty(t) \in Nat
  BY <1>1, ConstantTypes DEF Qty, OfferTerms
<1>3. /\ a.offer = OfferOf(t) /\ Terms[a.offer].qty = Qty(t)
      /\ Terms[a.offer].listing = ListingOf(t) /\ Terms[a.offer].demand = DemandOf(t)
  BY DEF NewOrder, Qty, ListingOf, DemandOf
<1>4. a \notin orders
  <2>1. a.id = t /\ pc[t] # "done"
    BY DEF NewOrder, Sells, At
  <2>2. QED
    BY <2>1 DEF IInv, OrdersSound, OrderSound
<1>5. IsFiniteSet(orders)
  BY DEF QuantityInv
<1> HIDE DEF a
<1>6. \A x \in orders : x.offer \in Offers
  BY DEF IInv, TypeInv, TypeOK, OrderRow
<1>7. ASSUME NEW S \in SUBSET orders
      PROVE  SoldQty(S \union {a}) = SoldQty(S) + Qty(t)
  BY <1>1, <1>3, <1>4, <1>5, <1>6, SoldOneMore, FS_Subset
<1>8. ASSUME NEW S \in SUBSET orders
      PROVE  SoldQty(S) \in Int
  BY <1>5, <1>6, SoldIsNumber, FS_Subset
<1>9. IsFiniteSet(orders')
  BY <1>1, <1>5, FS_AddElement
<1>10. ASSUME NEW l \in Listings
       PROVE  listings'[l].available
                + SoldQty({x \in orders' : Terms[x.offer].listing = l}) = Stock[l]
  <2> DEFINE S == {x \in orders : Terms[x.offer].listing = l}
  <2>1. /\ listings[l].available + SoldQty(S) = Stock[l]
        /\ listings[l].available \in Nat /\ SoldQty(S) \in Int
    BY <1>8 DEF QuantityInv, QuantityConserved, IInv, TypeInv, TypeOK, ListingRow
  <2>2. CASE l = ListingOf(t)
    <3>1. {x \in orders' : Terms[x.offer].listing = l} = S \union {a}
      BY <1>1, <1>3, <2>2
    <3>2. listings'[l].available = listings[l].available - Qty(t)
      BY <1>1, <2>2 DEF Commit, DrawnListing, IInv, TypeInv, TypeOK
    <3>3. SoldQty({x \in orders' : Terms[x.offer].listing = l}) = SoldQty(S) + Qty(t)
      BY <1>7, <3>1
    <3> HIDE DEF S
    <3>4. listings'[l].available + (SoldQty(S) + Qty(t)) = Stock[l]
      BY <1>2, <2>1, <3>2
    <3>5. QED
      BY <3>3, <3>4
  <2>3. CASE l # ListingOf(t)
    <3>1. {x \in orders' : Terms[x.offer].listing = l} = S
      BY <1>1, <1>3, <2>3
    <3>2. QED
      BY <1>1, <2>1, <2>3, <3>1
  <2>4. QED
    BY <2>2, <2>3
<1>11. ASSUME NEW d \in Demands
       PROVE  /\ demands'[d].fulfilled = SoldQty({x \in orders' : Terms[x.offer].demand = d})
              /\ demands'[d].fulfilled <= Wanted[d].max
  <2> DEFINE S == {x \in orders : Terms[x.offer].demand = d}
  <2>1. /\ demands[d].fulfilled = SoldQty(S) /\ demands[d].fulfilled <= Wanted[d].max
        /\ demands[d].fulfilled \in Nat /\ Wanted[d].max \in Nat
    BY MaxIsPositive DEF QuantityInv, QuantityConserved, IInv, TypeInv, TypeOK, DemandRow
  <2>2. CASE d = DemandOf(t)
    <3>1. {x \in orders' : Terms[x.offer].demand = d} = S \union {a}
      BY <1>1, <1>3, <2>2
    <3>2. DemandOf(t) # None
      BY <2>2, NoneIsNoRow
    <3>3. /\ demands'[d].fulfilled = demands[d].fulfilled + Qty(t)
          /\ Qty(t) <= Wanted[d].max - demands[d].fulfilled
      BY <1>1, <2>2, <3>2 DEF Commit, FilledDemand, DemandAcceptable, IInv, TypeInv, TypeOK
    <3>4. SoldQty({x \in orders' : Terms[x.offer].demand = d}) = SoldQty(S) + Qty(t)
      BY <1>7, <3>1
    <3> HIDE DEF S
    <3>5. demands'[d].fulfilled = SoldQty(S) + Qty(t) /\ demands'[d].fulfilled <= Wanted[d].max
      BY <1>2, <2>1, <3>3
    <3>6. QED
      BY <3>4, <3>5
  <2>3. CASE d # DemandOf(t)
    <3>1. {x \in orders' : Terms[x.offer].demand = d} = S
      BY <1>1, <1>3, <2>3
    <3>2. QED
      BY <1>1, <2>1, <2>3, <3>1
  <2>4. QED
    BY <2>2, <2>3
<1>12. QED
  BY <1>9, <1>10, <1>11 DEF QuantityInv, QuantityConserved

\* No other step moves a quantity or writes an order.
LEMMA QuantityOtherStep ==
  ASSUME IInv, QuantityInv, [Next]_vars, \A t \in Calls : ~ Sells(t)
  PROVE  QuantityInv'
<1>1. /\ orders' = orders
      /\ \A l \in Listings : listings'[l].available = listings[l].available
      /\ \A d \in Demands : demands'[d].fulfilled = demands[d].fulfilled
  <2>1. CASE \E t \in Calls : CallStep(t)
    BY <2>1, StepKinds, ReadingWritesNothing DEF rows
  <2>2. CASE OtherCommand
    BY <2>2 DEF OtherCommand, CreateOffer, WithdrawOffer, RejectOffer, OfferCommand,
                PublishListing, CancelListing, SetListingStatus,
                PublishDemand, CancelDemand, SetDemandStatus, IInv, TypeInv, TypeOK
  <2>3. CASE Tick \/ UNCHANGED vars
    BY <2>3 DEF Tick, vars, rows
  <2>4. QED
    BY <2>1, <2>2, <2>3 DEF Next
<1>2. QED
  BY <1>1 DEF QuantityInv, QuantityConserved

\* Nothing is sold twice and nothing vanishes: what is left of a listing and
\* what its orders took add up to the harvest, and a demand has been filled by
\* exactly its own orders, never beyond its maximum, however many sales race.
THEOREM QuantitiesAreConserved == Spec => []QuantityConserved
<1>1. Init => QuantityInv
  BY QuantityInit
<1>2. IInv /\ QuantityInv /\ [Next]_vars => QuantityInv'
  BY QuantitySale, QuantityOtherStep
<1>3. QuantityInv => QuantityConserved
  BY DEF QuantityInv
<1>4. QED
  BY <1>1, <1>2, <1>3, Invariance, PTL DEF Spec

-----------------------------------------------------------------------------
(***************************************************************************)
(* The transactions implement the atomic sale: a sale is one step of it, a *)
(* new, withdrawn or rejected offer another, and everything else, every    *)
(* lock, check, refusal, abort and replay, is invisible.                   *)
(***************************************************************************)

Book        == [o \in Offers |-> BookEntry(offers[o].status)]
Left        == [l \in Listings |-> listings[l].available]
Filled      == [d \in Demands |-> demands[d].fulfilled]
SoldOffer(s) == IF receipts[s] = NoReceipt THEN None ELSE OrderById(receipts[s].order).offer
Receipt     == [s \in Slots |-> SoldOffer(s)]

\* The book's entry for each status of an offer.
LEMMA BookEntries ==
  /\ BookEntry("ABSENT") = "absent"
  /\ BookEntry("PENDING") = "open"
  /\ BookEntry("ACCEPTED") = "sold"
  /\ BookEntry("REJECTED") = "closed"
  /\ BookEntry("WITHDRAWN") = "closed"
BY DEF BookEntry

\* The order of a receipt is the order of the call that wrote it.
LEMMA ReceiptOrder ==
  ASSUME OrdersSound, NEW x \in orders
  PROVE  OrderById(x.id) = x
<1>1. \A y \in orders : y.id = x.id => y = x
  BY DEF OrdersSound, OrderSound
<1>2. QED
  BY <1>1 DEF OrderById

\* The initial rows are the initial state of the atomic sale.
LEMMA SaleInit == Init => Sale!Init
<1> SUFFICES ASSUME Init PROVE Sale!Init
  OBVIOUS
<1>1. \A o \in Offers : BookEntry(offers[o].status) = "absent"
  BY BookEntries DEF Init
<1>2. \A s \in Slots : SoldOffer(s) = None
  BY DEF Init, SoldOffer
<1>3. QED
  BY <1>1, <1>2 DEF Init, Sale!Init, SoldOffer

\* A sale of the transactions is a sale of the specification.
LEMMA SaleIsSell ==
  ASSUME IInv, NEW t \in Calls, Sells(t),
         NEW s \in Slots, s = Slot(t), NEW o \in Offers, o = OfferOf(t)
  PROVE  Sale!Sell(s, o)
<1>1. /\ Slot(t) \in Slots /\ OfferOf(t) \in Offers /\ ListingOf(t) \in Listings
      /\ DemandOf(t) \in Demands \union {None}
      /\ OfferAcceptable(t) /\ ListingAcceptable(t)
      /\ DemandOf(t) # None => DemandAcceptable(t)
      /\ receipts[Slot(t)] = NoReceipt
      /\ \A r \in Slots : r # Slot(t) => receipts'[r] = receipts[r]
      /\ orders' = orders \union {NewOrder(t)}
  BY SaleWrites
<1>2. Qty(t) \in Nat /\ cmd' = cmd /\ began' = began /\ Commit(t)
  BY RequestTypes
     DEF Sells, At, Commit, IInv, TypeInv, KnowsRequest, Running, Statement
<1>3. Book' = [Book EXCEPT ![OfferOf(t)] = "sold"] /\ Book[OfferOf(t)] = "open"
  <2>1. /\ \A p \in Offers : offers'[p] = IF p = OfferOf(t) THEN AcceptedOffer(offers[p])
                                                            ELSE offers[p]
        /\ \A row : AcceptedOffer(row).status = "ACCEPTED"
    BY <1>1, <1>2 DEF Commit, IInv, TypeInv, TypeOK, AcceptedOffer
  <2>2. \A p \in Offers : Book'[p] = IF p = OfferOf(t) THEN "sold" ELSE Book[p]
    BY <2>1, BookEntries DEF Book
  <2>3. Book[OfferOf(t)] = "open"
    BY <1>1, BookEntries DEF Book, OfferAcceptable
  <2>4. Book' = [p \in Offers |-> BookEntry(offers'[p].status)]
    BY DEF Book, BookEntry
  <2>5. QED
    BY <1>1, <2>2, <2>3, <2>4 DEF Book
<1>4. /\ Left' = [Left EXCEPT ![ListingOf(t)] = @ - Qty(t)]
      /\ Qty(t) <= Left[ListingOf(t)]
  <2>1. /\ listings[ListingOf(t)].available >= Qty(t)
        /\ listings[ListingOf(t)].available \in Nat
    BY <1>1 DEF ListingAcceptable, IInv, TypeInv, TypeOK, ListingRow
  <2>2. \A l \in Listings : listings'[l].available =
          IF l = ListingOf(t) THEN listings[l].available - Qty(t) ELSE listings[l].available
    BY <1>1, <1>2 DEF Commit, DrawnListing, IInv, TypeInv, TypeOK
  <2>3. QED
    BY <1>1, <1>2, <2>1, <2>2 DEF Left
<1>5. IF DemandOf(t) = None
      THEN Filled' = Filled
      ELSE /\ Filled[DemandOf(t)] + Qty(t) <= Wanted[DemandOf(t)].max
           /\ Filled' = [Filled EXCEPT ![DemandOf(t)] = @ + Qty(t)]
  <2>1. CASE DemandOf(t) = None
    BY <1>2, <2>1 DEF Commit, Filled
  <2>2. CASE DemandOf(t) # None
    <3>1. /\ DemandOf(t) \in Demands /\ demands[DemandOf(t)].fulfilled \in Nat
          /\ Wanted[DemandOf(t)].max \in Nat
      BY <1>1, <2>2, MaxIsPositive DEF IInv, TypeInv, TypeOK, DemandRow
    <3>2. Qty(t) <= Wanted[DemandOf(t)].max - demands[DemandOf(t)].fulfilled
      BY <1>1, <2>2 DEF DemandAcceptable
    <3>3. \A d \in Demands : demands'[d].fulfilled =
            IF d = DemandOf(t) THEN demands[d].fulfilled + Qty(t) ELSE demands[d].fulfilled
      BY <1>2, <2>2, <3>1 DEF Commit, FilledDemand, IInv, TypeInv, TypeOK
    <3>4. Filled' = [Filled EXCEPT ![DemandOf(t)] = @ + Qty(t)]
      BY <3>1, <3>3 DEF Filled
    <3>5. Filled[DemandOf(t)] + Qty(t) <= Wanted[DemandOf(t)].max
      BY <1>2, <3>1, <3>2 DEF Filled
    <3>6. QED
      BY <2>2, <3>4, <3>5
  <2>3. QED
    BY <2>1, <2>2
<1>6. Receipt' = [Receipt EXCEPT ![Slot(t)] = OfferOf(t)] /\ Receipt[Slot(t)] = None
  <2>1. SoldOffer(Slot(t)) = None
    BY <1>1 DEF SoldOffer
  <2>2. \A x \in orders : x.id # t
    BY DEF Sells, At, IInv, OrdersSound, OrderSound
  <2>3. NewOrder(t).id = t /\ NewOrder(t).offer = OfferOf(t)
    BY DEF NewOrder
  <2>4. SoldOffer(Slot(t))' = OfferOf(t)
    <3>1. OrderById(t)' = NewOrder(t)
      BY <1>1, <2>2, <2>3 DEF OrderById
    <3>2. receipts'[Slot(t)] = Succeeded(t)
      BY <1>1, <1>2 DEF Commit, IInv, TypeInv, TypeOK
    <3>3. Succeeded(t) # NoReceipt /\ Succeeded(t).order = t
      BY DEF Succeeded, NoReceipt
    <3>4. Slot(t)' = Slot(t)
      BY <1>2 DEF Slot
    <3>5. QED
      BY <2>3, <3>1, <3>2, <3>3, <3>4 DEF SoldOffer
  <2>5. ASSUME NEW r \in Slots, r # Slot(t)
        PROVE  SoldOffer(r)' = SoldOffer(r)
    <3>1. receipts'[r] = receipts[r]
      BY <1>1, <2>5
    <3>2. CASE receipts[r] = NoReceipt
      BY <3>1, <3>2 DEF SoldOffer
    <3>3. CASE receipts[r] # NoReceipt
      <4>1. PICK x \in orders : receipts[r] = Succeeded(x.id)
        BY <3>3 DEF IInv, ReceiptsSound
      <4>2. receipts[r].order = x.id
        BY <4>1 DEF Succeeded
      <4>3. OrderById(x.id) = x
        BY ReceiptOrder DEF IInv
      <4>4. \A y \in orders' : y.id = x.id => y = x
        BY <1>1, <2>2, <2>3 DEF IInv, OrdersSound, OrderSound
      <4>5. (CHOOSE y \in orders' : y.id = x.id) = x
        BY <1>1, <4>4
      <4>6. SoldOffer(r) = x.offer
        BY <3>3, <4>2, <4>3 DEF SoldOffer
      <4>7. SoldOffer(r)' = x.offer
        <5>1. SoldOffer(r)' = (CHOOSE y \in orders' : y.id = receipts'[r].order).offer
          BY <3>1, <3>3 DEF SoldOffer, OrderById
        <5>2. QED
          BY <3>1, <4>2, <4>5, <5>1
      <4>8. QED
        BY <4>6, <4>7
    <3>4. QED
      BY <3>2, <3>3
  <2>6. \A r \in Slots : Receipt'[r] = IF r = Slot(t) THEN OfferOf(t) ELSE Receipt[r]
    BY <1>1, <1>2, <2>4, <2>5 DEF Receipt, Slot
  <2>7. Receipt' = [r \in Slots |-> SoldOffer(r)']
    BY DEF Receipt, SoldOffer, OrderById
  <2>8. QED
    BY <1>1, <2>1, <2>6, <2>7 DEF Receipt
<1>7. QED
  BY <1>1, <1>3, <1>4, <1>5, <1>6
     DEF Sale!Sell, Sale!Move, Book, Left, Filled, Receipt, SoldOffer, ListingOf, DemandOf, Qty

\* Everything but a sale leaves the amounts and the receipts alone.
LEMMA QuietStep ==
  ASSUME IInv, UNCHANGED <<orders, receipts>>, demands' = demands \/ Filled' = Filled,
         listings' = listings \/ Left' = Left
  PROVE  UNCHANGED <<Left, Filled, Receipt>>
BY DEF Left, Filled, Receipt, SoldOffer, OrderById

\* Posting and closing an offer are steps of the atomic sale.
LEMMA OfferStepIsMove ==
  ASSUME IInv, NEW o \in Offers, CreateOffer(o) \/ WithdrawOffer(o) \/ RejectOffer(o)
  PROVE  Sale!Post(o) \/ Sale!Close(o)
<1>1. UNCHANGED <<Left, Filled, Receipt>>
  BY QuietStep DEF CreateOffer, WithdrawOffer, RejectOffer, OfferCommand
<1>2. Book' = [p \in Offers |-> BookEntry(offers'[p].status)]
  BY DEF Book, BookEntry
<1>3. CASE CreateOffer(o)
  <2>1. /\ offers[o].status = "ABSENT" /\ offers'[o].status = "PENDING"
        /\ \A p \in Offers : p # o => offers'[p] = offers[p]
    BY <1>3 DEF CreateOffer, IInv, TypeInv, TypeOK
  <2>2. Book[o] = "absent" /\ Book' = [Book EXCEPT ![o] = "open"]
    BY <1>2, <2>1, BookEntries DEF Book
  <2>3. QED
    BY <1>1, <2>2 DEF Sale!Post, Sale!Move, Book, Left, Filled, Receipt, SoldOffer
<1>4. CASE WithdrawOffer(o) \/ RejectOffer(o)
  <2>1. /\ offers[o].status = "PENDING" /\ offers'[o].status \in {"WITHDRAWN", "REJECTED"}
        /\ \A p \in Offers : p # o => offers'[p] = offers[p]
    BY <1>4 DEF WithdrawOffer, RejectOffer, OfferCommand, IInv, TypeInv, TypeOK
  <2>2. Book[o] = "open" /\ Book' = [Book EXCEPT ![o] = "closed"]
    BY <1>2, <2>1, BookEntries DEF Book
  <2>3. QED
    BY <1>1, <2>2 DEF Sale!Close, Sale!Move, Book, Left, Filled, Receipt, SoldOffer
<1>5. QED
  BY <1>3, <1>4

\* A step that changes no row is a stutter of the atomic sale.
LEMMA HiddenStep ==
  ASSUME offers' = offers, UNCHANGED <<Left, Filled, Receipt>>
  PROVE  UNCHANGED Sale!saleVars
<1>1. Book' = Book
  BY DEF Book, BookEntry
<1>2. QED
  BY <1>1 DEF Sale!saleVars, Book, Left, Filled, Receipt, SoldOffer

\* Every behaviour of the concurrent transactions is a behaviour of the atomic
\* sale of AtomicSale: for any number of calls, offers and listings.
THEOREM TransactionsAreAtomicSales == Spec => ImplementsAtomicSale
<1>1. Init => Sale!Init
  BY SaleInit
<1>2. IInv /\ [Next]_vars => [Sale!Next]_(Sale!saleVars)
  <2> SUFFICES ASSUME IInv, [Next]_vars PROVE [Sale!Next]_(Sale!saleVars)
    OBVIOUS
  <2>1. ASSUME NEW t \in Calls, Sells(t)
        PROVE  Sale!Next
    <3>1. PICK s \in Slots, o \in Offers : s = Slot(t) /\ o = OfferOf(t)
      BY <2>1, SaleWrites
    <3>2. Sale!Sell(s, o)
      BY <2>1, <3>1, SaleIsSell
    <3>3. QED
      BY <3>2 DEF Sale!Next
  <2>2. ASSUME UNCHANGED rows
        PROVE  UNCHANGED Sale!saleVars
    BY <2>2, QuietStep, HiddenStep DEF rows
  <2>3. ASSUME NEW t \in Calls, CallStep(t)
        PROVE  [Sale!Next]_(Sale!saleVars)
    BY <2>1, <2>2, <2>3, StepKinds, ReadingWritesNothing
  <2>4. ASSUME NEW o \in Offers, CreateOffer(o) \/ WithdrawOffer(o) \/ RejectOffer(o)
        PROVE  Sale!Next
    BY <2>4, OfferStepIsMove DEF Sale!Next
  <2>5. ASSUME NEW l \in Listings, PublishListing(l) \/ CancelListing(l)
        PROVE  UNCHANGED Sale!saleVars
    <3>1. \A k \in Listings : listings'[k].available = listings[k].available
      BY <2>5 DEF PublishListing, CancelListing, SetListingStatus, IInv, TypeInv, TypeOK
    <3>2. Left' = Left /\ UNCHANGED <<offers, demands, orders, receipts>>
      BY <2>5, <3>1 DEF Left, PublishListing, CancelListing, SetListingStatus
    <3>3. QED
      BY <3>2, QuietStep, HiddenStep
  <2>6. ASSUME NEW d \in Demands, PublishDemand(d) \/ CancelDemand(d)
        PROVE  UNCHANGED Sale!saleVars
    <3>1. \A k \in Demands : demands'[k].fulfilled = demands[k].fulfilled
      BY <2>6 DEF PublishDemand, CancelDemand, SetDemandStatus, IInv, TypeInv, TypeOK
    <3>2. Filled' = Filled /\ UNCHANGED <<offers, listings, orders, receipts>>
      BY <2>6, <3>1 DEF Filled, PublishDemand, CancelDemand, SetDemandStatus
    <3>3. QED
      BY <3>2, QuietStep, HiddenStep
  <2>7. QED
    BY <2>2, <2>3, <2>4, <2>5, <2>6 DEF Next, OtherCommand, Tick, vars
<1>3. QED
  BY <1>1, <1>2, Invariance, PTL DEF Spec, ImplementsAtomicSale, Sale!Spec

-----------------------------------------------------------------------------
(***************************************************************************)
(* The reset of the demonstration data, beside the calls.  No lock of its  *)
(* or theirs is needed for what follows: the reset deletes only orders it  *)
(* has noted, and of those it has found every receipt.                     *)
(***************************************************************************)

\* An order is there once its call has ended, under the call's name.
OrdersOfEnded == \A x \in orders : x.id \in Calls /\ pc[x.id] = "done"

\* What the reset will delete are orders of the demo that exist, ...
DoomedExist == doomed \subseteq {x \in orders : x.offer \in DemoOffers}

\* ... and once it has looked for their receipts, no other receipt names them.
ReceiptsFound == stage = "restore" =>
  \A s \in Slots : receipts[s] # NoReceipt /\ OfDoomed(s) => s \in dropped

DemoInv ==
  /\ pc \in [Calls -> Places] /\ DOMAIN offers = Offers /\ DOMAIN receipts = Slots
  /\ OrdersOfEnded /\ DoomedExist /\ ReceiptsFound
  /\ AcceptedHasOneOrder /\ ReceiptsNameOrders

\* The seed has no orders and no receipts.
LEMMA DemoInit == SeededInit => DemoInv
BY DEF SeededInit, DemoInv, Places, OrdersOfEnded, DoomedExist, ReceiptsFound,
       AcceptedHasOneOrder, ReceiptsNameOrders, RestoredOffers

\* A sale beside the reset: its order and its receipt are none of those the
\* reset has noted.
LEMMA DemoSale ==
  ASSUME DemoInv, NEW t \in Calls, Sells(t), UNCHANGED reset
  PROVE  DemoInv'
<1>1. /\ pc' = [pc EXCEPT ![t] = "done"] /\ pc[t] = "settle"
      /\ orders' = orders \union {NewOrder(t)}
      /\ offers' = [offers EXCEPT ![OfferOf(t)] = AcceptedOffer(@)]
      /\ receipts' = [receipts EXCEPT ![Slot(t)] = Succeeded(t)]
      /\ \A x \in orders : x.offer # OfferOf(t)
      /\ doomed' = doomed /\ dropped' = dropped /\ stage' = stage
  BY DEF Sells, At, Commit, Goto, ConstraintsHold, reset
<1>2. NewOrder(t).id = t /\ NewOrder(t).offer = OfferOf(t) /\ Succeeded(t).order = t
  BY DEF NewOrder, Succeeded
<1>3. \A x \in orders : x.id \in Calls /\ x.id # t /\ pc[x.id] = "done"
  BY <1>1 DEF DemoInv, OrdersOfEnded
<1> HIDE DEF NewOrder
<1>4. pc' \in [Calls -> Places] /\ DOMAIN offers' = Offers /\ DOMAIN receipts' = Slots
  BY <1>1 DEF DemoInv, Places, Ended
<1>5. OrdersOfEnded'
  BY <1>1, <1>2, <1>3 DEF DemoInv, OrdersOfEnded
<1>6. DoomedExist'
  BY <1>1 DEF DemoInv, DoomedExist
<1>7. \A x \in doomed : x.id # t
  BY <1>3 DEF DemoInv, DoomedExist
<1>8. \A s \in Slots : receipts'[s] = IF s = Slot(t) THEN Succeeded(t) ELSE receipts[s]
  BY <1>1 DEF DemoInv
<1>9. ReceiptsFound'
  BY <1>1, <1>2, <1>7, <1>8 DEF DemoInv, ReceiptsFound, OfDoomed
<1>10. AcceptedHasOneOrder'
  <2>1. \A o \in Offers : o # OfferOf(t) => offers'[o] = offers[o]
    BY <1>1 DEF DemoInv
  <2>2. QED
    BY <1>1, <1>2, <2>1 DEF DemoInv, AcceptedHasOneOrder, OrdersOf
<1>11. ReceiptsNameOrders'
  BY <1>1, <1>2, <1>8 DEF DemoInv, ReceiptsNameOrders
<1>12. QED
  BY <1>4, <1>5, <1>6, <1>9, <1>10, <1>11 DEF DemoInv

\* A step of the database that writes no order and no receipt and accepts no
\* offer, whatever it does to locks, while the reset stands still or gives up.
LEMMA DemoQuietStep ==
  ASSUME DemoInv, UNCHANGED <<orders, receipts>>,
         \/ UNCHANGED reset
         \/ stage' # "restore" /\ doomed' \in {doomed, {}},
         pc' \in [Calls -> Places], \A u \in Calls : pc[u] = "done" => pc'[u] = "done",
         DOMAIN offers' = Offers,
         \A o \in Offers : offers'[o].status = "ACCEPTED" => offers[o].status = "ACCEPTED"
  PROVE  DemoInv'
<1>1. OrdersOfEnded' /\ DoomedExist'
  BY DEF DemoInv, OrdersOfEnded, DoomedExist, reset
<1>2. ReceiptsFound'
  BY DEF DemoInv, ReceiptsFound, OfDoomed, reset
<1>3. AcceptedHasOneOrder' /\ ReceiptsNameOrders'
  BY DEF DemoInv, AcceptedHasOneOrder, ReceiptsNameOrders, OrdersOf
<1>4. QED
  BY <1>1, <1>2, <1>3 DEF DemoInv

\* A call that does not sell.
LEMMA DemoReading ==
  ASSUME DemoInv, NEW t \in Calls, KindOfStep(t), ~ Sells(t), UNCHANGED reset
  PROVE  DemoInv'
<1>1. UNCHANGED rows
  BY ReadingWritesNothing
<1>2. /\ \E place \in Places : pc' = [pc EXCEPT ![t] = place]
      /\ pc[t] # "done"
  BY DEF KindOfStep, Begin, Pass, Repeat, Replay, Undo, Rollback, TakeMarker, TakeOffer,
         TakeListing, TakeDemand, At, Goto, Places, Statement, Ended
<1>3. pc' \in [Calls -> Places] /\ \A u \in Calls : pc[u] = "done" => pc'[u] = "done"
  BY <1>2 DEF DemoInv
<1>4. QED
  BY <1>1, <1>3, DemoQuietStep DEF DemoInv, rows

\* The other commands beside the reset.
LEMMA DemoOtherCommand ==
  ASSUME DemoInv, OtherCommand, UNCHANGED reset
  PROVE  DemoInv'
<1>1. UNCHANGED <<orders, receipts, pc>>
  BY DEF OtherCommand, CreateOffer, WithdrawOffer, RejectOffer, OfferCommand,
         PublishListing, CancelListing, SetListingStatus, PublishDemand, CancelDemand,
         SetDemandStatus, calls
<1>2. /\ DOMAIN offers' = Offers
      /\ \A o \in Offers : offers'[o].status = "ACCEPTED" => offers[o].status = "ACCEPTED"
  BY DEF DemoInv, OtherCommand, CreateOffer, WithdrawOffer, RejectOffer, OfferCommand,
         PublishListing, CancelListing, SetListingStatus, PublishDemand, CancelDemand,
         SetDemandStatus
<1>3. pc' \in [Calls -> Places] /\ \A u \in Calls : pc[u] = "done" => pc'[u] = "done"
  BY <1>1 DEF DemoInv
<1>4. QED
  BY <1>1, <1>2, <1>3, DemoQuietStep

\* The statements of the reset before its commit, and its end without one.
LEMMA DemoResetStep ==
  ASSUME DemoInv, StartReset \/ NoteOrders \/ DeleteReceipts \/ Restore \/ AbortReset
  PROVE  DemoInv'
<1>1. UNCHANGED <<rows, calls>>
  BY DEF StartReset, NoteOrders, DeleteReceipts, Restore, AbortReset, RollbackReset, vars
<1>2. UNCHANGED <<orders, receipts, offers, pc>>
  BY <1>1 DEF rows, calls
<1>3. CASE StartReset \/ AbortReset
  <2>1. stage' # "restore" /\ doomed' \in {doomed, {}}
    BY <1>3 DEF StartReset, AbortReset, RollbackReset, ReleaseReset
  <2>2. QED
    BY <1>2, <2>1, DemoQuietStep DEF DemoInv
<1>4. CASE NoteOrders
  BY <1>2, <1>4 DEF NoteOrders, DemoInv, OrdersOfEnded, DoomedExist, ReceiptsFound,
                    AcceptedHasOneOrder, ReceiptsNameOrders, OrdersOf
<1>5. CASE DeleteReceipts
  BY <1>2, <1>5 DEF DeleteReceipts, DemoInv, OrdersOfEnded, DoomedExist, ReceiptsFound,
                    OfDoomed, AcceptedHasOneOrder, ReceiptsNameOrders, OrdersOf
<1>6. CASE Restore
  BY <1>2, <1>6 DEF Restore, DemoInv, OrdersOfEnded, DoomedExist, ReceiptsFound,
                    OfDoomed, AcceptedHasOneOrder, ReceiptsNameOrders, OrdersOf
<1>7. QED
  BY <1>3, <1>4, <1>5, <1>6

\* The commit of the reset: an order that goes takes its receipts with it and
\* was of an offer that is restored; an order that stays keeps both.
LEMMA DemoCommit ==
  ASSUME DemoInv, CommitReset
  PROVE  DemoInv'
<1>1. /\ stage = "restore" /\ stage' = "off" /\ doomed' = {}
      /\ orders' = orders \ doomed /\ pc' = pc
      /\ receipts' = RemainingReceipts /\ offers' = RestoredOffers(offers)
  BY DEF CommitReset, ReleaseReset, calls
<1>2. pc' \in [Calls -> Places] /\ DOMAIN offers' = Offers /\ DOMAIN receipts' = Slots
  BY <1>1 DEF DemoInv, RestoredOffers, RemainingReceipts
<1>3. OrdersOfEnded' /\ DoomedExist' /\ ReceiptsFound'
  BY <1>1 DEF DemoInv, OrdersOfEnded, DoomedExist, ReceiptsFound
<1>4. AcceptedHasOneOrder'
  <2>1. ASSUME NEW o \in Offers, offers'[o].status = "ACCEPTED"
        PROVE  offers[o].status = "ACCEPTED" /\ o \notin DemoOffers
    BY <1>1, <2>1, DemoConstants DEF RestoredOffers, Scripted
  <2>2. \A x \in orders : x.offer \notin DemoOffers => x \in orders'
    BY <1>1 DEF DemoInv, DoomedExist
  <2>3. QED
    BY <1>1, <2>1, <2>2 DEF DemoInv, AcceptedHasOneOrder, OrdersOf
<1>5. ReceiptsNameOrders'
  <2>1. SUFFICES ASSUME NEW s \in Slots, receipts'[s] # NoReceipt
                 PROVE  \E x \in orders' : x.id = receipts'[s].order
    BY DEF ReceiptsNameOrders
  <2>2. s \notin dropped /\ receipts'[s] = receipts[s]
    BY <1>1, <2>1 DEF RemainingReceipts
  <2>3. PICK x \in orders : x.id = receipts[s].order
    BY <2>1, <2>2 DEF DemoInv, ReceiptsNameOrders
  <2>4. x \notin doomed
    BY <1>1, <2>1, <2>2, <2>3 DEF DemoInv, ReceiptsFound, OfDoomed
  <2>5. QED
    BY <1>1, <2>2, <2>3, <2>4
<1>6. QED
  BY <1>2, <1>3, <1>4, <1>5 DEF DemoInv

\* PostgreSQL ends the call or the reset when the two wait for each other.
LEMMA DemoDeadlock ==
  ASSUME DemoInv, NEW t \in Calls, BreakDeadlock(t)
  PROVE  DemoInv'
<1>1. CASE Rollback(t, "aborted") /\ UNCHANGED reset
  <2>1. pc[t] # "done"
    BY DEF BreakDeadlock, WaitsForReset, At
  <2>2. UNCHANGED rows /\ pc' = [pc EXCEPT ![t] = "aborted"]
    BY <1>1 DEF Rollback, Goto
  <2>3. pc' \in [Calls -> Places] /\ \A u \in Calls : pc[u] = "done" => pc'[u] = "done"
    BY <2>1, <2>2 DEF DemoInv, Places, Ended
  <2>4. QED
    BY <1>1, <2>2, <2>3, DemoQuietStep DEF DemoInv, rows
<1>2. CASE RollbackReset
  <2>1. stage' # "restore" /\ doomed' \in {doomed, {}} /\ UNCHANGED <<rows, calls>>
    BY <1>2 DEF RollbackReset, ReleaseReset
  <2>2. QED
    BY <2>1, DemoQuietStep DEF DemoInv, rows, calls
<1>3. QED
  BY <1>1, <1>2 DEF BreakDeadlock

\* Every step of calls, commands and reset preserves the invariant.
LEMMA DemoInvStep == DemoInv /\ [DemoNext]_demoVars => DemoInv'
<1> SUFFICES ASSUME DemoInv, [DemoNext]_demoVars PROVE DemoInv'
  OBVIOUS
<1>1. ASSUME NEW t \in Calls, CallStep(t), UNCHANGED reset
      PROVE  DemoInv'
  BY <1>1, StepKinds, DemoSale, DemoReading
<1>2. CASE UNCHANGED demoVars
  BY <1>2, DemoQuietStep DEF demoVars, vars, rows, calls, DemoInv
<1>3. QED
  BY <1>1, <1>2, DemoOtherCommand, DemoResetStep, DemoCommit, DemoDeadlock
     DEF DemoNext, ResetStep

\* The invariant of the demo always holds.
LEMMA DemoInvariance == DemoSpec => []DemoInv
BY DemoInit, DemoInvStep, PTL DEF DemoSpec

\* However resets and acceptances overlap, and whichever of them is aborted,
\* an accepted offer has its one order and no offer has two.
THEOREM DemoOffersHaveOneOrder == DemoSpec => []AcceptedHasOneOrder
BY DemoInvariance, PTL DEF DemoInv

\* No receipt outlives its order: a retry after a reset is never answered with
\* the id of an order the reset has deleted.
THEOREM DemoReceiptsNameOrders == DemoSpec => []ReceiptsNameOrders
BY DemoInvariance, PTL DEF DemoInv
=============================================================================
