------------------------- MODULE MarketIngest_proofs -------------------------
(***************************************************************************)
(* Proofs about MarketIngest.  The tables only grow, and their keys keep   *)
(* them free of duplicates (TablesInv); what a call has stored, seen and   *)
(* passed over therefore stays true of it while others go on (CallInv).    *)
(***************************************************************************)
EXTENDS MarketIngest, TLAPS

Job    == [provider : BOOLEAN, demo : BOOLEAN, crop : Crops,
           variety : Varieties, mandi : Mandi \union {None}, asOf : AsOf]
Answer == [mode : Modes, row : Row \union {None}, age : Int]

Typed ==
  /\ mandis \subseteq Mandi
  /\ observations \subseteq Row
  /\ pc \in [Calls -> Places]
  /\ job \in [Calls -> Job \union {None}]
  /\ batch \in [Calls -> Seq(Records)]
  /\ next \in [Calls -> Nat \ {0}]
  /\ mandi \in [Calls -> Mandi \union {None}]
  /\ row \in [Calls -> Row \union {None}]
  /\ newest \in [Calls -> Row \union {None}]
  /\ answer \in [Calls -> Answer \union {None}]
  /\ known \in [Calls -> SUBSET Row]

TablesInv ==
  /\ \A m, n \in mandis : m.market = n.market => m = n
  /\ \A o \in observations : o.mandi \in mandis
  /\ \A o, p \in observations : SameKey(o, p) => o = p
  /\ \A h \in history : h = HistoryRow(h.of) /\ h.of \in observations

Storing == {"resolve", "upsert", "insert", "existing", "history"}

\* The record has its observation, in its content, and its history.
Kept(r) == \E o \in observations : /\ IsOf(o, r)
                                   /\ o.prices = Normal(r)
                                   /\ HistoryRow(o) \in history

\* The places of a call, and what it has in hand there.
InHand(t) ==
  /\ pc[t] = "idle" \/ job[t] \in Job
  /\ pc[t] \in {"idle", "fetch"} => next[t] = 1 /\ batch[t] = <<>>
  /\ pc[t] \in Storing => next[t] \in 1..Len(batch[t])
  /\ pc[t] \in {"upsert", "insert", "existing", "history"} => Resolvable(Record(t))
  /\ pc[t] \in {"insert", "existing", "history"} =>
       mandi[t] \in mandis /\ mandi[t].market = Record(t).market
  /\ pc[t] = "existing" => WellFormed(Record(t))
  /\ pc[t] = "history" => /\ row[t] \in observations
                          /\ IsOf(row[t], Record(t))
                          /\ row[t].prices = Normal(Record(t))

\* The newest of the first n records of the batch.
IsNewest(t, n) ==
  /\ newest[t] \in observations
  /\ \E i \in 1..n : IsOf(newest[t], batch[t][i])
  /\ \A i \in 1..n : batch[t][i].at <= newest[t].at

\* What a call has behind it.
Behind(t) ==
  /\ pc[t] \in {"idle", "fetch"} => newest[t] = None
  /\ pc[t] \in Storing =>
       /\ \A i \in 1..(next[t] - 1) : Kept(batch[t][i])
       /\ next[t] = 1 => newest[t] = None
       /\ next[t] > 1 => IsNewest(t, next[t] - 1)

\* A call has a whole batch behind it, or none.
Whole(t) == \A i \in 1..Len(batch[t]) : Kept(batch[t][i])

\* What a fallback must not pass over.
Matters(t, o) ==
  /\ Usable(t, o)
  /\ o \in known[t] \/ \E i \in 1..Len(batch[t]) : IsOf(o, batch[t][i])

Falling(t) ==
  /\ known[t] \subseteq observations
  /\ pc[t] \in {"fallback", "demo"} => Whole(t)
  /\ pc[t] = "demo" => job[t].demo /\ \A o \in observations : ~Matters(t, o)
  /\ answer[t] # None => pc[t] = "done"
  /\ answer[t] # None /\ answer[t].mode # "ERROR" => Whole(t)

Best(t) ==
  answer[t] # None /\ answer[t].mode \in {"CACHED", "DEMO", "UNAVAILABLE"} =>
    \A o \in observations :
      Matters(t, o) => answer[t].mode = "CACHED" /\ o.at <= answer[t].row.at

Honest(t) ==
  answer[t] # None /\ answer[t].row # None =>
    LET o == answer[t].row
        a == answer[t]
    IN  /\ o \in observations
        /\ a.mode = "LIVE" =>
             /\ \E i \in 1..Len(batch[t]) : IsOf(o, batch[t][i])
             /\ \A i \in 1..Len(batch[t]) : batch[t][i].at <= o.at
             /\ job[t].asOf - o.at <= LiveAge
        /\ a.mode = "CACHED" => Usable(t, o)
        /\ a.mode = "DEMO" => o.mode = "DEMO" /\ job[t].demo
        /\ a.age >= job[t].asOf - o.at

CallInv(t) == InHand(t) /\ Behind(t) /\ Falling(t) /\ Best(t) /\ Honest(t)

IInv == Typed /\ TablesInv /\ \A t \in Calls : CallInv(t)

-----------------------------------------------------------------------------
(***************************************************************************)
(* Types.                                                                  *)
(***************************************************************************)

LEMMA HalfUpInt == ASSUME NEW n \in Int, NEW d \in {1, 100, 1000}
                   PROVE  HalfUp(n, d) \in Int
  BY DEF HalfUp

LEMMA NormalPrices == ASSUME NEW r \in Records, r.unit \in DOMAIN PriceDivisor
                      PROVE  Normal(r) \in Prices
<1>1. r.min \in Int /\ r.modal \in Int /\ r.max \in Int
  BY MarketConstants
<1>2. PriceDivisor[r.unit] \in {1, 100, 1000}
  BY DEF PriceDivisor
<1> QED BY <1>1, <1>2, HalfUpInt DEF Normal, Prices

LEMMA RecordInHand == ASSUME Typed, NEW t \in Calls, next[t] \in 1..Len(batch[t])
                      PROVE  Record(t) \in Records
  BY DEF Typed, Record

LEMMA RecordTime == ASSUME NEW r \in Records PROVE r.at \in Int
  BY MarketConstants DEF Time

LEMMA ObservationRow ==
  ASSUME Typed, NEW t \in Calls, next[t] \in 1..Len(batch[t]),
         mandi[t] \in Mandi, Resolvable(Record(t)), WellFormed(Record(t))
  PROVE  Observation(t) \in Row
<1>1. Record(t) \in Records
  BY RecordInHand
<1>2. Normal(Record(t)) \in Prices
  BY <1>1, NormalPrices DEF WellFormed
<1>3. Record(t).crop \in Crops /\ Record(t).variety \in Varieties
  BY DEF Resolvable, Varieties
<1>4. Record(t).at \in Time
  BY <1>1, RecordTime DEF Time
<1>5. Record(t).source \in {r.source : r \in Records} \union {None}
  BY <1>1
<1> QED BY <1>2, <1>3, <1>4, <1>5 DEF Observation, Row

LEMMA AgeInt == ASSUME NEW at \in Int, NEW asOf \in AsOf
                PROVE  Age(at, asOf) \in Int /\ Age(at, asOf) >= asOf - at
  BY MarketConstants DEF Age, Time

\* How a call may end, and that its answer is one.
LEMMA EndTyped ==
  ASSUME Typed, NEW t \in Calls, NEW mode \in Modes, EndWithout(t, mode)
  PROVE  pc' \in [Calls -> Places] /\ answer' \in [Calls -> Answer \union {None}]
<1>1. [mode |-> mode, row |-> None, age |-> 0] \in Answer
  BY DEF Answer
<1> QED BY <1>1 DEF Typed, EndWithout, Goto, Places

LEMMA DeliverTyped ==
  ASSUME Typed, NEW t \in Calls, NEW mode \in Modes, NEW o \in Row, job[t] \in Job,
         Deliver(t, mode, o)
  PROVE  pc' \in [Calls -> Places] /\ answer' \in [Calls -> Answer \union {None}]
<1>1. CASE EndWithout(t, "UNAVAILABLE")
  BY <1>1, EndTyped DEF Modes
<1>2. CASE /\ Goto(t, "done")
           /\ answer' = [answer EXCEPT ![t] =
                [mode |-> mode, row |-> o, age |-> Age(o.at, job[t].asOf)]]
  <2>1. o.at \in Int /\ job[t].asOf \in AsOf
    BY DEF Row, Time, Job
  <2>2. Age(o.at, job[t].asOf) \in Int
    BY <2>1, AgeInt
  <2>3. [mode |-> mode, row |-> o, age |-> Age(o.at, job[t].asOf)] \in Answer
    BY <2>2 DEF Answer
  <2> QED BY <1>2, <2>3 DEF Typed, Goto, Places
<1> QED BY <1>1, <1>2 DEF Deliver

LEMMA TypedInit == Init => Typed
<1>1. DemoMandi \in Mandi /\ DemoRow \in Row
  BY MarketConstants
<1>2. <<>> \in Seq(Records)
  OBVIOUS
<1> QED BY <1>1, <1>2 DEF Init, Typed, Places

LEMMA TypedStep ==
  ASSUME Typed, NEW t \in Calls, InHand(t), Step(t)
  PROVE  Typed'
<1> USE DEF At
<1>1. CASE Begin(t)
  <2>1. PICK s \in Services, x \in Subjects, m \in mandis \union {None}, time \in AsOf :
          /\ job' = [job EXCEPT ![t] =
               [provider |-> s.provider, demo |-> s.demo, crop |-> x.crop,
                variety |-> x.variety, mandi |-> m, asOf |-> time]]
          /\ Goto(t, IF s.provider THEN "fetch" ELSE "fallback")
    BY <1>1 DEF Begin
  <2>2. s \in Service /\ x \in Subject /\ m \in Mandi \union {None}
    BY MarketConstants DEF Typed
  <2>3. [provider |-> s.provider, demo |-> s.demo, crop |-> x.crop,
         variety |-> x.variety, mandi |-> m, asOf |-> time] \in Job
    BY <2>2 DEF Service, Subject, Job
  <2>4. job' \in [Calls -> Job \union {None}]
    BY <2>1, <2>3 DEF Typed
  <2>5. pc' \in [Calls -> Places]
    BY <2>1 DEF Typed, Goto, Places
  <2> QED BY <1>1, <2>4, <2>5 DEF Begin, Typed, tables, work
<1>2. CASE FetchNothing(t)
  BY <1>2 DEF FetchNothing, Typed, Goto, Places, tables, work
<1>3. CASE Fetch(t)
  <2>1. \A b \in Batches : b \in Seq(Records)
    BY MarketConstants
  <2>2. batch' \in [Calls -> Seq(Records)]
    BY <1>3, <2>1 DEF Fetch, Typed
  <2> QED BY <1>3, <2>2 DEF Fetch, Typed, Goto, Places, tables
<1>4. CASE Resolve(t)
  <2>1. mandi' \in [Calls -> Mandi \union {None}]
    BY <1>4 DEF Resolve, Typed
  <2>2. pc' \in [Calls -> Places] /\ answer' \in [Calls -> Answer \union {None}]
    <3>1. CASE EndWithout(t, "ERROR")
      BY <3>1, EndTyped DEF Modes
    <3>2. CASE (Goto(t, "insert") \/ Goto(t, "upsert")) /\ UNCHANGED answer
      BY <3>2 DEF Typed, Goto, Places
    <3> QED BY <1>4, <3>1, <3>2 DEF Resolve
  <2> QED BY <1>4, <2>1, <2>2 DEF Resolve, Typed, tables
<1>5. CASE UpsertMandi(t)
  <2>1. next[t] \in 1..Len(batch[t])
    BY <1>5 DEF UpsertMandi, InHand, Storing
  <2>2. NewMandi(t) \in Mandi
    BY <2>1, RecordInHand DEF NewMandi, Mandi, Markets
  <2>3. PICK m \in mandis \union {NewMandi(t)} :
          mandis' = mandis \union {m} /\ mandi' = [mandi EXCEPT ![t] = m]
    BY <1>5 DEF UpsertMandi
  <2>4. m \in Mandi
    BY <2>2, <2>3 DEF Typed
  <2>5. mandis' \subseteq Mandi /\ mandi' \in [Calls -> Mandi \union {None}]
    BY <2>3, <2>4 DEF Typed
  <2> QED BY <1>5, <2>5 DEF UpsertMandi, Typed, Goto, Places
<1>6. CASE Insert(t)
  <2>1. CASE ~WellFormed(Record(t))
    <3>1. EndWithout(t, "ERROR") /\ UNCHANGED <<observations, row>>
      BY <1>6, <2>1 DEF Insert
    <3>2. pc' \in [Calls -> Places] /\ answer' \in [Calls -> Answer \union {None}]
      BY <3>1, EndTyped DEF Modes
    <3> QED BY <1>6, <3>1, <3>2 DEF Insert, Typed
  <2>2. CASE WellFormed(Record(t))
    <3>1. Observation(t) \in Row
      BY <1>6, <2>2, ObservationRow DEF Insert, InHand, Storing, Typed
    <3>2. observations' \subseteq Row /\ row' \in [Calls -> Row \union {None}]
      BY <1>6, <2>2, <3>1 DEF Insert, Typed
    <3>3. pc' \in [Calls -> Places] /\ UNCHANGED answer
      BY <1>6, <2>2 DEF Insert, Typed, Goto, Places
    <3> QED BY <1>6, <3>2, <3>3 DEF Insert, Typed
  <2> QED BY <2>1, <2>2
<1>7. CASE ReadExisting(t)
  <2>1. row' \in [Calls -> Row \union {None}]
    BY <1>7 DEF ReadExisting, Typed
  <2>2. pc' \in [Calls -> Places] /\ answer' \in [Calls -> Answer \union {None}]
    <3>1. CASE EndWithout(t, "ERROR")
      BY <3>1, EndTyped DEF Modes
    <3>2. CASE Goto(t, "history") /\ UNCHANGED answer
      BY <3>2 DEF Typed, Goto, Places
    <3> QED BY <1>7, <3>1, <3>2 DEF ReadExisting
  <2> QED BY <1>7, <2>1, <2>2 DEF ReadExisting, Typed, tables
<1>8. CASE StoreHistory(t)
  <2>1. row[t] \in Row
    BY <1>8 DEF StoreHistory, InHand, Typed
  <2>2. Newer(t) \in Row
    BY <2>1 DEF Newer, Typed
  <2>3. newest' \in [Calls -> Row \union {None}]
    BY <1>8, <2>2 DEF StoreHistory, Typed
  <2>4. next' \in [Calls -> Nat \ {0}]
    BY <1>8 DEF StoreHistory, Typed
  <2>5. job[t] \in Job
    BY <1>8 DEF StoreHistory, InHand
  <2>6. pc' \in [Calls -> Places] /\ answer' \in [Calls -> Answer \union {None}]
    <3>1. CASE Deliver(t, "LIVE", Newer(t))
      BY <2>2, <2>5, <3>1, DeliverTyped DEF Modes
    <3>2. CASE (Goto(t, "resolve") \/ Goto(t, "fallback")) /\ UNCHANGED answer
      BY <3>2 DEF Typed, Goto, Places
    <3> QED BY <1>8, <3>1, <3>2 DEF StoreHistory
  <2> QED BY <1>8, <2>3, <2>4, <2>6 DEF StoreHistory, Typed
<1>9. CASE Fallback(t)
  <2>1. job[t] \in Job
    BY <1>9 DEF Fallback, InHand
  <2>2. pc' \in [Calls -> Places] /\ answer' \in [Calls -> Answer \union {None}]
    <3>1. CASE TurnToDemo(t)
      <4>1. CASE EndWithout(t, "UNAVAILABLE")
        BY <4>1, EndTyped DEF Modes
      <4>2. CASE Goto(t, "demo") /\ UNCHANGED answer
        BY <4>2 DEF Typed, Goto, Places
      <4> QED BY <3>1, <4>1, <4>2 DEF TurnToDemo
    <3>2. ASSUME NEW o \in observations, Deliver(t, "CACHED", o)
          PROVE  pc' \in [Calls -> Places] /\ answer' \in [Calls -> Answer \union {None}]
      BY <2>1, <3>2, DeliverTyped DEF Typed, Modes
    <3> QED BY <1>9, <3>1, <3>2 DEF Fallback, Latest, StoredForSubject
  <2> QED BY <1>9, <2>2 DEF Fallback, Typed, tables, work
<1>10. CASE DemoFallback(t)
  <2>1. job[t] \in Job
    BY <1>10 DEF DemoFallback, InHand
  <2>2. pc' \in [Calls -> Places] /\ answer' \in [Calls -> Answer \union {None}]
    <3>1. CASE EndWithout(t, "UNAVAILABLE")
      BY <3>1, EndTyped DEF Modes
    <3>2. ASSUME NEW o \in observations, Deliver(t, "DEMO", o)
          PROVE  pc' \in [Calls -> Places] /\ answer' \in [Calls -> Answer \union {None}]
      BY <2>1, <3>2, DeliverTyped DEF Typed, Modes
    <3> QED BY <1>10, <3>1, <3>2 DEF DemoFallback, Latest, StoredForSubject
  <2> QED BY <1>10, <2>2 DEF DemoFallback, Typed, tables, work
<1>11. CASE Fail(t)
  <2>1. pc' \in [Calls -> Places] /\ answer' \in [Calls -> Answer \union {None}]
    BY <1>11, EndTyped DEF Fail, Modes
  <2> QED BY <1>11, <2>1 DEF Fail, Typed, tables, work
<1> QED BY <1>1, <1>2, <1>3, <1>4, <1>5, <1>6, <1>7, <1>8, <1>9, <1>10, <1>11 DEF Step

-----------------------------------------------------------------------------
(***************************************************************************)
(* The tables grow, and their keys hold.                                   *)
(***************************************************************************)

Grow == /\ mandis \subseteq mandis'
        /\ observations \subseteq observations'
        /\ history \subseteq history'

LEMMA TablesGrow == ASSUME NEW t \in Calls, Step(t) PROVE Grow
<1>1. CASE Begin(t) \/ FetchNothing(t) \/ Fetch(t) \/ Resolve(t) \/ ReadExisting(t)
  BY <1>1 DEF Grow, Begin, FetchNothing, Fetch, Resolve, ReadExisting, tables
<1>2. CASE UpsertMandi(t) \/ Insert(t) \/ StoreHistory(t)
  BY <1>2 DEF Grow, UpsertMandi, Insert, StoreHistory
<1>3. CASE Fallback(t) \/ DemoFallback(t) \/ Fail(t)
  BY <1>3 DEF Grow, Fallback, DemoFallback, Fail, tables
<1> QED BY <1>1, <1>2, <1>3 DEF Step

\* A new observation is one of the record in hand, and has a key of its own.
LEMMA NewObservations ==
  ASSUME NEW t \in Calls, InHand(t), Step(t)
  PROVE  \/ observations' = observations
         \/ /\ pc[t] = "insert" /\ WellFormed(Record(t))
            /\ observations' = observations \union {Observation(t)}
            /\ \A o \in observations : ~SameKey(o, Observation(t))
<1>1. CASE Begin(t) \/ FetchNothing(t) \/ Fetch(t) \/ Resolve(t) \/ ReadExisting(t)
  BY <1>1 DEF Begin, FetchNothing, Fetch, Resolve, ReadExisting, tables
<1>2. CASE UpsertMandi(t) \/ StoreHistory(t)
  BY <1>2 DEF UpsertMandi, StoreHistory
<1>3. CASE Insert(t)
  BY <1>3 DEF Insert, At
<1>4. CASE Fallback(t) \/ DemoFallback(t) \/ Fail(t)
  BY <1>4 DEF Fallback, DemoFallback, Fail, tables
<1> QED BY <1>1, <1>2, <1>3, <1>4 DEF Step

LEMMA TablesInit == Init => TablesInv
<1>1. DemoRow.mandi = DemoMandi
  BY MarketConstants
<1> QED BY <1>1 DEF Init, TablesInv, HistoryRow

LEMMA TablesStep ==
  ASSUME Typed, TablesInv, NEW t \in Calls, InHand(t), Step(t)
  PROVE  TablesInv'
<1>1. \A m, n \in mandis' : m.market = n.market => m = n
  <2>1. CASE mandis' = mandis
    BY <2>1 DEF TablesInv
  <2>2. CASE UpsertMandi(t)
    BY <2>2 DEF UpsertMandi, TablesInv
  <2> QED
    BY <2>1, <2>2 DEF Step, Begin, FetchNothing, Fetch, Resolve, ReadExisting, Insert,
       StoreHistory, Fallback, DemoFallback, Fail, tables
<1>2. Grow
  BY TablesGrow
<1>3. \A o \in observations' : o.mandi \in mandis'
  <2>1. CASE observations' = observations
    BY <1>2, <2>1 DEF TablesInv, Grow
  <2>2. CASE pc[t] = "insert" /\ observations' = observations \union {Observation(t)}
    BY <1>2, <2>2 DEF TablesInv, Grow, InHand, Observation
  <2> QED BY <2>1, <2>2, NewObservations
<1>4. \A o, p \in observations' : SameKey(o, p) => o = p
  <2>1. CASE observations' = observations
    BY <2>1 DEF TablesInv
  <2>2. CASE /\ observations' = observations \union {Observation(t)}
             /\ \A o \in observations : ~SameKey(o, Observation(t))
    BY <2>2 DEF TablesInv, SameKey
  <2> QED BY <2>1, <2>2, NewObservations
<1>5. \A h \in history' : h = HistoryRow(h.of) /\ h.of \in observations'
  <2>1. CASE history' = history
    BY <1>2, <2>1 DEF TablesInv, Grow
  <2>2. CASE StoreHistory(t)
    <3>1. row[t] \in observations
      BY <2>2 DEF StoreHistory, At, InHand
    <3>2. \A h \in history' : h \in history \/ h = HistoryRow(row[t])
      BY <2>2 DEF StoreHistory
    <3>3. HistoryRow(row[t]).of = row[t]
      BY DEF HistoryRow
    <3> QED BY <1>2, <3>1, <3>2, <3>3 DEF TablesInv, Grow
  <2> QED
    BY <2>1, <2>2 DEF Step, Begin, FetchNothing, Fetch, Resolve, ReadExisting, Insert,
       UpsertMandi, Fallback, DemoFallback, Fail, tables
<1> QED BY <1>1, <1>3, <1>4, <1>5 DEF TablesInv

\* A record is stored once, because its market has one mandi.
LEMMA StoredOnce ==
  ASSUME TablesInv, NEW r, NEW o \in observations, NEW p \in observations,
         IsOf(o, r), IsOf(p, r)
  PROVE  o = p
  BY DEF TablesInv, IsOf, SameKey

-----------------------------------------------------------------------------
(***************************************************************************)
(* What other calls do leaves a call's own invariant true.                 *)
(***************************************************************************)

Same(u) ==
  /\ pc'[u] = pc[u] /\ job'[u] = job[u] /\ batch'[u] = batch[u] /\ next'[u] = next[u]
  /\ mandi'[u] = mandi[u] /\ row'[u] = row[u] /\ newest'[u] = newest[u]
  /\ answer'[u] = answer[u] /\ known'[u] = known[u]

LEMMA OthersStay ==
  ASSUME Typed, NEW t \in Calls, NEW u \in Calls, u # t, Step(t)
  PROVE  Same(u)
<1> USE DEF Typed, Same, Goto, EndWithout, Deliver, tables, work
<1>1. CASE Begin(t)
  BY <1>1 DEF Begin
<1>2. CASE FetchNothing(t) \/ Fetch(t) \/ Resolve(t)
  BY <1>2 DEF FetchNothing, Fetch, Resolve
<1>3. CASE UpsertMandi(t) \/ Insert(t)
  BY <1>3 DEF UpsertMandi, Insert
<1>4. CASE ReadExisting(t)
  BY <1>4 DEF ReadExisting
<1>5. CASE StoreHistory(t)
  BY <1>5 DEF StoreHistory
<1>6. CASE Fallback(t)
  BY <1>6 DEF Fallback, TurnToDemo
<1>7. CASE DemoFallback(t) \/ Fail(t)
  BY <1>7 DEF DemoFallback, Fail
<1> QED BY <1>1, <1>2, <1>3, <1>4, <1>5, <1>6, <1>7 DEF Step

\* An observation of a record that was kept already is no new one.
LEMMA NothingNewMatters ==
  ASSUME Typed, TablesInv', Grow, NEW u \in Calls, Same(u), Whole(u),
         known[u] \subseteq observations, NEW o \in observations', Matters(u, o)'
  PROVE  o \in observations /\ Matters(u, o)
<1>1. Usable(u, o) /\ known'[u] = known[u] /\ batch'[u] = batch[u]
  BY DEF Matters, Usable, Same
<1>2. CASE o \in known[u]
  BY <1>1, <1>2 DEF Matters
<1>3. ASSUME NEW i \in 1..Len(batch[u]), IsOf(o, batch[u][i])
      PROVE  o \in observations /\ Matters(u, o)
  <2>1. PICK p \in observations : IsOf(p, batch[u][i])
    BY <1>3 DEF Whole, Kept
  <2>2. p \in observations'
    BY <2>1 DEF Grow
  <2>3. o = p
    BY <1>3, <2>1, <2>2 DEF TablesInv, IsOf, SameKey
  <2> QED BY <1>1, <1>3, <2>1, <2>3 DEF Matters
<1> QED BY <1>1, <1>2, <1>3 DEF Matters

LEMMA CallStays ==
  ASSUME Typed, TablesInv', Grow, NEW u \in Calls, Same(u), CallInv(u)
  PROVE  CallInv(u)'
<1>1. Record(u)' = Record(u)
  BY DEF Same, Record
<1>2. InHand(u)'
  BY <1>1 DEF CallInv, InHand, Same, Grow
<1>3. Behind(u)'
  <2>1. ASSUME pc[u] \in Storing
        PROVE  \A i \in 1..(next'[u] - 1) : Kept(batch[u][i])'
    BY <2>1 DEF CallInv, Behind, Kept, Same, Grow
  <2>2. ASSUME pc[u] \in Storing, next[u] > 1 PROVE IsNewest(u, next[u] - 1)'
    BY <2>2 DEF CallInv, Behind, IsNewest, Same, Grow
  <2>3. pc'[u] \in {"idle", "fetch"} => newest'[u] = None
    BY DEF CallInv, Behind, Same
  <2>4. pc'[u] \in Storing /\ next'[u] = 1 => newest'[u] = None
    BY DEF CallInv, Behind, Same
  <2> QED BY <2>1, <2>2, <2>3, <2>4 DEF Behind, Same, IsNewest
<1>4. Whole(u) => Whole(u)'
  <2> SUFFICES ASSUME Whole(u), NEW i \in 1..Len(batch[u]) PROVE Kept(batch[u][i])'
    BY DEF Whole, Same, Kept
  <2>1. Kept(batch[u][i])
    BY DEF Whole
  <2> QED BY <2>1 DEF Kept, Same, Grow
<1>5. ASSUME NEW o \in observations', Matters(u, o)', Whole(u)
      PROVE  o \in observations /\ Matters(u, o)
  BY <1>5, NothingNewMatters DEF CallInv, Falling
<1>6. Falling(u)'
  BY <1>4, <1>5 DEF CallInv, Falling, Same, Grow
<1>7. Best(u)'
  BY <1>5 DEF CallInv, Best, Falling, Same
<1>8. Honest(u)'
  BY DEF CallInv, Honest, Same, Grow, Usable
<1> QED BY <1>2, <1>3, <1>6, <1>7, <1>8 DEF CallInv

-----------------------------------------------------------------------------
(***************************************************************************)
(* A call's own steps.                                                     *)
(***************************************************************************)

LEMMA ErrorEnds ==
  ASSUME Typed, NEW t \in Calls, CallInv(t), pc[t] # "idle", Grow,
         EndWithout(t, "ERROR"), UNCHANGED <<job, known>>
  PROVE  CallInv(t)'
<1>1. pc'[t] = "done" /\ answer'[t] = [mode |-> "ERROR", row |-> None, age |-> 0]
  BY DEF EndWithout, Goto, Typed
<1>2. InHand(t)'
  BY <1>1 DEF CallInv, InHand, Storing
<1>3. Behind(t)'
  BY <1>1 DEF Behind, Storing
<1>4. Falling(t)'
  BY <1>1 DEF CallInv, Falling, Grow
<1>5. Best(t)' /\ Honest(t)'
  BY <1>1 DEF Best, Honest
<1> QED BY <1>2, <1>3, <1>4, <1>5 DEF CallInv

\* As long as there is no answer, nothing is claimed of one.
LEMMA NoAnswerYet ==
  ASSUME NEW t \in Calls, answer'[t] = None
  PROVE  Best(t)' /\ Honest(t)'
  BY DEF Best, Honest

LEMMA AnswersLast ==
  ASSUME NEW t \in Calls, CallInv(t), pc[t] # "done"
  PROVE  answer[t] = None
  BY DEF CallInv, Falling

LEMMA BeginStep ==
  ASSUME Typed, NEW t \in Calls, CallInv(t), Begin(t)
  PROVE  CallInv(t)'
<1>1. PICK s \in Services, x \in Subjects, m \in mandis \union {None}, time \in AsOf :
        /\ job' = [job EXCEPT ![t] =
             [provider |-> s.provider, demo |-> s.demo, crop |-> x.crop,
              variety |-> x.variety, mandi |-> m, asOf |-> time]]
        /\ Goto(t, IF s.provider THEN "fetch" ELSE "fallback")
  BY DEF Begin
<1>2. s \in Service /\ x \in Subject /\ m \in Mandi \union {None}
  BY MarketConstants DEF Typed
<1>3. job'[t] \in Job
  BY <1>1, <1>2 DEF Service, Subject, Job, Typed
<1>4. pc[t] = "idle" /\ pc'[t] \in {"fetch", "fallback"}
  BY <1>1 DEF Begin, At, Goto, Typed
<1>5. batch[t] = <<>> /\ next[t] = 1 /\ newest[t] = None /\ answer[t] = None
  BY <1>4 DEF CallInv, InHand, Behind, Falling
<1>6. /\ known'[t] = observations /\ UNCHANGED <<tables, work, answer>>
  BY DEF Begin, Typed
<1>7. InHand(t)' /\ Behind(t)'
  BY <1>3, <1>4, <1>5, <1>6 DEF InHand, Behind, Storing, work
<1>8. Whole(t)'
  BY <1>5, <1>6 DEF Whole, work
<1>9. Falling(t)'
  BY <1>4, <1>5, <1>6, <1>8 DEF Falling, tables
<1> QED BY <1>5, <1>6, <1>7, <1>9, NoAnswerYet DEF CallInv

LEMMA FetchStep ==
  ASSUME Typed, NEW t \in Calls, CallInv(t), FetchNothing(t) \/ Fetch(t)
  PROVE  CallInv(t)'
<1>1. pc[t] = "fetch" /\ answer[t] = None /\ UNCHANGED <<tables, job, known, answer>>
  BY AnswersLast DEF FetchNothing, Fetch, At
<1>2. batch[t] = <<>> /\ next[t] = 1 /\ newest[t] = None /\ job[t] \in Job
  BY <1>1 DEF CallInv, InHand, Behind
<1>3. CASE FetchNothing(t)
  <2>1. pc'[t] = "fallback" /\ UNCHANGED work
    BY <1>3 DEF FetchNothing, Goto, Typed
  <2>2. Whole(t)'
    BY <1>2, <2>1 DEF Whole, work
  <2> QED
    BY <1>1, <1>2, <2>1, <2>2, NoAnswerYet DEF CallInv, InHand, Behind, Falling, Storing,
       work, tables
<1>4. CASE Fetch(t)
  <2>1. PICK b \in Batches : b # <<>> /\ batch' = [batch EXCEPT ![t] = b]
    BY <1>4 DEF Fetch
  <2>2. b \in Seq(Records) /\ batch'[t] = b
    BY <2>1, MarketConstants DEF Typed
  <2>3. 1 \in 1..Len(b)
    BY <2>1, <2>2
  <2>4. pc'[t] = "resolve" /\ UNCHANGED <<next, newest>>
    BY <1>4 DEF Fetch, Goto, Typed
  <2>5. InHand(t)'
    BY <1>1, <1>2, <2>2, <2>3, <2>4 DEF InHand, Storing
  <2>6. Behind(t)'
    BY <1>1, <1>2, <2>2, <2>4 DEF Behind, Storing
  <2>7. Falling(t)'
    BY <1>1, <2>4 DEF CallInv, Falling, tables
  <2> QED BY <1>1, <2>5, <2>6, <2>7, NoAnswerYet DEF CallInv
<1> QED BY <1>3, <1>4

\* What follows when a call goes on with the record in hand.
LEMMA StillInHand ==
  ASSUME Typed, NEW t \in Calls, CallInv(t), pc[t] \in Storing, pc'[t] \in Storing,
         Grow, UNCHANGED <<job, batch, next, newest, answer, known>>, InHand(t)'
  PROVE  CallInv(t)'
<1>1. pc[t] # "done" /\ pc[t] \notin {"idle", "fetch"} /\ pc'[t] \notin {"done", "fallback", "demo"}
  BY DEF Storing
<1>2. answer[t] = None
  BY <1>1, AnswersLast
<1>3. \A i \in 1..(next'[t] - 1) : Kept(batch[t][i])'
  BY DEF CallInv, Behind, Kept, Grow
<1>4. Behind(t)'
  BY <1>3, <1>1 DEF CallInv, Behind, IsNewest, Grow, Storing
<1>5. Falling(t)'
  BY <1>1, <1>2 DEF CallInv, Falling, Grow
<1> QED BY <1>2, <1>4, <1>5, NoAnswerYet DEF CallInv

LEMMA ResolveStep ==
  ASSUME Typed, NEW t \in Calls, CallInv(t), Grow, Resolve(t)
  PROVE  CallInv(t)'
<1>1. pc[t] = "resolve" /\ UNCHANGED <<tables, job, batch, next, row, newest, known>>
  BY DEF Resolve, At
<1>2. CASE EndWithout(t, "ERROR")
  BY <1>1, <1>2, ErrorEnds
<1>3. CASE Resolvable(Record(t)) /\ UNCHANGED answer
  <2>1. Record(t)' = Record(t)
    BY <1>1 DEF Record
  <2>2. /\ pc'[t] \in {"insert", "upsert"}
        /\ pc'[t] = "insert" => mandi'[t] \in mandis /\ mandi'[t].market = Record(t).market
    BY <1>3 DEF Resolve, Goto, Typed
  <2>3. InHand(t)'
    BY <1>1, <1>3, <2>1, <2>2 DEF CallInv, InHand, Storing, tables
  <2> QED BY <1>1, <1>3, <2>2, <2>3, StillInHand DEF Storing
<1> QED BY <1>2, <1>3 DEF Resolve

LEMMA UpsertStep ==
  ASSUME Typed, NEW t \in Calls, CallInv(t), Grow, UpsertMandi(t)
  PROVE  CallInv(t)'
<1>1. /\ pc[t] = "upsert"
      /\ UNCHANGED <<observations, history, job, batch, next, row, newest, answer, known>>
  BY DEF UpsertMandi, At
<1>2. pc'[t] = "insert" /\ mandi'[t] \in mandis' /\ mandi'[t].market = Record(t).market
  BY DEF UpsertMandi, Goto, Typed
<1>3. Record(t)' = Record(t)
  BY <1>1 DEF Record
<1>4. InHand(t)'
  BY <1>1, <1>2, <1>3 DEF CallInv, InHand, Storing
<1> QED BY <1>1, <1>2, <1>4, StillInHand DEF Storing

\* What is stored for the record in hand, or has its key, is of this record.
LEMMA ObservationIsOf ==
  ASSUME NEW t \in Calls, mandi[t].market = Record(t).market
  PROVE  /\ IsOf(Observation(t), Record(t))
         /\ Observation(t).prices = Normal(Record(t))
         /\ \A o : SameKey(o, Observation(t)) => IsOf(o, Record(t))
  BY DEF Observation, IsOf, SameKey

LEMMA InsertStep ==
  ASSUME Typed, NEW t \in Calls, CallInv(t), Grow, Insert(t)
  PROVE  CallInv(t)'
<1>1. /\ pc[t] = "insert"
      /\ UNCHANGED <<mandis, history, job, batch, next, mandi, newest, known>>
  BY DEF Insert, At
<1>2. CASE EndWithout(t, "ERROR")
  BY <1>1, <1>2, ErrorEnds
<1>3. CASE WellFormed(Record(t)) /\ UNCHANGED answer
  <2>1. Record(t)' = Record(t) /\ Normal(Record(t)') = Normal(Record(t))
    BY <1>1 DEF Record
  <2>2. mandi[t] \in mandis /\ mandi[t].market = Record(t).market
    BY <1>1 DEF CallInv, InHand
  <2>3. pc'[t] \in {"history", "existing"}
    BY <1>1, <1>3 DEF Insert, Goto, Typed, EndWithout
  <2>4. pc'[t] = "history" =>
          row'[t] = Observation(t) /\ Observation(t) \in observations'
    BY <1>1, <1>3 DEF Insert, Goto, Typed, EndWithout
  <2>5. pc'[t] = "history" => /\ row'[t] \in observations'
                              /\ IsOf(row'[t], Record(t))
                              /\ row'[t].prices = Normal(Record(t))
    BY <2>2, <2>4, ObservationIsOf
  <2>6. InHand(t)'
    BY <1>1, <1>3, <2>1, <2>2, <2>3, <2>5 DEF CallInv, InHand, Storing
  <2> QED BY <1>1, <1>3, <2>3, <2>6, StillInHand DEF Storing
<1> QED BY <1>2, <1>3 DEF Insert

LEMMA ExistingStep ==
  ASSUME Typed, NEW t \in Calls, CallInv(t), Grow, ReadExisting(t)
  PROVE  CallInv(t)'
<1>1. /\ pc[t] = "existing"
      /\ UNCHANGED <<tables, job, batch, next, mandi, newest, known>>
  BY DEF ReadExisting, At
<1>2. CASE EndWithout(t, "ERROR")
  BY <1>1, <1>2, ErrorEnds
<1>3. CASE ~EndWithout(t, "ERROR")
  <2>1. PICK o \in observations : /\ SameKey(o, Observation(t))
                                  /\ o.prices = Observation(t).prices
                                  /\ row' = [row EXCEPT ![t] = o]
                                  /\ Goto(t, "history") /\ UNCHANGED answer
    BY <1>3 DEF ReadExisting
  <2>2. mandi[t] \in mandis /\ mandi[t].market = Record(t).market
    BY <1>1 DEF CallInv, InHand
  <2>3. pc'[t] = "history" /\ row'[t] = o
    BY <2>1 DEF Goto, Typed
  <2>4. IsOf(o, Record(t)) /\ o.prices = Normal(Record(t))
    BY <2>1, <2>2, ObservationIsOf
  <2>5. Record(t)' = Record(t)
    BY <1>1 DEF Record
  <2>6. InHand(t)'
    BY <1>1, <2>2, <2>3, <2>4, <2>5 DEF CallInv, InHand, Storing, tables
  <2> QED BY <1>1, <2>1, <2>3, <2>6, StillInHand DEF Storing
<1> QED BY <1>2, <1>3

LEMMA StoreHistoryStep ==
  ASSUME Typed, TablesInv, NEW t \in Calls, CallInv(t), Grow, StoreHistory(t)
  PROVE  CallInv(t)'
<1>1. /\ pc[t] = "history"
      /\ UNCHANGED <<mandis, observations, job, batch, mandi, row, known>>
  BY DEF StoreHistory, At
<1>2. /\ row[t] \in observations /\ IsOf(row[t], Record(t))
      /\ row[t].prices = Normal(Record(t))
      /\ next[t] \in 1..Len(batch[t]) /\ job[t] \in Job
  BY <1>1 DEF CallInv, InHand, Storing
<1>3. Len(batch[t]) \in Nat /\ next[t] \in Nat \ {0}
  BY DEF Typed
<1>4. HistoryRow(row[t]) \in history'
  <2>1. CASE \E g \in history : g.of = row[t]
    BY <2>1, <1>2 DEF TablesInv, StoreHistory
  <2>2. CASE \A g \in history : g.of # row[t]
    BY <2>2 DEF StoreHistory
  <2> QED BY <2>1, <2>2
<1>5. \A i \in 1..next[t] : Kept(batch[t][i])'
  <2> SUFFICES ASSUME NEW i \in 1..next[t] PROVE Kept(batch[t][i])'
    OBVIOUS
  <2>1. CASE i = next[t]
    BY <1>1, <1>2, <1>4, <2>1 DEF Kept, Record
  <2>2. CASE i # next[t]
    <3>1. i \in 1..(next[t] - 1)
      BY <1>3, <2>2
    <3>2. Kept(batch[t][i])
      BY <1>1, <3>1 DEF CallInv, Behind, Storing
    <3> QED BY <1>1, <3>2 DEF Kept, Grow
  <2> QED BY <2>1, <2>2
<1>6. /\ Newer(t) \in observations
      /\ \E i \in 1..next[t] : IsOf(Newer(t), batch[t][i])
      /\ \A i \in 1..next[t] : batch[t][i].at <= Newer(t).at
  <2>1. row[t].at = batch[t][next[t]].at /\ IsOf(row[t], batch[t][next[t]])
    BY <1>2 DEF IsOf, Record
  <2>2. next[t] = 1 => newest[t] = None
    BY <1>1 DEF CallInv, Behind, Storing
  <2>3. next[t] > 1 => IsNewest(t, next[t] - 1)
    BY <1>1 DEF CallInv, Behind, Storing
  <2>4. \A o \in observations : o.at \in Int
    BY DEF Typed, Row, Time
  <2>5. \A i \in 1..next[t] : batch[t][i] \in Records /\ batch[t][i].at \in Int
    <3>1. \A i \in 1..next[t] : batch[t][i] \in Records
      BY <1>2, <1>3 DEF Typed
    <3> QED BY <3>1, RecordTime
  <2>6. next[t] \in 1..next[t] /\ \A i \in 1..next[t] : i = next[t] \/ i \in 1..(next[t] - 1)
    BY <1>3
  <2>7. CASE next[t] = 1
    BY <1>2, <2>1, <2>2, <2>5, <2>7 DEF Newer
  <2>8. CASE next[t] > 1
    <3>1. newest[t] # None
      BY <2>3, <2>8, MarketConstants DEF IsNewest, Typed
    <3>2. newest[t] \in observations
      BY <2>3, <2>8 DEF IsNewest
    <3>3. PICK k \in 1..(next[t] - 1) : IsOf(newest[t], batch[t][k])
      BY <2>3, <2>8 DEF IsNewest
    <3>4. \A i \in 1..(next[t] - 1) : batch[t][i].at <= newest[t].at
      BY <2>3, <2>8 DEF IsNewest
    <3>5. k \in 1..next[t]
      BY <1>3
    <3>6. CASE newest[t].at < row[t].at
      <4>1. Newer(t) = row[t]
        BY <3>6 DEF Newer
      <4>2. \A i \in 1..(next[t] - 1) : batch[t][i].at <= row[t].at
        BY <1>2, <1>3, <2>4, <2>5, <3>2, <3>4, <3>6
      <4> QED BY <1>2, <2>1, <2>4, <2>6, <4>1, <4>2
    <3>7. CASE ~(newest[t].at < row[t].at)
      <4>1. Newer(t) = newest[t]
        BY <3>1, <3>7 DEF Newer
      <4>2. row[t].at <= newest[t].at
        BY <1>2, <2>4, <3>2, <3>7
      <4> QED BY <2>1, <2>6, <3>2, <3>3, <3>4, <3>5, <4>1, <4>2
    <3> QED BY <3>6, <3>7
  <2> QED BY <1>3, <2>7, <2>8
<1>7. newest'[t] = Newer(t)
  BY DEF StoreHistory, Typed
<1>8. answer[t] = None
  BY <1>1, AnswersLast
<1>9. CASE next[t] < Len(batch[t]) /\ next' = [next EXCEPT ![t] = @ + 1] /\ UNCHANGED answer
  <2>1. pc'[t] = "resolve"
    BY <1>9 DEF StoreHistory, Goto, Typed
  <2>2. next'[t] = next[t] + 1
    BY <1>9 DEF Typed
  <2>3. InHand(t)'
    BY <1>1, <1>2, <1>3, <1>9, <2>1, <2>2 DEF InHand, Storing
  <2>4. \A i \in 1..(next'[t] - 1) : Kept(batch[t][i])'
    BY <1>3, <1>5, <2>2
  <2>5. next'[t] > 1 /\ next'[t] # 1 /\ next'[t] - 1 = next[t]
    BY <1>3, <2>2
  <2>6. IsNewest(t, next[t] - 1)'
    BY <1>1, <1>6, <1>7, <2>5 DEF IsNewest
  <2>7. Behind(t)'
    BY <2>1, <2>4, <2>5, <2>6 DEF Behind
  <2>8. Falling(t)'
    BY <1>1, <1>8, <1>9, <2>1 DEF CallInv, Falling
  <2> QED BY <1>8, <1>9, <2>3, <2>7, <2>8, NoAnswerYet DEF CallInv
<1>10. CASE next[t] = Len(batch[t])
  <2>1. Whole(t)'
    BY <1>1, <1>5, <1>10 DEF Whole
  <2>2. CASE pc'[t] = "fallback" /\ UNCHANGED answer
    BY <1>1, <1>2, <1>8, <2>1, <2>2, NoAnswerYet DEF CallInv, InHand, Behind, Falling, Storing
  <2>3. CASE IsFresh(Newer(t), job[t].asOf) /\ Deliver(t, "LIVE", Newer(t))
    <3>1. Newer(t).mode = "LIVE" /\ Newer(t).at \in Int
      BY <1>6 DEF IsOf, Typed, Row, Time
    <3>2. /\ pc'[t] = "done"
          /\ answer'[t] = [mode |-> "LIVE", row |-> Newer(t),
                           age |-> Age(Newer(t).at, job[t].asOf)]
      BY <2>3, <3>1 DEF Deliver, Goto, Typed
    <3>3. job[t].asOf \in AsOf /\ job[t].asOf \in Int
      BY <1>2, MarketConstants DEF Job, Time
    <3>4. Age(Newer(t).at, job[t].asOf) >= job[t].asOf - Newer(t).at
      BY <3>1, <3>3, AgeInt
    <3>5. job[t].asOf - Newer(t).at <= LiveAge
      BY <2>3, <3>1, <3>3, MarketConstants DEF IsFresh, Age
    <3>6. InHand(t)' /\ Behind(t)'
      BY <1>1, <1>2, <3>2 DEF InHand, Behind, Storing
    <3>7. Falling(t)'
      BY <1>1, <2>1, <3>2 DEF CallInv, Falling
    <3>8. Best(t)'
      BY <3>2 DEF Best
    <3>9. Honest(t)'
      BY <1>1, <1>6, <1>10, <3>2, <3>4, <3>5 DEF Honest
    <3> QED BY <3>6, <3>7, <3>8, <3>9 DEF CallInv
  <2>4. (pc'[t] = "fallback" /\ UNCHANGED answer)
          \/ (IsFresh(Newer(t), job[t].asOf) /\ Deliver(t, "LIVE", Newer(t)))
    BY <1>3, <1>10 DEF StoreHistory, Goto, Typed
  <2> QED BY <2>2, <2>3, <2>4
<1> QED BY <1>9, <1>10 DEF StoreHistory

\* When the fallback has found nothing, nothing matters that is there.
LEMMA NothingMatters ==
  ASSUME Typed, NEW t \in Calls, job[t] \in Job,
         \/ StoredForSubject(t, "LIVE") = {}
         \/ \E o \in Latest(StoredForSubject(t, "LIVE")) : ~NotStale(o, job[t].asOf)
  PROVE  \A p \in observations : ~Usable(t, p)
<1> SUFFICES ASSUME NEW p \in observations, Usable(t, p) PROVE FALSE
  OBVIOUS
<1>1. p \in StoredForSubject(t, "LIVE")
  BY DEF Usable, StoredForSubject
<1>2. PICK o \in Latest(StoredForSubject(t, "LIVE")) : ~NotStale(o, job[t].asOf)
  BY <1>1
<1>3. o \in observations /\ o.mode = "LIVE" /\ o.at <= job[t].asOf /\ p.at <= o.at
  BY <1>1, <1>2 DEF Latest, StoredForSubject
<1>4. o.at \in Int /\ p.at \in Int /\ job[t].asOf \in Int
  BY <1>3, MarketConstants DEF Typed, Row, Time, Job
<1>5. job[t].asOf - p.at <= CacheAge
  BY DEF Usable
<1>6. Age(o.at, job[t].asOf) <= CacheAge
  BY <1>3, <1>4, <1>5, MarketConstants DEF Age
<1> QED BY <1>2, <1>3, <1>6 DEF NotStale

\* A call that ends empty-handed after that, or turns to the demo.
LEMMA EmptyHanded ==
  ASSUME Typed, NEW t \in Calls, CallInv(t), pc[t] \in {"fallback", "demo"},
         EndWithout(t, "UNAVAILABLE"), UNCHANGED <<tables, job, work, known>>,
         \A o \in observations : ~Matters(t, o)
  PROVE  CallInv(t)'
<1>1. pc'[t] = "done" /\ answer'[t] = [mode |-> "UNAVAILABLE", row |-> None, age |-> 0]
  BY DEF EndWithout, Goto, Typed
<1>2. Whole(t)'
  BY DEF CallInv, Falling, Whole, Kept, tables, work
<1>3. \A o \in observations' : ~Matters(t, o)'
  BY DEF Matters, Usable, tables, work
<1>4. InHand(t)' /\ Behind(t)'
  BY <1>1 DEF CallInv, InHand, Behind, Storing
<1>5. Falling(t)' /\ Best(t)' /\ Honest(t)'
  BY <1>1, <1>2, <1>3 DEF CallInv, Falling, Best, Honest, tables
<1> QED BY <1>4, <1>5 DEF CallInv

LEMMA FallbackStep ==
  ASSUME Typed, NEW t \in Calls, CallInv(t), Fallback(t)
  PROVE  CallInv(t)'
<1>1. pc[t] = "fallback" /\ UNCHANGED <<tables, job, work, known>>
  BY DEF Fallback, At
<1>2. job[t] \in Job /\ answer[t] = None /\ Whole(t)
  BY <1>1, AnswersLast DEF CallInv, InHand, Falling
<1>3. Whole(t)'
  BY <1>1, <1>2 DEF Whole, Kept, tables, work
<1>4. ASSUME TurnToDemo(t), \A o \in observations : ~Usable(t, o)
      PROVE  CallInv(t)'
  <2>1. \A o \in observations : ~Matters(t, o)
    BY <1>4 DEF Matters
  <2>2. CASE EndWithout(t, "UNAVAILABLE")
    BY <1>1, <2>1, <2>2, EmptyHanded
  <2>3. CASE job[t].demo /\ Goto(t, "demo") /\ UNCHANGED answer
    <3>1. pc'[t] = "demo"
      BY <2>3 DEF Goto, Typed
    <3>2. \A o \in observations' : ~Matters(t, o)'
      BY <1>1, <2>1 DEF Matters, Usable, tables, work
    <3>3. InHand(t)' /\ Behind(t)'
      BY <1>1, <1>2, <3>1 DEF InHand, Behind, Storing
    <3>4. Falling(t)'
      BY <1>1, <1>2, <1>3, <2>3, <3>1, <3>2 DEF CallInv, Falling, tables
    <3> QED BY <1>2, <2>3, <3>3, <3>4, NoAnswerYet DEF CallInv
  <2> QED BY <1>4, <2>2, <2>3 DEF TurnToDemo
<1>5. ASSUME NEW o \in Latest(StoredForSubject(t, "LIVE")), NotStale(o, job[t].asOf),
             Deliver(t, "CACHED", o)
      PROVE  CallInv(t)'
  <2>1. o \in StoredForSubject(t, "LIVE")
    BY <1>5 DEF Latest
  <2>2. /\ pc'[t] = "done"
        /\ answer'[t] = [mode |-> "CACHED", row |-> o, age |-> Age(o.at, job[t].asOf)]
    BY <1>5, <2>1 DEF Deliver, StoredForSubject, Goto, Typed
  <2>3. o \in observations /\ o.at \in Int /\ job[t].asOf \in AsOf /\ job[t].asOf \in Int
    BY <1>2, <2>1, MarketConstants DEF StoredForSubject, Typed, Row, Job, Time
  <2>4. Usable(t, o)
    BY <1>5, <2>1, <2>3 DEF NotStale, Age, StoredForSubject, Usable
  <2>5. Age(o.at, job[t].asOf) >= job[t].asOf - o.at
    BY <2>3, AgeInt
  <2>6. \A p \in observations : Matters(t, p) => p.at <= o.at
    BY <1>5 DEF Latest, Matters, Usable, StoredForSubject
  <2>7. \A p \in observations' : Matters(t, p)' => Matters(t, p)
    BY <1>1 DEF Matters, Usable, tables, work
  <2>8. Usable(t, o)'
    BY <1>1, <2>4 DEF Usable
  <2>9. InHand(t)' /\ Behind(t)'
    BY <1>1, <1>2, <2>2 DEF InHand, Behind, Storing
  <2>10. Falling(t)'
    BY <1>1, <1>3, <2>2 DEF CallInv, Falling, tables
  <2>11. Best(t)'
    BY <1>1, <2>2, <2>6, <2>7 DEF Best, tables
  <2>12. Honest(t)'
    BY <1>1, <2>2, <2>3, <2>5, <2>8 DEF Honest, tables
  <2> QED BY <2>9, <2>10, <2>11, <2>12 DEF CallInv
<1>6. CASE StoredForSubject(t, "LIVE") = {} /\ TurnToDemo(t)
  BY <1>2, <1>4, <1>6, NothingMatters
<1>7. ASSUME NEW o \in Latest(StoredForSubject(t, "LIVE")),
             ~NotStale(o, job[t].asOf), TurnToDemo(t)
      PROVE  CallInv(t)'
  BY <1>2, <1>4, <1>7, NothingMatters
<1> QED BY <1>5, <1>6, <1>7 DEF Fallback

LEMMA DemoFallbackStep ==
  ASSUME Typed, NEW t \in Calls, CallInv(t), DemoFallback(t)
  PROVE  CallInv(t)'
<1>1. pc[t] = "demo" /\ UNCHANGED <<tables, job, work, known>>
  BY DEF DemoFallback, At
<1>2. /\ job[t] \in Job /\ Whole(t) /\ job[t].demo
      /\ \A o \in observations : ~Matters(t, o)
  BY <1>1 DEF CallInv, InHand, Falling
<1>3. Whole(t)'
  BY <1>1, <1>2 DEF Whole, Kept, tables, work
<1>4. CASE EndWithout(t, "UNAVAILABLE")
  BY <1>1, <1>2, <1>4, EmptyHanded
<1>5. ASSUME NEW o \in Latest(StoredForSubject(t, "DEMO")), Deliver(t, "DEMO", o)
      PROVE  CallInv(t)'
  <2>1. o \in observations /\ o.mode = "DEMO"
    BY <1>5 DEF Latest, StoredForSubject
  <2>2. /\ pc'[t] = "done"
        /\ answer'[t] = [mode |-> "DEMO", row |-> o, age |-> Age(o.at, job[t].asOf)]
    BY <1>5 DEF Deliver, Goto, Typed
  <2>3. o.at \in Int /\ job[t].asOf \in AsOf
    BY <1>2, <2>1 DEF Typed, Row, Job, Time
  <2>4. Age(o.at, job[t].asOf) >= job[t].asOf - o.at
    BY <2>3, AgeInt
  <2>5. \A p \in observations' : ~Matters(t, p)'
    BY <1>1, <1>2 DEF Matters, Usable, tables, work
  <2>6. InHand(t)' /\ Behind(t)'
    BY <1>1, <1>2, <2>2 DEF InHand, Behind, Storing
  <2>7. Falling(t)'
    BY <1>1, <1>3, <2>2 DEF CallInv, Falling, tables
  <2>8. Best(t)'
    BY <2>5 DEF Best
  <2>9. Honest(t)'
    BY <1>1, <1>2, <2>1, <2>2, <2>4 DEF Honest, tables
  <2> QED BY <2>6, <2>7, <2>8, <2>9 DEF CallInv
<1> QED BY <1>4, <1>5 DEF DemoFallback

LEMMA OwnStep ==
  ASSUME Typed, TablesInv, NEW t \in Calls, CallInv(t), Step(t)
  PROVE  CallInv(t)'
<1>1. Grow
  BY TablesGrow
<1>2. CASE Fail(t)
  BY <1>1, <1>2, ErrorEnds DEF Fail
<1> QED
  BY <1>1, <1>2, BeginStep, FetchStep, ResolveStep, UpsertStep, InsertStep, ExistingStep,
     StoreHistoryStep, FallbackStep, DemoFallbackStep DEF Step

-----------------------------------------------------------------------------
(***************************************************************************)
(* The inductive invariant, and the theorems.                              *)
(***************************************************************************)

LEMMA CallInit == Init => \A t \in Calls : CallInv(t)
<1> SUFFICES ASSUME Init, NEW t \in Calls PROVE CallInv(t)
  OBVIOUS
<1>1. /\ pc[t] = "idle" /\ batch[t] = <<>> /\ next[t] = 1 /\ newest[t] = None
      /\ answer[t] = None /\ known[t] = {}
  BY DEF Init
<1> QED BY <1>1 DEF CallInv, InHand, Behind, Falling, Best, Honest, Storing

LEMMA IInvInit == Init => IInv
  BY TypedInit, TablesInit, CallInit DEF IInv

LEMMA IInvStep == IInv /\ [Next]_vars => IInv'
<1>1. ASSUME IInv, NEW t \in Calls, Step(t)
      PROVE  IInv'
  <2>1. Typed'
    BY <1>1, TypedStep DEF IInv, CallInv
  <2>2. TablesInv'
    BY <1>1, TablesStep DEF IInv, CallInv
  <2>3. ASSUME NEW u \in Calls PROVE CallInv(u)'
    <3>1. CASE u = t
      BY <1>1, <3>1, OwnStep DEF IInv
    <3>2. CASE u # t
      BY <1>1, <2>2, <3>2, TablesGrow, OthersStay, CallStays DEF IInv
    <3> QED BY <3>1, <3>2
  <2> QED BY <2>1, <2>2, <2>3 DEF IInv
<1>2. ASSUME IInv, UNCHANGED vars
      PROVE  IInv'
  <2>1. Typed' /\ TablesInv'
    BY <1>2 DEF IInv, Typed, TablesInv, vars, tables, work
  <2>2. ASSUME NEW u \in Calls PROVE CallInv(u)'
    <3>1. Same(u) /\ Grow
      BY <1>2 DEF Same, Grow, vars, tables, work
    <3> QED BY <1>2, <2>1, <3>1, CallStays DEF IInv
  <2> QED BY <2>1, <2>2 DEF IInv
<1> QED BY <1>1, <1>2 DEF Next

LEMMA Invariance == Spec => []IInv
  BY IInvInit, IInvStep, PTL DEF Spec

LEMMA BatchDomain == ASSUME Typed, NEW t \in Calls
                     PROVE  DOMAIN batch[t] = 1..Len(batch[t])
  BY DEF Typed

\* The tables and the calls keep the types of the code's columns and values.
THEOREM MarketTypes == Spec => []Typed
<1>1. IInv => Typed
  BY DEF IInv
<1> QED BY <1>1, Invariance, PTL

\* No record of the provider becomes two observations or two rows of history.
THEOREM RecordsOnce == Spec => []RecordsAreStoredOnce
<1>1. IInv => RecordsAreStoredOnce
  <2> SUFFICES ASSUME IInv PROVE RecordsAreStoredOnce
    OBVIOUS
  <2>1. \A r \in Records : \A o, p \in observations : IsOf(o, r) /\ IsOf(p, r) => o = p
    BY StoredOnce DEF IInv
  <2>2. \A g, h \in history : g.of = h.of => g = h
    BY DEF IInv, TablesInv
  <2> QED BY <2>1, <2>2 DEF RecordsAreStoredOnce
<1> QED BY <1>1, Invariance, PTL

\* What is delivered as LIVE has its whole batch stored behind it.
THEOREM BatchIsWhole == Spec => []WholeBatchBehindLive
<1>1. IInv => WholeBatchBehindLive
  <2> SUFFICES ASSUME IInv, NEW t \in Calls, answer[t] # None, answer[t].mode = "LIVE",
                      NEW i \in DOMAIN batch[t]
               PROVE  Kept(batch[t][i])
    BY DEF WholeBatchBehindLive, Kept
  <2>1. Whole(t)
    BY DEF IInv, CallInv, Falling
  <2>2. i \in 1..Len(batch[t])
    BY BatchDomain DEF IInv
  <2> QED BY <2>1, <2>2 DEF Whole
<1> QED BY <1>1, Invariance, PTL

\* A fallback passes over nothing that it knew of or brought itself.
THEOREM FallbackIsBest == Spec => []FallbackTakesTheBest
<1>1. IInv => FallbackTakesTheBest
  <2> SUFFICES ASSUME IInv, NEW t \in Calls, answer[t] # None,
                      answer[t].mode \in {"CACHED", "DEMO", "UNAVAILABLE"},
                      NEW o \in observations, Usable(t, o),
                      o \in known[t] \/ \E i \in DOMAIN batch[t] : IsOf(o, batch[t][i])
               PROVE  answer[t].mode = "CACHED" /\ o.at <= answer[t].row.at
    BY DEF FallbackTakesTheBest
  <2>1. Matters(t, o)
    BY BatchDomain DEF IInv, Matters
  <2>2. Best(t)
    BY DEF IInv, CallInv
  <2> QED BY <2>1, <2>2 DEF Best
<1> QED BY <1>1, Invariance, PTL

\* No observation is shown as fresher or more genuine than it is.
THEOREM DeliveriesAreHonest == Spec => []DeliveryIsHonest
<1>1. IInv => DeliveryIsHonest
  <2> SUFFICES ASSUME IInv PROVE DeliveryIsHonest
    OBVIOUS
  <2>1. \A t \in Calls : Honest(t) /\ DOMAIN batch[t] = 1..Len(batch[t])
    BY BatchDomain DEF IInv, CallInv
  <2> QED BY <2>1 DEF DeliveryIsHonest, Honest
<1> QED BY <1>1, Invariance, PTL

=============================================================================
