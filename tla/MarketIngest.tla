---------------------------- MODULE MarketIngest ----------------------------
(***************************************************************************)
(* The market engine: concurrent calls of MarketService.observe_subject    *)
(* on one database.  A call asks the provider for records, stores each of  *)
(* them with statements that commit one by one, and delivers the newest    *)
(* as LIVE, or else falls back to what is stored: a genuine observation    *)
(* as CACHED, a demo observation as DEMO.                                  *)
(*                                                                         *)
(* A place of a call is the next thing it awaits.  The catalogue of crops  *)
(* and varieties does not change.  Observations and history are append-    *)
(* only (012:131-132).  Times are in units in which the ages are whole.    *)
(***************************************************************************)
EXTENDS Integers, Sequences

CONSTANTS
  Calls,              \* invocations of observe_subject
  Services,           \* configurations of the processes that share the database
  Crops,              \* canonical codes of active crops
  CropOf,             \* variety name -> the crop of the first row of that name
  Subjects,           \* the crop, and the variety or None, that may be asked for
  AsOf,               \* the times that may be asked for
  Batches,            \* what the provider may answer
  DemoMandi, DemoRow, \* the demo's mandi and its observation
  LiveAge, CacheAge,  \* MARKET_LIVE_MAX_AGE_MINUTES, MARKET_CACHE_MAX_AGE_HOURS
  Offset, Day,        \* MARKET_SOURCE_TIMEZONE: its offset, and a day's length
  None

\* INR per kg, quintal and tonne; any other unit or currency is refused.
PriceDivisor == [kg |-> 1, quintal |-> 100, tonne |-> 1000]

Varieties == DOMAIN CropOf \union {None}
Time      == Int
Prices    == [min : Int, modal : Int, max : Int]
Service   == [provider : BOOLEAN, demo : BOOLEAN]
Subject   == [crop : Crops, variety : Varieties]

\* Prices are in paise, those of a record per its unit, and stand for all that
\* the checksum covers but the key does not; `market` is the provider's identity
\* of the mandi and `source` the provider's identity of the record.
Records == UNION {{b[i] : i \in DOMAIN b} : b \in Batches}
Markets == {r.market : r \in Records} \union {DemoMandi.market}
Mandi   == [market : Markets, by : Calls \union {None}]

Row == [mandi : Mandi, crop : Crops, variety : Varieties, at : Time,
        source : {r.source : r \in Records} \union {None},
        prices : Prices, mode : {"LIVE", "DEMO"}]

ASSUME MarketConstants ==
  /\ Services \subseteq Service
  /\ Subjects \subseteq Subject
  /\ \A v \in DOMAIN CropOf : CropOf[v] \in Crops
  /\ None \notin DOMAIN CropOf \union Calls \union Mandi \union Row
  /\ \A b \in Batches : b \in Seq(Records)
  /\ \A r \in Records :
       /\ DOMAIN r = {"crop", "variety", "market", "at", "source", "unit",
                      "min", "modal", "max"}
       /\ r.at \in Time
       /\ {r.min, r.modal, r.max} \subseteq Int
  /\ AsOf \subseteq Time
  /\ DemoMandi \in Mandi /\ DemoMandi.by = None
  /\ DemoRow \in Row /\ DemoRow.mode = "DEMO" /\ DemoRow.mandi = DemoMandi
  /\ LiveAge \in Nat \ {0} /\ CacheAge \in Nat /\ LiveAge <= CacheAge
  /\ Offset \in Int /\ Day \in Nat \ {0}

VARIABLES
  mandis,        \* the rows of mandis
  observations,  \* the rows of mandi_prices
  history,       \* the rows of price_history
  pc,            \* call -> what it awaits next
  job,           \* call -> service, subject and time it was called with
  batch,         \* call -> the records it is storing
  next,          \* call -> the index of the record in hand
  mandi,         \* call -> the mandi of that record
  row,           \* call -> the observation of that record
  newest,        \* call -> the newest observation of the batch so far
  answer,        \* call -> what it returned
  known          \* call -> the observations there were when it began

tables == <<mandis, observations, history>>
work   == <<batch, next, mandi, row, newest>>
vars   == <<tables, pc, job, work, answer, known>>

Places == {"idle", "fetch", "resolve", "upsert", "insert", "existing",
           "history", "fallback", "demo", "done"}
Modes  == {"LIVE", "CACHED", "DEMO", "UNAVAILABLE", "ERROR"}

At(t, place)   == pc[t] = place
Goto(t, place) == pc' = [pc EXCEPT ![t] = place]
Record(t)      == batch[t][next[t]]

-----------------------------------------------------------------------------
(***************************************************************************)
(* Normalisation and freshness.                                            *)
(***************************************************************************)

\* Decimal.quantize with ROUND_HALF_UP: halves go away from zero.
HalfUp(n, d) ==
  IF n >= 0 THEN (2 * n + d) \div (2 * d) ELSE -((d - 2 * n) \div (2 * d))

Normal(r) ==
  LET d == PriceDivisor[r.unit] IN
  [min |-> HalfUp(r.min, d), modal |-> HalfUp(r.modal, d), max |-> HalfUp(r.max, d)]

\* The unit is approved, and the prices pass after they have been rounded.
WellFormed(r) ==
  /\ r.unit \in DOMAIN PriceDivisor
  /\ 0 <= Normal(r).min
  /\ Normal(r).min <= Normal(r).modal /\ Normal(r).modal <= Normal(r).max

\* The crop is active, and the variety, if one is given, is of this crop.
Resolvable(r) ==
  /\ r.crop \in Crops
  /\ r.variety # None => r.variety \in DOMAIN CropOf /\ CropOf[r.variety] = r.crop

\* An observation from the future has the age zero.
Age(at, asOf) == IF asOf < at THEN 0 ELSE asOf - at

IsFresh(o, asOf) == o.mode # "DEMO" /\ Age(o.at, asOf) <= LiveAge

\* Broken: an observation is stale as soon as it is as old as the limit.
NotStaleBelowLimit(o, asOf) == o.mode # "DEMO" /\ Age(o.at, asOf) < CacheAge

NotStale(o, asOf) == o.mode # "DEMO" /\ Age(o.at, asOf) <= CacheAge

HistoryDate(o) == (o.at + Offset) \div Day
HistoryRow(o)  == [of |-> o, date |-> HistoryDate(o), price |-> o.prices.modal]

-----------------------------------------------------------------------------
Init ==
  /\ mandis       = {DemoMandi}
  /\ observations = {DemoRow}
  /\ history      = {HistoryRow(DemoRow)}
  /\ pc     = [t \in Calls |-> "idle"]
  /\ job    = [t \in Calls |-> None]
  /\ batch  = [t \in Calls |-> <<>>]
  /\ next   = [t \in Calls |-> 1]
  /\ mandi  = [t \in Calls |-> None]
  /\ row    = [t \in Calls |-> None]
  /\ newest = [t \in Calls |-> None]
  /\ answer = [t \in Calls |-> None]
  /\ known  = [t \in Calls |-> {}]

(***************************************************************************)
(* How a call ends: with an observation, with none, or with an exception.  *)
(***************************************************************************)

EndWithout(t, mode) ==
  /\ Goto(t, "done")
  /\ answer' = [answer EXCEPT ![t] = [mode |-> mode, row |-> None, age |-> 0]]

\* `_deliver`: a demo observation is only ever delivered as one.
Deliver(t, mode, o) ==
  \/ /\ o.mode = "DEMO" /\ mode # "DEMO"
     /\ EndWithout(t, "UNAVAILABLE")
  \/ /\ o.mode = "DEMO" => mode = "DEMO"
     /\ Goto(t, "done")
     /\ answer' = [answer EXCEPT ![t] =
          [mode |-> mode, row |-> o, age |-> Age(o.at, job[t].asOf)]]

\* A caller may name a mandi, which it can only know from the table.
Begin(t) ==
  /\ At(t, "idle")
  /\ \E s \in Services, x \in Subjects, m \in mandis \union {None}, time \in AsOf :
       /\ job' = [job EXCEPT ![t] =
            [provider |-> s.provider, demo |-> s.demo, crop |-> x.crop,
             variety |-> x.variety, mandi |-> m, asOf |-> time]]
       /\ Goto(t, IF s.provider THEN "fetch" ELSE "fallback")
  /\ known' = [known EXCEPT ![t] = observations]
  /\ UNCHANGED <<tables, work, answer>>

\* An unavailable provider and one that has nothing to say are the same; one
\* that refuses the credentials or sends something else ends the call (Fail).
FetchNothing(t) ==
  /\ At(t, "fetch")
  /\ Goto(t, "fallback")
  /\ UNCHANGED <<tables, job, work, answer, known>>

Fetch(t) ==
  /\ At(t, "fetch")
  /\ \E b \in Batches : b # <<>> /\ batch' = [batch EXCEPT ![t] = b]
  /\ Goto(t, "resolve")
  /\ UNCHANGED <<tables, job, next, mandi, row, newest, answer, known>>

(***************************************************************************)
(* _normalize_and_persist, for the record in hand.                         *)
(***************************************************************************)

\* resolve_crop, resolve_variety, validate_crop_variety and resolve_mandi.
Resolve(t) ==
  /\ At(t, "resolve")
  /\ \/ /\ ~Resolvable(Record(t))
        /\ EndWithout(t, "ERROR")
        /\ UNCHANGED mandi
     \/ /\ Resolvable(Record(t))
        /\ \/ /\ \E m \in mandis : /\ m.market = Record(t).market
                                   /\ mandi' = [mandi EXCEPT ![t] = m]
              /\ Goto(t, "insert")
           \/ /\ \A m \in mandis : m.market # Record(t).market
              /\ Goto(t, "upsert")
              /\ UNCHANGED mandi
        /\ UNCHANGED answer
  /\ UNCHANGED <<tables, job, batch, next, row, newest, known>>

NewMandi(t) == [market |-> Record(t).market, by |-> t]

\* Broken: a plain INSERT, as before the unique index of migration 019.
UpsertMandiPlainInsert(t) ==
  /\ At(t, "upsert")
  /\ mandis' = mandis \union {NewMandi(t)}
  /\ mandi'  = [mandi EXCEPT ![t] = NewMandi(t)]
  /\ Goto(t, "insert")
  /\ UNCHANGED <<observations, history, job, batch, next, row, newest, answer, known>>

\* INSERT ... ON CONFLICT DO UPDATE ... RETURNING id: another call may have
\* inserted the mandi since it was looked for, and then its row is returned.
UpsertMandi(t) ==
  /\ At(t, "upsert")
  /\ \E m \in mandis \union {NewMandi(t)} :
       /\ m.market = Record(t).market
       /\ m = NewMandi(t) => \A x \in mandis : x.market # m.market
       /\ mandis' = mandis \union {m}
       /\ mandi'  = [mandi EXCEPT ![t] = m]
  /\ Goto(t, "insert")
  /\ UNCHANGED <<observations, history, job, batch, next, row, newest, answer, known>>

Observation(t) ==
  LET r == Record(t) IN
  [mandi |-> mandi[t], crop |-> r.crop, variety |-> r.variety, at |-> r.at,
   source |-> r.source, prices |-> Normal(r), mode |-> "LIVE"]

\* The unique key of mandi_prices, in which nulls are not distinct; `mode`
\* stands for source_name, as there is one provider beside the demo.
SameKey(o, p) ==
  /\ o.mandi = p.mandi /\ o.crop = p.crop /\ o.variety = p.variety
  /\ o.at = p.at /\ o.source = p.source /\ o.mode = p.mode

\* normalize_record, then INSERT ... ON CONFLICT DO NOTHING RETURNING *.
Insert(t) ==
  /\ At(t, "insert")
  /\ \/ /\ ~WellFormed(Record(t))
        /\ EndWithout(t, "ERROR")
        /\ UNCHANGED <<observations, row>>
     \/ /\ WellFormed(Record(t))
        /\ \A o \in observations : ~SameKey(o, Observation(t))
        /\ observations' = observations \union {Observation(t)}
        /\ row' = [row EXCEPT ![t] = Observation(t)]
        /\ Goto(t, "history")
        /\ UNCHANGED answer
     \/ /\ WellFormed(Record(t))
        /\ \E o \in observations : SameKey(o, Observation(t))
        /\ Goto(t, "existing")
        /\ UNCHANGED <<observations, row, answer>>
  /\ UNCHANGED <<mandis, history, job, batch, next, mandi, newest, known>>

\* Broken: whatever is stored under the record's key is taken for it.
ReadExistingUnchecked(t) ==
  /\ At(t, "existing")
  /\ \E o \in observations : /\ SameKey(o, Observation(t))
                             /\ row' = [row EXCEPT ![t] = o]
  /\ Goto(t, "history")
  /\ UNCHANGED <<tables, job, batch, next, mandi, newest, answer, known>>

\* The row that was in the way is read, and its checksum compared.
ReadExisting(t) ==
  /\ At(t, "existing")
  /\ \E o \in observations :
       /\ SameKey(o, Observation(t))
       /\ \/ /\ o.prices = Observation(t).prices
             /\ row' = [row EXCEPT ![t] = o]
             /\ Goto(t, "history")
             /\ UNCHANGED answer
          \/ /\ o.prices # Observation(t).prices
             /\ EndWithout(t, "ERROR")
             /\ UNCHANGED row
  /\ UNCHANGED <<tables, job, batch, next, mandi, newest, known>>

Newer(t) == IF newest[t] = None \/ newest[t].at < row[t].at THEN row[t] ELSE newest[t]

\* create_history, and what follows it up to the next await: the next record,
\* or the choice between LIVE and the fallback.
StoreHistory(t) ==
  /\ At(t, "history")
  /\ history' = history \union
       {h \in {HistoryRow(row[t])} : \A g \in history : g.of # row[t]}
  /\ newest' = [newest EXCEPT ![t] = Newer(t)]
  /\ \/ /\ next[t] < Len(batch[t])
        /\ next' = [next EXCEPT ![t] = @ + 1]
        /\ Goto(t, "resolve")
        /\ UNCHANGED answer
     \/ /\ next[t] = Len(batch[t])
        /\ \/ IsFresh(Newer(t), job[t].asOf) /\ Deliver(t, "LIVE", Newer(t))
           \/ /\ ~IsFresh(Newer(t), job[t].asOf)
              /\ Goto(t, "fallback")
              /\ UNCHANGED answer
        /\ UNCHANGED next
  /\ UNCHANGED <<mandis, observations, job, batch, mandi, row, known>>

(***************************************************************************)
(* The fallback.  Of several newest rows, ids decide, which are random.    *)
(***************************************************************************)

\* Broken: the time that is asked for does not bound the observations.
StoredForSubjectAnyTime(t, mode) ==
  {o \in observations : /\ o.mode = mode
                        /\ o.crop = job[t].crop
                        /\ job[t].variety # None => o.variety = job[t].variety
                        /\ job[t].mandi # None => o.mandi = job[t].mandi}

\* The rows `_latest` chooses from.
StoredForSubject(t, mode) ==
  {o \in observations : /\ o.mode = mode
                        /\ o.crop = job[t].crop
                        /\ job[t].variety # None => o.variety = job[t].variety
                        /\ job[t].mandi # None => o.mandi = job[t].mandi
                        /\ o.at <= job[t].asOf}

Latest(S) == {o \in S : \A p \in S : p.at <= o.at}

TurnToDemo(t) ==
  \/ job[t].demo /\ Goto(t, "demo") /\ UNCHANGED answer
  \/ ~job[t].demo /\ EndWithout(t, "UNAVAILABLE")

Fallback(t) ==
  /\ At(t, "fallback")
  /\ \/ StoredForSubject(t, "LIVE") = {} /\ TurnToDemo(t)
     \/ \E o \in Latest(StoredForSubject(t, "LIVE")) :
          \/ NotStale(o, job[t].asOf) /\ Deliver(t, "CACHED", o)
          \/ ~NotStale(o, job[t].asOf) /\ TurnToDemo(t)
  /\ UNCHANGED <<tables, job, work, known>>

DemoFallback(t) ==
  /\ At(t, "demo")
  /\ \/ \E o \in Latest(StoredForSubject(t, "DEMO")) : Deliver(t, "DEMO", o)
     \/ StoredForSubject(t, "DEMO") = {} /\ EndWithout(t, "UNAVAILABLE")
  /\ UNCHANGED <<tables, job, work, known>>

\* A refused credential, an invalid answer, a failed statement, a cancelled
\* task or a dead process: what has been committed stays.
Fail(t) ==
  /\ pc[t] \notin {"idle", "done"}
  /\ EndWithout(t, "ERROR")
  /\ UNCHANGED <<tables, job, work, known>>

Step(t) ==
  \/ Begin(t) \/ FetchNothing(t) \/ Fetch(t)
  \/ Resolve(t) \/ UpsertMandi(t) \/ Insert(t) \/ ReadExisting(t) \/ StoreHistory(t)
  \/ Fallback(t) \/ DemoFallback(t) \/ Fail(t)

Next == \E t \in Calls : Step(t)

Spec == Init /\ [][Next]_vars

-----------------------------------------------------------------------------
(***************************************************************************)
(* Properties.                                                             *)
(***************************************************************************)

\* An observation is of a record of the provider's, whichever mandi id it has.
IsOf(o, r) == /\ o.mode = "LIVE" /\ o.mandi.market = r.market
              /\ o.crop = r.crop /\ o.variety = r.variety
              /\ o.at = r.at /\ o.source = r.source

\* However calls race for a new mandi or a record, and however often a batch is
\* sent again, no record is stored as two observations, nor gets two rows of
\* history (postgres.py:53-83, 123-174; 019).
RecordsAreStoredOnce ==
  /\ \A r \in Records : \A o, p \in observations : IsOf(o, r) /\ IsOf(p, r) => o = p
  /\ \A g, h \in history : g.of = h.of => g = h

\* Behind a LIVE answer the whole batch is stored, each record in exactly its
\* content and with its history, although its statements commit one by one and
\* other calls, which may have failed half-way, store the same records
\* (service.py:151-163).
WholeBatchBehindLive ==
  \A t \in Calls : answer[t] # None /\ answer[t].mode = "LIVE" =>
    \A i \in DOMAIN batch[t] : \E o \in observations :
      /\ IsOf(o, batch[t][i])
      /\ o.prices = Normal(batch[t][i])
      /\ HistoryRow(o) \in history

\* What a call may deliver as CACHED.
Usable(t, o) ==
  /\ o.mode = "LIVE" /\ o.crop = job[t].crop
  /\ job[t].variety # None => o.variety = job[t].variety
  /\ job[t].mandi # None => o.mandi = job[t].mandi
  /\ o.at <= job[t].asOf /\ job[t].asOf - o.at <= CacheAge

\* A call that falls back passes over nothing genuine that was stored when it
\* began or came with its own batch: it delivers that or something newer, and
\* resorts to the demo, or to nothing, only if there is none
\* (market-engine/README.md:44-51).
FallbackTakesTheBest ==
  \A t \in Calls : answer[t] # None /\ answer[t].mode \in {"CACHED", "DEMO", "UNAVAILABLE"} =>
    \A o \in observations :
      /\ Usable(t, o)
      /\ o \in known[t] \/ \E i \in DOMAIN batch[t] : IsOf(o, batch[t][i])
      => answer[t].mode = "CACHED" /\ o.at <= answer[t].row.at

\* No observation is shown as more genuine or fresher than it is: LIVE is of
\* the call's own batch and within its limit, CACHED is genuine, about the
\* subject, from before the time asked for and within its limit, and what is
\* of the demo is shown as DEMO (service.py:84-109, docs/DATABASE.md:59-64).
DeliveryIsHonest ==
  \A t \in Calls : answer[t] # None /\ answer[t].row # None =>
    LET o == answer[t].row
        a == answer[t]
    IN  /\ o \in observations
        /\ a.mode = "LIVE" =>
             /\ \E i \in DOMAIN batch[t] : IsOf(o, batch[t][i])
             /\ \A i \in DOMAIN batch[t] : batch[t][i].at <= o.at
             /\ job[t].asOf - o.at <= LiveAge
        /\ a.mode = "CACHED" => Usable(t, o)
        /\ a.mode = "DEMO" => o.mode = "DEMO" /\ job[t].demo
        /\ a.age >= job[t].asOf - o.at
=============================================================================
