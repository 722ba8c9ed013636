---------------------------- MODULE JwksVerifier ----------------------------
(***************************************************************************)
(* The cache of the identity provider's public keys (auth.py JWKSVerifier),*)
(* shared by all requests that one process of the API verifies.            *)
(*                                                                         *)
(* The requests are tasks of one event loop: what a task does between two  *)
(* awaits is one step.  It awaits an asyncio.Lock, which is first come,    *)
(* first served, and, holding it, the provider's answer.  Meanwhile the    *)
(* provider may publish keys and withdraw them.                            *)
(*                                                                         *)
(* A token is the id of the key that signed it.  "accepted" means that it  *)
(* is judged by that key, which has no effect on the cache; signature and  *)
(* claims are taken as good.  A token that does not name a key is refused  *)
(* before any of this.                                                     *)
(***************************************************************************)
EXTENDS Integers, Sequences

CONSTANTS
  Keys,
  FirstKeys,   \* those published when the process starts
  Calls,       \* calls of verify
  Kid,         \* call -> the key id in its token's header
  None,
  CacheTime,   \* jwks_cache_seconds
  FetchTime,   \* how long an exchange with the provider takes at most
  MaxTime      \* bound on the clock

ASSUME VerifierConstants ==
  /\ FirstKeys \subseteq Keys
  /\ Kid \in [Calls -> Keys]
  /\ None \notin Calls /\ None \notin Keys
  /\ CacheTime \in Nat \ {0}
  /\ FetchTime \in Nat
  /\ MaxTime \in Nat

VARIABLES
  life,        \* key -> "unborn", "published" or "withdrawn"
  gone,        \* key -> when it was withdrawn
  clock,       \* time.monotonic()
  keys,        \* _keys: the ids the cache knows
  expiresAt,   \* _expires_at
  holder,      \* the call that holds _lock
  waiters,     \* those that wait for it, in order
  pc,          \* call -> where it is
  knew,        \* call -> was its key published when it began?
  refreshes,   \* call -> how often it has called _refresh, until it ends
  sent,        \* call -> when it has asked the provider, while it awaits the answer
  answer       \* call -> the keys the provider has answered with, meanwhile

provider == <<life, gone>>
cache    == <<keys, expiresAt>>
lock     == <<holder, waiters>>
calls    == <<pc, knew, refreshes, sent, answer>>
vars     == <<provider, clock, cache, lock, calls>>

Verdicts == {"accepted", "noKey", "unavailable"}
Places   == {"idle", "waiting", "fetching"} \union Verdicts

\* What stands for an answer that has not been given yet.
Unanswered == {None}

Published == {k \in Keys : life[k] = "published"}

Init ==
  /\ life      = [k \in Keys |-> IF k \in FirstKeys THEN "published" ELSE "unborn"]
  /\ gone      = [k \in Keys |-> 0]
  /\ clock     = 0
  /\ keys      = {}
  /\ expiresAt = 0
  /\ holder    = None
  /\ waiters   = <<>>
  /\ pc        = [c \in Calls |-> "idle"]
  /\ knew      = [c \in Calls |-> FALSE]
  /\ refreshes = [c \in Calls |-> 0]
  /\ sent      = [c \in Calls |-> 0]
  /\ answer    = [c \in Calls |-> Unanswered]

(***************************************************************************)
(* _refresh                                                                *)
(***************************************************************************)
Stale == expiresAt <= clock

\* Broken: whatever is cached is good enough.
UpToDateForever == keys # {}

\* What a call that has the lock need not fetch.
UpToDate == ~Stale /\ keys # {}

\* Broken: no lock.
LockIsAlwaysFree == TRUE

LockIsFree == holder = None

Judge(c, verdict) ==
  /\ pc'        = [pc EXCEPT ![c] = verdict]
  /\ refreshes' = [refreshes EXCEPT ![c] = 0]
  /\ sent'      = [sent EXCEPT ![c] = 0]
  /\ answer'    = [answer EXCEPT ![c] = Unanswered]

\* With the lock in hand, ask the provider.
Fetch(c, queue) ==
  /\ holder'  = c
  /\ waiters' = queue
  /\ pc'      = [pc EXCEPT ![c] = "fetching"]
  /\ sent'    = [sent EXCEPT ![c] = clock]
  /\ answer'  = [answer EXCEPT ![c] = Unanswered]

StandInLine(c, queue) ==
  /\ holder'  = None
  /\ waiters' = Append(queue, c)
  /\ pc'      = [pc EXCEPT ![c] = "waiting"]
  /\ sent'    = [sent EXCEPT ![c] = 0]
  /\ answer'  = [answer EXCEPT ![c] = Unanswered]

\* A first refresh without the key: call the cache stale and refresh again.
TryAgain(c, queue) ==
  /\ expiresAt' = 0
  /\ refreshes' = [refreshes EXCEPT ![c] = 2]
  /\ IF queue = <<>> THEN Fetch(c, queue) ELSE StandInLine(c, queue)

\* Broken: a call whose key is missing is refused after one refresh.
LeaveRefreshForGood(c, n, K, e, queue) ==
  /\ keys' = K
  /\ Judge(c, IF Kid[c] \in K THEN "accepted" ELSE "noKey")
  /\ expiresAt' = e
  /\ holder'    = None
  /\ waiters'   = queue

\* Call c gives the lock back after its n-th refresh; the cache knows K and
\* lasts until e.
LeaveRefresh(c, n, K, e, queue) ==
  /\ keys' = K
  /\ \/ /\ Kid[c] \in K \/ n = 2
        /\ Judge(c, IF Kid[c] \in K THEN "accepted" ELSE "noKey")
        /\ expiresAt' = e
        /\ holder'    = None
        /\ waiters'   = queue
     \/ /\ Kid[c] \notin K /\ n = 1
        /\ TryAgain(c, queue)

\* The lock is taken: somebody may have refreshed the cache meanwhile.
EnterRefresh(c, n, queue) ==
  \/ /\ UpToDate
     /\ LeaveRefresh(c, n, keys, expiresAt, queue)
  \/ /\ ~UpToDate
     /\ Fetch(c, queue)
     /\ refreshes' = [refreshes EXCEPT ![c] = n]
     /\ UNCHANGED cache

(***************************************************************************)
(* verify                                                                  *)
(***************************************************************************)
Begin(c) ==
  /\ pc[c] = "idle"
  /\ knew' = [knew EXCEPT ![c] = life[Kid[c]] = "published"]
  /\ \/ /\ Kid[c] \in keys /\ ~Stale
        /\ Judge(c, "accepted")
        /\ UNCHANGED <<cache, lock>>
     \/ /\ Kid[c] \notin keys \/ Stale
        /\ LockIsFree /\ waiters = <<>>
        /\ EnterRefresh(c, 1, <<>>)
     \/ /\ Kid[c] \notin keys \/ Stale
        /\ ~(LockIsFree /\ waiters = <<>>)
        /\ waiters'   = Append(waiters, c)
        /\ pc'        = [pc EXCEPT ![c] = "waiting"]
        /\ refreshes' = [refreshes EXCEPT ![c] = 1]
        /\ UNCHANGED <<cache, holder, sent, answer>>
  /\ UNCHANGED <<provider, clock>>

\* The first in line gets the lock.
Wake(c) ==
  /\ LockIsFree
  /\ waiters # <<>> /\ Head(waiters) = c
  /\ EnterRefresh(c, refreshes[c], Tail(waiters))
  /\ UNCHANGED <<provider, clock, knew>>

\* Until when keys that arrive now are used.
Lifetime == clock + CacheTime

\* The provider's keys arrive.
Store(c) ==
  /\ pc[c] = "fetching"
  /\ answer[c] \notin {Unanswered, {}}
  /\ LeaveRefresh(c, refreshes[c], answer[c], Lifetime, waiters)
  /\ UNCHANGED <<provider, clock, knew>>

\* Broken: the lock is kept.
FetchFailsHolding(c) ==
  /\ pc[c] = "fetching"
  /\ Judge(c, "unavailable")
  /\ UNCHANGED <<provider, clock, cache, lock, knew>>

\* No answer in time, an error, an answer nobody can read, or one without keys.
FetchFails(c) ==
  /\ pc[c] = "fetching"
  /\ Judge(c, "unavailable")
  /\ holder' = None
  /\ UNCHANGED <<provider, clock, cache, waiters, knew>>

(***************************************************************************)
(* The provider, and time.                                                 *)
(***************************************************************************)
Answer(c) ==
  /\ pc[c] = "fetching"
  /\ answer[c] = Unanswered
  /\ answer' = [answer EXCEPT ![c] = Published]
  /\ UNCHANGED <<provider, clock, cache, lock, pc, knew, refreshes, sent>>

Publish(k) ==
  /\ life[k] = "unborn"
  /\ life' = [life EXCEPT ![k] = "published"]
  /\ UNCHANGED <<gone, clock, cache, lock, calls>>

Withdraw(k) ==
  /\ life[k] = "published"
  /\ life' = [life EXCEPT ![k] = "withdrawn"]
  /\ gone' = [gone EXCEPT ![k] = clock]
  /\ UNCHANGED <<clock, cache, lock, calls>>

\* An exchange is over, one way or the other, when its time is.
Tick ==
  /\ clock < MaxTime
  /\ \A c \in Calls : pc[c] = "fetching" => clock < sent[c] + FetchTime
  /\ clock' = clock + 1
  /\ UNCHANGED <<provider, cache, lock, calls>>

Next ==
  \/ \E c \in Calls : Begin(c) \/ Wake(c) \/ Answer(c) \/ Store(c) \/ FetchFails(c)
  \/ \E k \in Keys : Publish(k) \/ Withdraw(k)
  \/ Tick

Spec == Init /\ [][Next]_vars

\* The event loop runs a task that can go on, and httpx ends an exchange after
\* its timeout.  Nothing says that anybody sends tokens or that the provider
\* answers.
Fairness == \A c \in Calls : WF_vars(Wake(c)) /\ WF_vars(Store(c) \/ FetchFails(c))

FairSpec == Spec /\ Fairness

(***************************************************************************)
(* Properties.                                                             *)
(***************************************************************************)
TypeOK ==
  /\ life \in [Keys -> {"unborn", "published", "withdrawn"}]
  /\ gone \in [Keys -> 0..MaxTime]
  /\ clock \in 0..MaxTime
  /\ keys \subseteq Keys
  /\ expiresAt \in 0..(MaxTime + CacheTime)
  /\ holder \in Calls \union {None}
  /\ waiters \in Seq(Calls)
  /\ pc \in [Calls -> Places]
  /\ knew \in [Calls -> BOOLEAN]
  /\ refreshes \in [Calls -> 0..2]
  /\ sent \in [Calls -> 0..MaxTime]
  /\ answer \in [Calls -> (SUBSET Keys) \union {Unanswered}]

\* A token is refused for its key only if the provider did not publish that
\* key all the while: keys that others have fetched before the rotation, and
\* that arrive while this call waits, do not mislead it (auth.py:70-78).
RotationRefusesNobody ==
  \A c \in Calls :
    pc[c] = "noKey" /\ knew[c] => life[Kid[c]] = "withdrawn"

\* The cache forgets no key that is still published: no answer overwrites the
\* answer to a later question (the lock of auth.py:39).
NoKeyIsForgotten == [][\A k \in keys \ keys' : life[k] = "withdrawn"]_vars

\* A key is good for at most one life of the cache and one exchange after it
\* was withdrawn, whatever the calls wait for (auth.py:40, 57, 70).
WithdrawnKeysExpire ==
  [][\A c \in Calls : pc[c] # "accepted" /\ pc'[c] = "accepted" =>
       \/ life[Kid[c]] = "published"
       \/ /\ life[Kid[c]] = "withdrawn"
          /\ clock < gone[Kid[c]] + CacheTime + FetchTime]_vars

\* Every call ends, though all of them share one lock (auth.py:39).
EveryVerificationEnds == \A c \in Calls : pc[c] # "idle" ~> pc[c] \in Verdicts
=============================================================================
