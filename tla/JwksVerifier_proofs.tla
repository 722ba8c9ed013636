------------------------ MODULE JwksVerifier_proofs ------------------------
(***************************************************************************)
(* Proofs about JwksVerifier, for any keys, calls, cache and fetch times.  *)
(*                                                                         *)
(* All of it rests on the lock: as long as a call awaits an answer, nobody *)
(* else changes the cache.  So what holds of the cache when the question   *)
(* is asked still holds when the answer arrives.                           *)
(***************************************************************************)
EXTENDS JwksVerifier, TLAPS

\* The call that has the lock is the one that awaits an answer, and those in
\* line have begun.
Lock ==
  /\ \A c \in Calls : pc[c] = "fetching" <=> holder = c
  /\ \A i \in DOMAIN waiters : pc[waiters[i]] # "idle"

\* Keys that anybody has seen have been published.
Born ==
  /\ \A k \in keys : life[k] # "unborn"
  /\ \A c \in Calls : pc[c] = "fetching" /\ answer[c] # Unanswered =>
       \A k \in answer[c] : k \in Keys /\ life[k] # "unborn"
  /\ \A c \in Calls : knew[c] => life[Kid[c]] # "unborn"

\* A key that is published now and was published when the call began.
Sure(c) == knew[c] /\ life[Kid[c]] = "published"

\* An answer on its way knows all published keys of the cache, and the key of
\* the call that has asked for it.
Complete ==
  \A c \in Calls : pc[c] = "fetching" /\ answer[c] # Unanswered =>
    /\ \A k \in keys : life[k] = "published" => k \in answer[c]
    /\ Sure(c) => Kid[c] \in answer[c]

\* Whoever is in line for its second refresh can rely on whatever it will find:
\* a stale cache, or one that knows its key.
SecondTime ==
  \A i \in DOMAIN waiters :
    LET c == waiters[i] IN
    refreshes[c] = 2 /\ Sure(c) =>
      /\ expiresAt = 0 \/ Kid[c] \in keys
      /\ \A h \in Calls : pc[h] = "fetching" /\ answer[h] # Unanswered => Kid[c] \in answer[h]

\* How old keys can be.
Ages ==
  /\ expiresAt <= clock + CacheTime
  /\ \A c \in Calls : pc[c] = "fetching" =>
       /\ sent[c] <= clock /\ clock <= sent[c] + FetchTime
       /\ answer[c] # Unanswered =>
            \A k \in answer[c] : life[k] = "withdrawn" => sent[c] <= gone[k]
  /\ \A k \in keys : life[k] = "withdrawn" => expiresAt <= gone[k] + CacheTime + FetchTime

IInv == TypeOK /\ Lock /\ Born /\ Complete /\ SecondTime /\ Ages /\ RotationRefusesNobody

(***************************************************************************)
(* The kinds of step.                                                      *)
(***************************************************************************)
\* Call c is done with the cache as K, until e, and leaves q in line.
Ends(c, K, e, q) ==
  /\ keys' = K /\ expiresAt' = e /\ holder' = None /\ waiters' = q
  /\ Judge(c, IF Kid[c] \in K THEN "accepted" ELSE "noKey")

\* Call c asks the provider in its n-th refresh.
Asks(c, K, e, n, q) ==
  /\ keys' = K /\ expiresAt' = e
  /\ refreshes' = [refreshes EXCEPT ![c] = n]
  /\ Fetch(c, q)

\* Call c stands in line for its second refresh.
Lines(c, K, q) ==
  /\ keys' = K /\ expiresAt' = 0
  /\ refreshes' = [refreshes EXCEPT ![c] = 2]
  /\ StandInLine(c, q)

Turn(c, n, K, e, q) ==
  \/ (Kid[c] \in K \/ n = 2) /\ Ends(c, K, e, q)
  \/ n = 1 /\ Asks(c, K, 0, 2, q)
  \/ n = 1 /\ Lines(c, K, q)

LEMMA Leaving ==
  ASSUME NEW c, NEW n, NEW K, NEW e, NEW q, LeaveRefresh(c, n, K, e, q)
  PROVE  Turn(c, n, K, e, q)
BY DEF LeaveRefresh, TryAgain, Turn, Ends, Asks, Lines

LEMMA Entering ==
  ASSUME NEW c, NEW n, NEW q, EnterRefresh(c, n, q)
  PROVE  \/ UpToDate /\ Turn(c, n, keys, expiresAt, q)
         \/ Asks(c, keys, expiresAt, n, q)
BY Leaving DEF EnterRefresh, Asks, cache

\* Begin, when the answer is not in the cache.
Starts(c) ==
  /\ pc[c] = "idle" /\ holder = None
  /\ knew' = [knew EXCEPT ![c] = life[Kid[c]] = "published"]
  /\ UNCHANGED <<provider, clock>>
  /\ \/ UpToDate /\ Turn(c, 1, keys, expiresAt, <<>>)
     \/ Asks(c, keys, expiresAt, 1, <<>>)

Hits(c) ==
  /\ pc[c] = "idle"
  /\ knew' = [knew EXCEPT ![c] = life[Kid[c]] = "published"]
  /\ UNCHANGED <<provider, clock, cache, lock>>
  /\ Kid[c] \in keys /\ ~Stale
  /\ Judge(c, "accepted")

Joins(c) ==
  /\ pc[c] = "idle"
  /\ knew' = [knew EXCEPT ![c] = life[Kid[c]] = "published"]
  /\ UNCHANGED <<provider, clock, cache, holder, sent, answer>>
  /\ waiters'   = Append(waiters, c)
  /\ pc'        = [pc EXCEPT ![c] = "waiting"]
  /\ refreshes' = [refreshes EXCEPT ![c] = 1]

Wakes(c) ==
  /\ holder = None /\ waiters # <<>> /\ Head(waiters) = c
  /\ UNCHANGED <<provider, clock, knew>>
  /\ \/ UpToDate /\ Turn(c, refreshes[c], keys, expiresAt, Tail(waiters))
     \/ Asks(c, keys, expiresAt, refreshes[c], Tail(waiters))

Stores(c) ==
  /\ pc[c] = "fetching" /\ answer[c] # Unanswered
  /\ UNCHANGED <<provider, clock, knew>>
  /\ Turn(c, refreshes[c], answer[c], clock + CacheTime, waiters)

LEMMA StepKinds ==
  ASSUME [Next]_vars
  PROVE  \/ \E c \in Calls : Hits(c) \/ Joins(c) \/ Starts(c) \/ Wakes(c) \/ Stores(c)
                             \/ FetchFails(c) \/ Answer(c)
         \/ \E k \in Keys : Publish(k) \/ Withdraw(k)
         \/ Tick \/ UNCHANGED vars
<1>1. ASSUME NEW c \in Calls, Begin(c) PROVE Hits(c) \/ Joins(c) \/ Starts(c)
  BY <1>1, Entering DEF Begin, Hits, Joins, Starts, LockIsFree
<1>2. ASSUME NEW c \in Calls, Wake(c) PROVE Wakes(c)
  BY <1>2, Entering DEF Wake, Wakes, LockIsFree
<1>3. ASSUME NEW c \in Calls, Store(c) PROVE Stores(c)
  BY <1>3, Leaving DEF Store, Stores, Lifetime
<1>4. QED
  BY <1>1, <1>2, <1>3 DEF Next

(***************************************************************************)
(* The invariant is inductive.                                             *)
(***************************************************************************)
LEMMA IInvInit == Init => IInv
BY VerifierConstants DEF Init, IInv, TypeOK, Lock, Born, Complete, SecondTime, Ages,
   RotationRefusesNobody, Places, Verdicts, Unanswered

\* What is in line behind the first is in line.
LEMMA BehindTheFirst ==
  ASSUME NEW S, NEW s \in Seq(S), s # <<>>
  PROVE  /\ Tail(s) \in Seq(S) /\ Head(s) \in S
         /\ Head(s) = s[1] /\ 1 \in DOMAIN s
         /\ \A i \in DOMAIN Tail(s) : i + 1 \in DOMAIN s /\ Tail(s)[i] = s[i+1]
OBVIOUS

LEMMA LastInLine ==
  ASSUME NEW S, NEW s \in Seq(S), NEW x \in S
  PROVE  /\ Append(s, x) \in Seq(S)
         /\ \A i \in DOMAIN Append(s, x) :
              \/ i \in DOMAIN s /\ Append(s, x)[i] = s[i]
              \/ Append(s, x)[i] = x
OBVIOUS

LEMMA TypeStep == TypeOK /\ [Next]_vars => TypeOK'
<1> SUFFICES ASSUME TypeOK, [Next]_vars PROVE TypeOK'
  OBVIOUS
<1> USE VerifierConstants
<1>0. Unanswered \in (SUBSET Keys) \union {Unanswered}
  OBVIOUS
<1>1. ASSUME NEW c \in Calls, NEW n \in 0..2, NEW K \in SUBSET Keys, NEW e \in 0..(MaxTime + CacheTime),
             NEW q \in Seq(Calls), Asks(c, K, e, n, q) \/ Turn(c, n, K, e, q)
      PROVE  /\ keys' \subseteq Keys
             /\ expiresAt' \in 0..(MaxTime + CacheTime)
             /\ holder' \in Calls \union {None}
             /\ waiters' \in Seq(Calls)
             /\ pc' \in [Calls -> Places]
             /\ refreshes' \in [Calls -> 0..2]
             /\ sent' \in [Calls -> 0..MaxTime]
             /\ answer' \in [Calls -> (SUBSET Keys) \union {Unanswered}]
  <2> DEFINE Typed ==
        /\ keys' \subseteq Keys
        /\ expiresAt' \in 0..(MaxTime + CacheTime)
        /\ holder' \in Calls \union {None}
        /\ waiters' \in Seq(Calls)
        /\ pc' \in [Calls -> Places]
        /\ refreshes' \in [Calls -> 0..2]
        /\ sent' \in [Calls -> 0..MaxTime]
        /\ answer' \in [Calls -> (SUBSET Keys) \union {Unanswered}]
  <2>0. /\ 0 \in 0..(MaxTime + CacheTime) /\ 0 \in 0..2 /\ 2 \in 0..2 /\ 0 \in 0..MaxTime
        /\ clock \in 0..MaxTime
        /\ None \in Calls \union {None} /\ c \in Calls \union {None}
        /\ \A v \in {"fetching", "waiting", "accepted", "noKey"} : v \in Places
        /\ Append(q, c) \in Seq(Calls)
    BY LastInLine DEF TypeOK, Places, Verdicts
  <2>1. CASE Ends(c, K, e, q)
    BY <1>0, <2>0, <2>1 DEF TypeOK, Ends, Judge
  <2>2. CASE \E m \in 0..2, f \in 0..(MaxTime + CacheTime) : Asks(c, K, f, m, q)
    BY <1>0, <2>0, <2>2 DEF TypeOK, Asks, Fetch
  <2>3. CASE Lines(c, K, q)
    BY <1>0, <2>0, <2>3 DEF TypeOK, Lines, StandInLine
  <2>4. QED
    BY <1>1, <2>0, <2>1, <2>2, <2>3 DEF Turn
<1>2. ASSUME NEW c \in Calls, knew' = [knew EXCEPT ![c] = life[Kid[c]] = "published"]
      PROVE  knew' \in [Calls -> BOOLEAN]
  <2> DEFINE b == life[Kid[c]] = "published"
  <2>1. b \in BOOLEAN
    OBVIOUS
  <2> HIDE DEF b
  <2>2. [knew EXCEPT ![c] = b] \in [Calls -> BOOLEAN]
    BY <2>1 DEF TypeOK
  <2>3. QED
    BY <1>2, <2>2 DEF b
<1>3. ASSUME NEW c \in Calls, Hits(c) PROVE TypeOK'
  <2>1. knew' \in [Calls -> BOOLEAN]
    BY <1>2, <1>3 DEF Hits
  <2>2. QED
    BY <1>0, <1>3, <2>1 DEF Hits, Judge, TypeOK, Places, Verdicts, provider, cache, lock
<1>4. ASSUME NEW c \in Calls, Joins(c) PROVE TypeOK'
  <2>1. knew' \in [Calls -> BOOLEAN]
    BY <1>2, <1>4 DEF Joins
  <2>2. waiters' \in Seq(Calls)
    BY <1>4, LastInLine DEF Joins, TypeOK
  <2>3. QED
    BY <1>4, <2>1, <2>2 DEF Joins, TypeOK, Places, Verdicts, provider, cache
<1>5. ASSUME NEW c \in Calls, Starts(c) PROVE TypeOK'
  <2>1. knew' \in [Calls -> BOOLEAN]
    BY <1>2, <1>5 DEF Starts
  <2>2. <<>> \in Seq(Calls) /\ 1 \in 0..2
    OBVIOUS
  <2>3. QED
    BY <1>1, <1>5, <2>1, <2>2 DEF Starts, TypeOK, provider
<1>6. ASSUME NEW c \in Calls, Wakes(c) PROVE TypeOK'
  <2>1. Tail(waiters) \in Seq(Calls) /\ refreshes[c] \in 0..2
    BY <1>6, BehindTheFirst DEF Wakes, TypeOK
  <2>2. QED
    BY <1>1, <1>6, <2>1 DEF Wakes, TypeOK, provider
<1>7. ASSUME NEW c \in Calls, Stores(c) PROVE TypeOK'
  <2>1. refreshes[c] \in 0..2 /\ answer[c] \in SUBSET Keys /\ clock + CacheTime \in 0..(MaxTime + CacheTime)
    BY <1>7 DEF Stores, TypeOK
  <2>2. QED
    BY <1>1, <1>7, <2>1 DEF Stores, TypeOK, provider
<1>8. ASSUME NEW c \in Calls, FetchFails(c) \/ Answer(c) PROVE TypeOK'
  <2>1. CASE FetchFails(c)
    BY <1>0, <2>1 DEF FetchFails, Judge, TypeOK, Places, Verdicts, provider, cache
  <2>2. CASE Answer(c)
    <3>1. Published \in (SUBSET Keys) \union {Unanswered}
      BY DEF Published
    <3>2. answer' \in [Calls -> (SUBSET Keys) \union {Unanswered}]
      BY <2>2, <3>1 DEF Answer, TypeOK
    <3>3. QED
      BY <2>2, <3>2 DEF Answer, TypeOK, provider, cache, lock
  <2>3. QED
    BY <1>8, <2>1, <2>2
<1>9. ASSUME NEW k \in Keys, Publish(k) \/ Withdraw(k) PROVE TypeOK'
  <2>1. life' \in [Keys -> {"unborn", "published", "withdrawn"}]
    BY <1>9 DEF Publish, Withdraw, TypeOK
  <2>2. gone' \in [Keys -> 0..MaxTime]
    BY <1>9 DEF Publish, Withdraw, TypeOK
  <2>3. UNCHANGED <<clock, cache, lock, calls>>
    BY <1>9 DEF Publish, Withdraw
  <2>4. QED
    BY <2>1, <2>2, <2>3 DEF TypeOK, cache, lock, calls
<1>10. CASE Tick \/ UNCHANGED vars
  BY <1>10 DEF Tick, TypeOK, vars, provider, cache, lock, calls
<1>11. QED
  BY <1>3, <1>4, <1>5, <1>6, <1>7, <1>8, <1>9, <1>10, StepKinds

\* What a step of c may do once c has the lock, or finds it free.
Serves(c, K, e, q) ==
  \/ Ends(c, K, e, q)
  \/ \E n : Asks(c, K, 0, n, q)
  \/ \E n : (n = 1 \/ n = refreshes[c]) /\ Asks(c, K, e, n, q)
  \/ Lines(c, K, q)

\* Begin, Wake and Store come to the same but for what they find.
LEMMA Serving ==
  ASSUME TypeOK, NEW c \in Calls
  PROVE  /\ Starts(c) => Serves(c, keys, expiresAt, <<>>)
         /\ Wakes(c)  => Serves(c, keys, expiresAt, Tail(waiters))
         /\ Stores(c) => Serves(c, answer[c], clock + CacheTime, waiters)
BY DEF Starts, Wakes, Stores, Turn, Serves

LEMMA LockStep == TypeOK /\ Lock /\ [Next]_vars => Lock'
<1> SUFFICES ASSUME TypeOK, Lock, [Next]_vars PROVE Lock'
  OBVIOUS
<1> USE VerifierConstants
<1>1. ASSUME NEW c \in Calls, NEW K, NEW e, NEW q \in Seq(Calls), Serves(c, K, e, q),
             holder \in {None, c}, \A i \in DOMAIN q : pc[q[i]] # "idle"
      PROVE  Lock'
  <2>1. \A d \in Calls \ {c} : pc[d] # "fetching" /\ pc'[d] = pc[d]
    BY <1>1 DEF Serves, Ends, Asks, Lines, Fetch, StandInLine, Judge, Lock, TypeOK
  <2>2. CASE Ends(c, K, e, q)
    BY <1>1, <2>1, <2>2 DEF Ends, Judge, Lock, TypeOK
  <2>3. CASE \E n, f : Asks(c, K, f, n, q)
    BY <1>1, <2>1, <2>3 DEF Asks, Fetch, Lock, TypeOK
  <2>4. CASE Lines(c, K, q)
    BY <1>1, <2>1, <2>4, LastInLine DEF Lines, StandInLine, Lock, TypeOK
  <2>5. QED
    BY <1>1, <2>2, <2>3, <2>4 DEF Serves
<1>2. ASSUME NEW c \in Calls, Starts(c) PROVE Lock'
  <2>1. <<>> \in Seq(Calls) /\ \A i \in DOMAIN <<>> : pc[<<>>[i]] # "idle"
    OBVIOUS
  <2>2. QED
    BY <1>1, <1>2, <2>1, Serving DEF Starts
<1>3. ASSUME NEW c \in Calls, Wakes(c) PROVE Lock'
  <2>1. Tail(waiters) \in Seq(Calls) /\ \A i \in DOMAIN Tail(waiters) : pc[Tail(waiters)[i]] # "idle"
    BY <1>3, BehindTheFirst DEF Wakes, Lock, TypeOK
  <2>2. QED
    BY <1>1, <1>3, <2>1, Serving DEF Wakes
<1>4. ASSUME NEW c \in Calls, Stores(c) PROVE Lock'
  BY <1>1, <1>4, Serving DEF Stores, Lock, TypeOK
<1>5. ASSUME NEW c \in Calls, Hits(c) \/ FetchFails(c) PROVE Lock'
  <2>1. CASE Hits(c)
    BY <2>1 DEF Hits, Judge, Lock, TypeOK, lock
  <2>2. CASE FetchFails(c)
    <3>1. \A d \in Calls : pc'[d] # "fetching"
      BY <2>2 DEF FetchFails, Judge, Lock, TypeOK
    <3>2. QED
      BY <2>2, <3>1 DEF FetchFails, Judge, Lock, TypeOK
  <2>3. QED
    BY <1>5, <2>1, <2>2
<1>6. ASSUME NEW c \in Calls, Joins(c) PROVE Lock'
  BY <1>6, LastInLine DEF Joins, Lock, TypeOK
<1>7. CASE UNCHANGED <<lock, pc>>
  BY <1>7 DEF Lock, lock
<1>8. QED
  BY <1>2, <1>3, <1>4, <1>5, <1>6, <1>7, StepKinds
     DEF Answer, Publish, Withdraw, Tick, vars, calls, lock

LEMMA BornStep == TypeOK /\ Lock /\ Born /\ [Next]_vars => Born'
<1> SUFFICES ASSUME TypeOK, Lock, Born, [Next]_vars PROVE Born'
  OBVIOUS
<1> USE VerifierConstants
<1> DEFINE Known(K) == \A k \in K : k \in Keys /\ life[k] # "unborn"
<1>0. \A k \in Keys : life[k] # "unborn" => life'[k] # "unborn"
  BY StepKinds DEF Hits, Joins, Starts, Wakes, Stores, FetchFails, Answer, Publish, Withdraw, Tick,
     vars, provider, TypeOK
<1>1. \A c \in Calls : knew'[c] => life'[Kid[c]] # "unborn"
  <2>1. ASSUME NEW c \in Calls, knew' = [knew EXCEPT ![c] = life[Kid[c]] = "published"],
               NEW d \in Calls, knew'[d]
        PROVE  knew[d] \/ life[Kid[d]] = "published"
    BY <2>1 DEF TypeOK
  <2>2. ASSUME NEW d \in Calls, knew'[d] PROVE life[Kid[d]] # "unborn"
    BY <2>1, <2>2, StepKinds DEF Hits, Joins, Starts, Wakes, Stores, FetchFails, Answer, Publish, Withdraw,
       Tick, vars, calls, Born
  <2>3. QED
    BY <1>0, <2>2
<1>2. ASSUME NEW c \in Calls, NEW K, NEW e, NEW q, Serves(c, K, e, q), Known(K)
      PROVE  Known(keys') /\ \A d \in Calls : pc'[d] = "fetching" /\ answer'[d] # Unanswered => Known(answer'[d])
  BY <1>2 DEF Serves, Ends, Asks, Lines, Fetch, StandInLine, Judge, Born, TypeOK
<1>3. Known(keys) /\ \A c \in Calls : pc[c] = "fetching" /\ answer[c] # Unanswered => Known(answer[c])
  BY DEF Born, TypeOK
<1>4. Known(Published)
  BY DEF Published
<1> DEFINE AllKnown ==
  Known(keys') /\ \A d \in Calls : pc'[d] = "fetching" /\ answer'[d] # Unanswered => Known(answer'[d])
<1> HIDE DEF Known
<1>5. AllKnown
  <2>1. ASSUME NEW c \in Calls, Starts(c) \/ Wakes(c) \/ Stores(c)
        PROVE  AllKnown
    BY <1>2, <1>3, <2>1, Serving DEF Stores
  <2>2. ASSUME NEW c \in Calls, Hits(c) \/ FetchFails(c) \/ Answer(c) \/ Joins(c)
        PROVE  AllKnown
    BY <1>3, <1>4, <2>2 DEF Hits, Joins, FetchFails, Answer, Judge, TypeOK, cache
  <2>3. CASE UNCHANGED <<cache, pc, answer>>
    BY <1>3, <2>3 DEF cache
  <2>4. QED
    BY <2>1, <2>2, <2>3, StepKinds DEF Publish, Withdraw, Tick, vars, calls
<1>6. QED
  BY <1>0, <1>1, <1>5 DEF Born, Known

\* When c is served, no answer is on its way.
LEMMA NoAnswer ==
  ASSUME TypeOK, Lock, NEW c \in Calls, holder \in {None, c}, NEW K, NEW e, NEW q, Serves(c, K, e, q),
         NEW d \in Calls, pc'[d] = "fetching"
  PROVE  d = c /\ answer'[d] = Unanswered /\ sent'[d] = clock
<1>1. d # c => pc[d] # "fetching" /\ pc'[d] = pc[d]
  BY VerifierConstants DEF Serves, Ends, Asks, Lines, Fetch, StandInLine, Judge, Lock, TypeOK
<1>2. QED
  BY <1>1 DEF Serves, Ends, Asks, Lines, Fetch, StandInLine, Judge, TypeOK

\* Nobody becomes sure of its key while it waits.
LEMMA SureSteps ==
  ASSUME TypeOK, Born, [Next]_vars, NEW d \in Calls, pc[d] # "idle",
         knew'[d], life'[Kid[d]] = "published"
  PROVE  Sure(d) /\ knew'[d] = knew[d]
<1>1. knew'[d] = knew[d]
  <2>1. ASSUME NEW c \in Calls, pc[c] = "idle", knew' = [knew EXCEPT ![c] = life[Kid[c]] = "published"]
        PROVE  knew'[d] = knew[d]
    BY <2>1, c # d DEF TypeOK
  <2>2. ASSUME NEW c \in Calls, Hits(c) \/ Joins(c) \/ Starts(c)
        PROVE  knew'[d] = knew[d]
    BY <2>1, <2>2 DEF Hits, Joins, Starts
  <2>3. CASE UNCHANGED knew
    BY <2>3
  <2>4. QED
    BY <2>2, <2>3, StepKinds DEF Wakes, Stores, FetchFails, Answer, Publish, Withdraw, Tick, vars, calls
<1>2. life[Kid[d]] # "unborn" => (life'[Kid[d]] = "published" => life[Kid[d]] = "published")
  BY VerifierConstants, StepKinds DEF Hits, Joins, Starts, Wakes, Stores, FetchFails, Answer, Publish, Withdraw,
     Tick, vars, provider, TypeOK
<1>3. QED
  BY <1>1, <1>2 DEF Sure, Born

LEMMA CompleteStep == TypeOK /\ Lock /\ Born /\ Complete /\ [Next]_vars => Complete'
<1> SUFFICES ASSUME TypeOK, Lock, Born, Complete, [Next]_vars,
                    NEW d \in Calls, pc'[d] = "fetching", answer'[d] # Unanswered
             PROVE  /\ \A k \in keys' : life'[k] = "published" => k \in answer'[d]
                    /\ Sure(d)' => Kid[d] \in answer'[d]
  BY DEF Complete
<1>1. ASSUME NEW c \in Calls, Starts(c) \/ Wakes(c) \/ Stores(c) PROVE FALSE
  BY <1>1, NoAnswer, Serving DEF Starts, Wakes, Stores, Lock
<1>2. ASSUME answer'[d] = answer[d], pc[d] = "fetching", UNCHANGED keys
      PROVE  /\ \A k \in keys' : life'[k] = "published" => k \in answer'[d]
             /\ Sure(d)' => Kid[d] \in answer'[d]
  <2>1. \A k \in keys : life'[k] = "published" => life[k] = "published"
    BY StepKinds DEF Hits, Joins, Starts, Wakes, Stores, FetchFails, Answer, Publish, Withdraw,
       Tick, vars, provider, TypeOK, Born
  <2>2. Sure(d)' => Sure(d)
    BY <1>2, SureSteps DEF Sure
  <2>3. QED
    BY <1>2, <2>1, <2>2 DEF Complete
<1>3. ASSUME NEW c \in Calls, Answer(c), c = d
      PROVE  /\ \A k \in keys' : life'[k] = "published" => k \in answer'[d]
             /\ Sure(d)' => Kid[d] \in answer'[d]
  BY <1>3, VerifierConstants DEF Answer, Published, Sure, TypeOK, cache, provider
<1>4. ASSUME NEW c \in Calls, Hits(c) \/ Joins(c) \/ FetchFails(c) \/ (Answer(c) /\ c # d)
      PROVE  answer'[d] = answer[d] /\ pc[d] = "fetching" /\ UNCHANGED keys
  BY <1>4 DEF Hits, Joins, FetchFails, Answer, Judge, cache, TypeOK
<1>5. (\E k \in Keys : Publish(k) \/ Withdraw(k)) \/ Tick \/ UNCHANGED vars
      => answer'[d] = answer[d] /\ pc[d] = "fetching" /\ UNCHANGED keys
  BY DEF Publish, Withdraw, Tick, vars, cache, calls
<1>6. QED
  BY <1>1, <1>2, <1>3, <1>4, <1>5, StepKinds

\* What SecondTime says of the cache, for call w and a cache K until e.
Relies(w, K, e) == refreshes[w] = 2 /\ Sure(w) => e = 0 \/ Kid[w] \in K

LEMMA SecondStep == TypeOK /\ Lock /\ Born /\ SecondTime /\ [Next]_vars => SecondTime'
<1> SUFFICES ASSUME TypeOK, Lock, Born, SecondTime, [Next]_vars PROVE SecondTime'
  OBVIOUS
<1> USE VerifierConstants
<1> DEFINE Serene(w) ==
  refreshes'[w] = 2 /\ knew'[w] /\ life'[Kid[w]] = "published" =>
    /\ expiresAt' = 0 \/ Kid[w] \in keys'
    /\ \A h \in Calls : pc'[h] = "fetching" /\ answer'[h] # Unanswered => Kid[w] \in answer'[h]
<1>0. \A i \in DOMAIN waiters : waiters[i] \in Calls /\ pc[waiters[i]] # "idle" /\ Relies(waiters[i], keys, expiresAt)
  BY DEF TypeOK, Lock, SecondTime, Relies
<1>1. ASSUME NEW c \in Calls, NEW K, NEW e, NEW q \in Seq(Calls), Serves(c, K, e, q), holder \in {None, c},
             \A i \in DOMAIN q : pc[q[i]] # "idle" /\ Relies(q[i], K, e)
      PROVE  SecondTime'
  <2>1. \A h \in Calls : pc'[h] = "fetching" => answer'[h] = Unanswered
    BY <1>1, NoAnswer
  <2>2. ASSUME NEW w \in Calls, pc[w] # "idle", Relies(w, K, e), refreshes'[w] = 2,
               knew'[w], life'[Kid[w]] = "published"
        PROVE  expiresAt' = 0 \/ Kid[w] \in keys'
    <3>1. Sure(w)
      BY <2>2, SureSteps
    <3>2. CASE Ends(c, K, e, q)
      BY <2>2, <3>1, <3>2 DEF Ends, Judge, Relies, TypeOK
    <3>3. CASE \E n : (n = 1 \/ n = refreshes[c]) /\ Asks(c, K, e, n, q)
      BY <2>2, <3>1, <3>3 DEF Asks, Relies, TypeOK
    <3>4. QED
      BY <1>1, <3>2, <3>3 DEF Serves, Asks, Lines
  <2>3. \A i \in DOMAIN waiters' :
          \/ i \in DOMAIN q /\ waiters'[i] = q[i]
          \/ waiters'[i] = c /\ expiresAt' = 0
    <3>1. waiters' = q \/ (waiters' = Append(q, c) /\ expiresAt' = 0)
      BY <1>1 DEF Serves, Ends, Asks, Lines, Fetch, StandInLine
    <3>2. QED
      BY <1>1, <3>1, LastInLine
  <2>4. \A i \in DOMAIN waiters' : Serene(waiters'[i])
    BY <1>1, <2>1, <2>2, <2>3
  <2>5. QED
    BY <2>4 DEF SecondTime, Sure
<1>2. ASSUME NEW c \in Calls, Starts(c) PROVE SecondTime'
  <2>1. <<>> \in Seq(Calls) /\ \A i \in DOMAIN <<>> : pc[<<>>[i]] # "idle" /\ Relies(<<>>[i], keys, expiresAt)
    OBVIOUS
  <2>2. QED
    BY <1>1, <1>2, <2>1, Serving DEF Starts
<1>3. ASSUME NEW c \in Calls, Wakes(c) PROVE SecondTime'
  <2>1. /\ Tail(waiters) \in Seq(Calls)
        /\ \A i \in DOMAIN Tail(waiters) : pc[Tail(waiters)[i]] # "idle" /\ Relies(Tail(waiters)[i], keys, expiresAt)
    BY <1>0, <1>3, BehindTheFirst DEF Wakes, TypeOK
  <2>2. QED
    BY <1>1, <1>3, <2>1, Serving DEF Wakes
<1>4. ASSUME NEW c \in Calls, Stores(c) PROVE SecondTime'
  <2>1. \A i \in DOMAIN waiters : pc[waiters[i]] # "idle" /\ Relies(waiters[i], answer[c], clock + CacheTime)
    BY <1>0, <1>4 DEF Stores, SecondTime, Relies
  <2>2. waiters \in Seq(Calls) /\ holder \in {None, c}
    BY <1>4 DEF Stores, Lock, TypeOK
  <2>3. QED
    BY <1>1, <1>4, <2>1, <2>2, Serving
<1>5. ASSUME NEW i \in DOMAIN waiters, UNCHANGED cache,
             \A h \in Calls : pc'[h] = "fetching" /\ answer'[h] # Unanswered =>
               answer'[h] = Published \/ (pc[h] = "fetching" /\ answer'[h] = answer[h]),
             refreshes'[waiters[i]] = 2 => refreshes[waiters[i]] = 2
      PROVE  Serene(waiters[i])
  <2>1. ASSUME knew'[waiters[i]], life'[Kid[waiters[i]]] = "published" PROVE Sure(waiters[i])
    BY <1>0, <2>1, SureSteps
  <2>2. Sure(waiters[i]) => Kid[waiters[i]] \in Published
    BY <1>0 DEF Sure, Published
  <2>3. QED
    BY <1>5, <2>1, <2>2 DEF SecondTime, cache
<1>6. ASSUME NEW c \in Calls, Joins(c) PROVE SecondTime'
  <2>1. \A i \in DOMAIN waiters : Serene(waiters[i])
    BY <1>5, <1>6 DEF Joins, TypeOK, cache
  <2>2. refreshes'[c] = 1
    BY <1>6 DEF Joins, TypeOK
  <2>3. \A i \in DOMAIN waiters' : (i \in DOMAIN waiters /\ waiters'[i] = waiters[i]) \/ waiters'[i] = c
    BY <1>6, LastInLine DEF Joins, TypeOK
  <2>4. \A i \in DOMAIN waiters' : Serene(waiters'[i])
    BY <2>1, <2>2, <2>3
  <2>5. QED
    BY <2>4 DEF SecondTime, Sure
<1>7. ASSUME NEW c \in Calls, Hits(c) \/ FetchFails(c) \/ Answer(c) PROVE SecondTime'
  <2>1. /\ UNCHANGED <<cache, waiters>>
        /\ \A h \in Calls : pc'[h] = "fetching" /\ answer'[h] # Unanswered =>
             answer'[h] = Published \/ (pc[h] = "fetching" /\ answer'[h] = answer[h])
        /\ \A w \in Calls : refreshes'[w] = 2 => refreshes[w] = 2
    BY <1>7 DEF Hits, FetchFails, Answer, Judge, TypeOK, lock
  <2>2. QED
    BY <1>0, <1>5, <2>1 DEF SecondTime, Sure
<1>8. CASE UNCHANGED <<cache, lock, calls>>
  BY <1>0, <1>5, <1>8 DEF SecondTime, Sure, lock, calls
<1>9. QED
  BY <1>2, <1>3, <1>4, <1>6, <1>7, <1>8, StepKinds DEF Publish, Withdraw, Tick, vars

LEMMA AgesStep == TypeOK /\ Lock /\ Born /\ Ages /\ [Next]_vars => Ages'
<1> SUFFICES ASSUME TypeOK, Lock, Born, Ages, [Next]_vars PROVE Ages'
  OBVIOUS
<1> USE VerifierConstants
<1> DEFINE Young(K, e) == \A k \in K : life[k] = "withdrawn" => e <= gone[k] + CacheTime + FetchTime
<1>0. clock \in Nat /\ \A k \in Keys : gone[k] \in Nat
  BY DEF TypeOK
<1>1. ASSUME NEW c \in Calls, NEW K \in SUBSET Keys, NEW e \in Nat, NEW q, Serves(c, K, e, q), holder \in {None, c},
             e <= clock + CacheTime, Young(K, e), UNCHANGED <<provider, clock>>
      PROVE  Ages'
  <2>1. keys' = K /\ (expiresAt' = e \/ expiresAt' = 0)
    BY <1>1 DEF Serves, Ends, Asks, Lines
  <2>2. \A d \in Calls : pc'[d] = "fetching" => answer'[d] = Unanswered /\ sent'[d] = clock
    BY <1>1, NoAnswer
  <2>3. QED
    BY <1>0, <1>1, <2>1, <2>2 DEF Ages, provider
<1>2. keys \in SUBSET Keys /\ expiresAt \in Nat /\ expiresAt <= clock + CacheTime /\ Young(keys, expiresAt)
  BY DEF TypeOK, Ages
<1>3. ASSUME NEW c \in Calls, Starts(c) \/ Wakes(c) PROVE Ages'
  BY <1>1, <1>2, <1>3, Serving DEF Starts, Wakes
<1>4. ASSUME NEW c \in Calls, Stores(c) PROVE Ages'
  <2>1. answer[c] \in SUBSET Keys /\ holder = c /\ clock + CacheTime \in Nat
    BY <1>0, <1>4 DEF Stores, TypeOK, Lock
  <2>2. sent[c] \in Nat /\ clock <= sent[c] + FetchTime
    BY <1>4 DEF Stores, Ages, TypeOK
  <2>3. Young(answer[c], clock + CacheTime)
    BY <1>0, <1>4, <2>1, <2>2 DEF Stores, Ages
  <2>4. QED
    BY <1>0, <1>1, <1>4, <2>1, <2>3, Serving DEF Stores
<1>5. ASSUME NEW c \in Calls, Hits(c) \/ Joins(c) \/ FetchFails(c) PROVE Ages'
  <2>1. /\ UNCHANGED <<provider, clock, cache>>
        /\ \A d \in Calls : pc'[d] = "fetching" =>
             pc[d] = "fetching" /\ sent'[d] = sent[d] /\ answer'[d] = answer[d]
    BY <1>5 DEF Hits, Joins, FetchFails, Judge, TypeOK
  <2>2. QED
    BY <2>1 DEF Ages, provider, cache
<1>6. ASSUME NEW c \in Calls, Answer(c) PROVE Ages'
  <2>1. /\ UNCHANGED <<provider, clock, cache, pc, sent>>
        /\ \A d \in Calls : answer'[d] = answer[d] \/ answer'[d] = Published
    BY <1>6 DEF Answer, TypeOK
  <2>2. \A k \in Published : life[k] # "withdrawn"
    BY DEF Published
  <2>3. QED
    BY <2>1, <2>2 DEF Ages, provider, cache
<1>7. ASSUME NEW k \in Keys, Publish(k) \/ Withdraw(k) PROVE Ages'
  <2>1. UNCHANGED <<clock, cache, calls>>
    BY <1>7 DEF Publish, Withdraw
  <2>2. \A x \in Keys : life'[x] = "withdrawn" =>
          (life[x] = "withdrawn" /\ gone'[x] = gone[x]) \/ gone'[x] = clock
    BY <1>7 DEF Publish, Withdraw, TypeOK
  <2>3. \A d \in Calls : pc[d] = "fetching" /\ answer[d] # Unanswered => answer[d] \in SUBSET Keys
    BY DEF TypeOK
  <2>4. \A x \in keys : life'[x] = "withdrawn" => expiresAt <= gone'[x] + CacheTime + FetchTime
    BY <1>0, <1>2, <2>2
  <2>5. QED
    BY <1>0, <2>1, <2>2, <2>3, <2>4 DEF Ages, cache, calls
<1>8. CASE Tick
  BY <1>0, <1>8 DEF Tick, Ages, TypeOK, provider, cache, calls
<1>9. CASE UNCHANGED vars
  BY <1>9 DEF Ages, vars, provider, cache, calls
<1>10. QED
  BY <1>3, <1>4, <1>5, <1>6, <1>7, <1>8, <1>9, StepKinds

LEMMA RotationStep == IInv /\ [Next]_vars => RotationRefusesNobody'
<1> SUFFICES ASSUME IInv, [Next]_vars, NEW d \in Calls, pc'[d] = "noKey", knew'[d],
                    life'[Kid[d]] # "withdrawn"
             PROVE  FALSE
  BY DEF RotationRefusesNobody
<1> USE VerifierConstants DEF IInv
<1>0. life'[Kid[d]] = "published"
  <2>1. Kid[d] \in Keys /\ life' \in [Keys -> {"unborn", "published", "withdrawn"}]
    BY TypeStep DEF TypeOK
  <2>2. life'[Kid[d]] # "unborn"
    BY BornStep DEF Born
  <2>3. QED
    BY <2>1, <2>2
<1>1. Sure(d) \/ pc[d] = "idle"
  BY <1>0, SureSteps
<1>2. pc[d] # "noKey"
  BY <1>1 DEF RotationRefusesNobody, Sure
<1>3. ASSUME NEW c \in Calls, Starts(c) PROVE FALSE
  BY <1>2, <1>3 DEF Starts, Turn, Ends, Asks, Lines, Fetch, StandInLine, Judge, TypeOK
<1>4. ASSUME NEW c \in Calls, Wakes(c) PROVE FALSE
  <2>1. d = c /\ UpToDate /\ refreshes[c] = 2 /\ Kid[c] \notin keys
    BY <1>2, <1>4 DEF Wakes, Turn, Ends, Asks, Lines, Fetch, StandInLine, Judge, TypeOK
  <2>2. waiters[1] = c /\ 1 \in DOMAIN waiters
    BY <1>4, BehindTheFirst DEF Wakes, TypeOK
  <2>3. Sure(c)
    BY <1>1, <2>1, <2>2 DEF Lock
  <2>4. expiresAt = 0
    BY <2>1, <2>2, <2>3 DEF SecondTime
  <2>5. QED
    BY <2>1, <2>4 DEF UpToDate, Stale, TypeOK
<1>5. ASSUME NEW c \in Calls, Stores(c) PROVE FALSE
  <2>1. d = c /\ Kid[c] \notin answer[c]
    BY <1>2, <1>5 DEF Stores, Turn, Ends, Asks, Lines, Fetch, StandInLine, Judge, TypeOK
  <2>2. QED
    BY <1>1, <1>5, <2>1 DEF Stores, Complete
<1>6. QED
  BY <1>2, <1>3, <1>4, <1>5, StepKinds
     DEF Hits, Joins, FetchFails, Answer, Publish, Withdraw, Tick, vars, calls, Judge, TypeOK

LEMMA IInvStep == IInv /\ [Next]_vars => IInv'
BY TypeStep, LockStep, BornStep, CompleteStep, SecondStep, AgesStep, RotationStep DEF IInv

LEMMA Invariance == Spec => []IInv
BY IInvInit, IInvStep, PTL DEF Spec

(***************************************************************************)
(* What follows.                                                           *)
(***************************************************************************)
\* Cache, lock, calls and provider keep their types, whatever the constants.
THEOREM VerifierTypes == Spec => []TypeOK
BY Invariance, PTL DEF IInv

\* No token is refused on account of a rotation: not while many calls share one
\* cache, and wherever the rotation falls between their steps.
THEOREM RotationIsHarmless == Spec => []RotationRefusesNobody
BY Invariance, PTL DEF IInv

\* Answers are stored in the order of the questions: no key is lost that is
\* still published.
THEOREM CacheNeverGoesBack == Spec => NoKeyIsForgotten
<1>1. ASSUME IInv, [Next]_vars, NEW k \in keys, k \notin keys' PROVE life[k] = "withdrawn"
  <2>1. k \in Keys /\ life[k] \in {"published", "withdrawn"}
    BY <1>1 DEF IInv, Born, TypeOK
  <2>2. PICK c \in Calls : Stores(c)
    BY <1>1, StepKinds DEF Hits, Joins, Starts, Wakes, Turn, Ends, Asks, Lines, FetchFails, Answer,
       Publish, Withdraw, Tick, vars, cache
  <2>3. keys' = answer[c]
    BY <2>2 DEF Stores, Turn, Ends, Asks, Lines
  <2>4. QED
    BY <1>1, <2>1, <2>2, <2>3 DEF Stores, IInv, Complete
<1>2. IInv /\ [Next]_vars => [\A k \in keys \ keys' : life[k] = "withdrawn"]_vars
  BY <1>1
<1>3. QED
  BY <1>2, Invariance, PTL DEF Spec, NoKeyIsForgotten

\* A withdrawn key is accepted no longer than the cache and one exchange last.
THEOREM WithdrawnKeysAreShortLived == Spec => WithdrawnKeysExpire
<1> USE VerifierConstants
<1>1. ASSUME IInv, [Next]_vars, NEW c \in Calls, pc[c] # "accepted", pc'[c] = "accepted"
      PROVE  \/ life[Kid[c]] = "published"
             \/ /\ life[Kid[c]] = "withdrawn"
                /\ clock < gone[Kid[c]] + CacheTime + FetchTime
  <2>0. /\ life[Kid[c]] \in {"unborn", "published", "withdrawn"} /\ gone[Kid[c]] \in Nat
        /\ clock \in Nat /\ expiresAt \in Nat
    BY <1>1 DEF IInv, TypeOK
  <2>1. CASE Kid[c] \in keys /\ ~Stale
    BY <1>1, <2>0, <2>1 DEF IInv, Born, Ages, Stale
  <2>2. CASE Stores(c) /\ Kid[c] \in answer[c]
    <3>1. sent[c] \in Nat /\ clock <= sent[c] + FetchTime
      BY <1>1, <2>2 DEF IInv, Stores, Ages, TypeOK
    <3>2. /\ life[Kid[c]] # "unborn"
          /\ life[Kid[c]] = "withdrawn" => sent[c] <= gone[Kid[c]]
      BY <1>1, <2>2 DEF IInv, Stores, Born, Ages
    <3>3. QED
      BY <2>0, <3>1, <3>2
  <2>3. ASSUME NEW d \in Calls, Starts(d) \/ Wakes(d) \/ Stores(d)
        PROVE  \/ Kid[c] \in keys /\ ~Stale
               \/ Stores(c) /\ Kid[c] \in answer[c]
    BY <1>1, <2>3 DEF Starts, Wakes, Stores, Turn, Ends, Asks, Lines, Fetch, StandInLine, Judge, UpToDate,
       IInv, TypeOK
  <2>4. ASSUME NEW d \in Calls, Hits(d) PROVE Kid[c] \in keys /\ ~Stale
    BY <1>1, <2>4 DEF Hits, Judge, IInv, TypeOK
  <2>5. \E d \in Calls : Hits(d) \/ Starts(d) \/ Wakes(d) \/ Stores(d)
    BY <1>1, StepKinds DEF Joins, FetchFails, Answer, Publish, Withdraw, Tick, vars, calls, Judge, IInv, TypeOK
  <2>6. QED
    BY <2>1, <2>2, <2>3, <2>4, <2>5
<1>2. IInv /\ [Next]_vars =>
        [\A c \in Calls : pc[c] # "accepted" /\ pc'[c] = "accepted" =>
           \/ life[Kid[c]] = "published"
           \/ /\ life[Kid[c]] = "withdrawn"
              /\ clock < gone[Kid[c]] + CacheTime + FetchTime]_vars
  BY <1>1
<1>3. QED
  BY <1>2, Invariance, PTL DEF Spec, WithdrawnKeysExpire

=============================================================================
