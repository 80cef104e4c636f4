------------------------------ MODULE ByteCache ------------------------------
(***************************************************************************)
(* The cache of decoded snapshot children (application/catalog/cache.go):  *)
(* concurrent calls of Load share one flight per key, flights are admitted *)
(* under a budget of their own, and what they decode is kept in LRU order. *)
(*                                                                         *)
(* Grain.  Every critical section of cache.mutex is one action; the two    *)
(* selects of Load are actions of their own.  A flight is named by the     *)
(* call of Load that started it.  A flight leaves the flights map when its *)
(* last waiter goes or its snapshot is evicted, and still runs and holds   *)
(* its reservation until its loader returns.  The counters behind Stats    *)
(* that nothing reads back (hits, misses, bypassed, peaks) are left out.   *)
(***************************************************************************)
EXTENDS Lists, FiniteSetsExt

CONSTANTS
  Loads,          \* calls of Load, each in its goroutine
  Impatient,      \* those whose context may end
  Keys,
  SnapshotOf,     \* the snapshot in each key
  Length,         \* expectedLength of each key
  MaxDecoded,     \* maximumDecodedWeight of each key
  Entries, Bytes, FlightEntries, FlightBytes,  \* CacheLimits after NewByteCache
  MaxEvictions,   \* bound on the calls of EvictSnapshot
  None

ASSUME CacheConstants ==
  /\ IsFiniteSet(Loads) /\ IsFiniteSet(Keys)
  /\ Impatient \subseteq Loads
  /\ Length \in [Keys -> Nat \ {0}] /\ MaxDecoded \in [Keys -> Nat]
  /\ {Entries, Bytes, FlightEntries, FlightBytes, MaxEvictions} \subseteq Nat
  /\ None \notin Loads \cup Keys

VARIABLES
  entries,        \* the keys of the entries map
  lru,            \* the list of the same keys, the most recent first
  weight,         \* the weight of each cached entry
  bytes,          \* cache.bytes
  flights,        \* the flights map: the flight a key may be joined on
  state,          \* of each flight: none, running, done or failed
  waiters,        \* flight.waiters
  flightEntries, flightBytes,
  asleep,         \* calls blocked on the current cache.capacityChanged
  wants, joined,  \* the key of each call and the flight it waits for
  cancelled,      \* calls whose context is done
  pc,
  origin,         \* history: the flight each cached entry came from
  overtaken,      \* history: flights that ran while their snapshot was evicted
  evictions

store == <<entries, lru, weight, bytes, origin>>
budget == <<flightEntries, flightBytes>>
vars == <<entries, lru, weight, bytes, flights, state, waiters, flightEntries, flightBytes, asleep, wants,
          joined, cancelled, pc, origin, overtaken, evictions>>

Reservation(k) == Length[k] + MaxDecoded[k]
MaxWeight == Max({0} \cup {Reservation(k) : k \in Keys})

\* Every variable has its type, and the LRU list holds every key of the entries map once: no
\* hit, admission or eviction leaves the two of them apart.
TypeOK ==
  /\ entries \subseteq Keys
  /\ lru \in Seq(Keys) /\ Range(lru) = entries /\ Len(lru) = Cardinality(entries)
  /\ weight \in [Keys -> 0..MaxWeight]
  /\ bytes \in Nat
  /\ flights \in [Keys -> Loads \cup {None}]
  /\ state \in [Loads -> {"none", "running", "done", "failed"}]
  /\ waiters \in [Loads -> 0..Cardinality(Loads)]
  /\ flightEntries \in Nat /\ flightBytes \in Nat
  /\ asleep \subseteq Loads
  /\ wants \in [Loads -> Keys \cup {None}]
  /\ joined \in [Loads -> Loads \cup {None}]
  /\ cancelled \subseteq Impatient
  /\ pc \in [Loads -> {"start", "looking", "sleeping", "waiting", "leaving", "gone"}]
  /\ origin \in [Keys -> Loads \cup {None}]
  /\ overtaken \subseteq Loads
  /\ evictions \in 0..MaxEvictions

Init ==
  /\ entries = {} /\ lru = <<>> /\ weight = [k \in Keys |-> 0] /\ bytes = 0
  /\ flights = [k \in Keys |-> None]
  /\ state = [c \in Loads |-> "none"] /\ waiters = [c \in Loads |-> 0]
  /\ flightEntries = 0 /\ flightBytes = 0
  /\ asleep = {} /\ wants = [c \in Loads |-> None] /\ joined = [c \in Loads |-> None]
  /\ cancelled = {} /\ pc = [c \in Loads |-> "start"]
  /\ origin = [k \in Keys |-> None] /\ overtaken = {} /\ evictions = 0

Goto(c, label) == pc' = [pc EXCEPT ![c] = label]
Cached(k) == k \in entries
WeightOf(w, S) == MapThenSumSet(LAMBDA k : w[k], S)
Running == {f \in Loads : state[f] = "running"}

-----------------------------------------------------------------------------
\* Load

Cancel(c) ==
  /\ c \in Impatient \ cancelled /\ pc[c] # "gone"
  /\ cancelled' = cancelled \cup {c}
  /\ UNCHANGED <<store, flights, state, waiters, budget, asleep, wants, joined, pc, overtaken,
                 evictions>>

\* The call, up to its loop.
Load(c, k) ==
  /\ pc[c] = "start"
  /\ wants' = [wants EXCEPT ![c] = k]
  /\ Goto(c, IF c \in cancelled THEN "gone" ELSE "looking")
  /\ UNCHANGED <<store, flights, state, waiters, budget, asleep, joined, cancelled, overtaken,
                 evictions>>

\* A turn of the loop starts here: at first, or when capacityChanged was closed.
Turn(c) == pc[c] = "looking" \/ (pc[c] = "sleeping" /\ c \notin asleep)

LoadCancelled(c) ==
  /\ (Turn(c) \/ pc[c] = "sleeping") /\ c \in cancelled
  /\ Goto(c, "gone") /\ asleep' = asleep \ {c}
  /\ UNCHANGED <<store, flights, state, waiters, budget, wants, joined, cancelled, overtaken,
                 evictions>>

\* Mutant: a hit adds the key again.
HitAgain(c) ==
  /\ Turn(c) /\ c \notin cancelled /\ Cached(wants[c])
  /\ lru' = <<wants[c]>> \o lru
  /\ Goto(c, "gone")
  /\ UNCHANGED <<entries, weight, bytes, origin, flights, state, waiters, budget, asleep, wants,
                 joined, cancelled, overtaken, evictions>>

Hit(c) ==
  /\ Turn(c) /\ c \notin cancelled /\ Cached(wants[c])
  /\ lru' = <<wants[c]>> \o Without(lru, {wants[c]})
  /\ Goto(c, "gone")
  /\ UNCHANGED <<entries, weight, bytes, origin, flights, state, waiters, budget, asleep, wants,
                 joined, cancelled, overtaken, evictions>>

Wait(c, f) ==
  /\ waiters' = [waiters EXCEPT ![f] = @ + 1]
  /\ joined' = [joined EXCEPT ![c] = f]
  /\ Goto(c, "waiting")

Join(c) ==
  /\ Turn(c) /\ c \notin cancelled
  /\ ~Cached(wants[c]) /\ flights[wants[c]] # None
  /\ Wait(c, flights[wants[c]])
  /\ UNCHANGED <<store, flights, state, budget, asleep, wants, cancelled, overtaken, evictions>>

Fits(k) == Reservation(k) <= FlightBytes /\ FlightEntries # 0 /\ FlightBytes # 0
Free(k) == flightEntries < FlightEntries /\ flightBytes <= FlightBytes - Reservation(k)

\* ErrCacheFlightTooLarge, or the wait for capacity.
Refuse(c) ==
  /\ Turn(c) /\ c \notin cancelled
  /\ ~Cached(wants[c]) /\ flights[wants[c]] = None
  /\ \/ ~Fits(wants[c]) /\ Goto(c, "gone") /\ UNCHANGED asleep
     \/ Fits(wants[c]) /\ ~Free(wants[c]) /\ Goto(c, "sleeping") /\ asleep' = asleep \cup {c}
  /\ UNCHANGED <<store, flights, state, waiters, budget, wants, joined, cancelled, overtaken,
                 evictions>>

Start(c) ==
  /\ Turn(c) /\ c \notin cancelled
  /\ ~Cached(wants[c]) /\ flights[wants[c]] = None
  /\ Fits(wants[c]) /\ Free(wants[c])
  /\ flights' = [flights EXCEPT ![wants[c]] = c]
  /\ state' = [state EXCEPT ![c] = "running"]
  /\ flightEntries' = flightEntries + 1
  /\ flightBytes' = flightBytes + Reservation(wants[c])
  /\ Wait(c, c)
  /\ UNCHANGED <<store, asleep, wants, cancelled, overtaken, evictions>>

\* The select: the flight is done, or the context is.
Leave(c) ==
  /\ pc[c] = "waiting"
  /\ c \in cancelled \/ state[joined[c]] \in {"done", "failed"}
  /\ Goto(c, "leaving")
  /\ UNCHANGED <<store, flights, state, waiters, budget, asleep, wants, joined, cancelled,
                 overtaken, evictions>>

\* Mutant: whoever leaves first drops the flight.
ReleaseWaiterDrops(c) ==
  LET f == joined[c] IN
  /\ pc[c] = "leaving"
  /\ waiters' = [waiters EXCEPT ![f] = @ - 1]
  /\ flights' = [flights EXCEPT ![wants[c]] = IF @ = f THEN None ELSE @]
  /\ Goto(c, "gone")
  /\ UNCHANGED <<store, state, budget, asleep, wants, joined, cancelled, overtaken, evictions>>

\* The last waiter takes the flight out of the map.
ReleaseWaiter(c) ==
  LET f == joined[c] IN
  /\ pc[c] = "leaving"
  /\ waiters' = [waiters EXCEPT ![f] = IF @ > 0 THEN @ - 1 ELSE @]
  /\ flights' = [flights EXCEPT ![wants[c]] = IF waiters'[f] = 0 /\ @ = f THEN None ELSE @]
  /\ Goto(c, "gone")
  /\ UNCHANGED <<store, state, budget, asleep, wants, joined, cancelled, overtaken, evictions>>

-----------------------------------------------------------------------------
\* Flights

\* The entries that stay when the oldest are dropped until both limits hold.
Kept(s, w) ==
  LET sizes == {n \in 0..Len(s) : n <= Entries /\ WeightOf(w, Range(SubSeq(s, 1, n))) <= Bytes}
  IN  SubSeq(s, 1, Max(sizes))

\* admit, behind the test that the entry can be kept at all.
Admit(f, k, w) ==
  IF w > Bytes \/ Entries = 0 \/ Bytes = 0
  THEN UNCHANGED store
  ELSE LET weights == [weight EXCEPT ![k] = w]
           order == <<k>> \o Without(lru, {k})
           dropped == Range(order) \ Range(Kept(order, weights))
       IN  /\ entries' = (entries \cup {k}) \ dropped
           /\ lru' = Kept(order, weights)
           /\ weight' = [x \in Keys |-> IF x \in dropped THEN 0 ELSE weights[x]]
           /\ bytes' = (bytes - weight[k]) + w - WeightOf(weights, dropped)
           /\ origin' = [x \in Keys |-> IF x \in dropped THEN None
                                        ELSE IF x = k THEN f ELSE origin[x]]

\* Mutants: the reservation of a flight nobody waits for any more is not given back; what it
\* loaded is admitted; a failed flight does not signal.
CompleteLeaks(f, w, failed) ==
  LET k == wants[f] owns == flights[k] = f IN
  /\ flights' = [flights EXCEPT ![k] = IF owns THEN None ELSE @]
  /\ flightEntries' = IF owns THEN flightEntries - 1 ELSE flightEntries
  /\ flightBytes' = IF owns THEN flightBytes - Reservation(k) ELSE flightBytes
  /\ asleep' = {}
  /\ IF owns /\ ~failed THEN Admit(f, k, w) ELSE UNCHANGED store

CompleteOrphan(f, w, failed) ==
  LET k == wants[f] owns == flights[k] = f IN
  /\ flights' = [flights EXCEPT ![k] = IF owns THEN None ELSE @]
  /\ flightEntries' = flightEntries - 1
  /\ flightBytes' = flightBytes - Reservation(k)
  /\ asleep' = {}
  /\ IF ~failed THEN Admit(f, k, w) ELSE UNCHANGED store

CompleteSilent(f, w, failed) ==
  LET k == wants[f] owns == flights[k] = f IN
  /\ flights' = [flights EXCEPT ![k] = IF owns THEN None ELSE @]
  /\ flightEntries' = flightEntries - 1
  /\ flightBytes' = flightBytes - Reservation(k)
  /\ asleep' = IF failed THEN asleep ELSE {}
  /\ IF owns /\ ~failed THEN Admit(f, k, w) ELSE UNCHANGED store

\* complete: the flight gives back its reservation and wakes the calls waiting for capacity;
\* its result is kept if the flight still is in the map.
Complete(f, w, failed) ==
  LET k == wants[f] owns == flights[k] = f IN
  /\ flights' = [flights EXCEPT ![k] = IF owns THEN None ELSE @]
  /\ flightEntries' = flightEntries - 1
  /\ flightBytes' = flightBytes - Reservation(k)
  /\ asleep' = {}
  /\ IF owns /\ ~failed THEN Admit(f, k, w) ELSE UNCHANGED store

\* execute: the loader, the length, the digest, the decoder and its weight; each of them, or
\* a panic, may fail the flight.
Execute(f) ==
  /\ state[f] = "running"
  /\ \/ /\ Complete(f, 0, TRUE)
        /\ state' = [state EXCEPT ![f] = "failed"]
     \/ \E d \in 0..MaxDecoded[wants[f]] :
          /\ Complete(f, Length[wants[f]] + d, FALSE)
          /\ state' = [state EXCEPT ![f] = "done"]
  /\ UNCHANGED <<waiters, wants, joined, cancelled, pc, overtaken, evictions>>

\* Mutant: the flights in progress are not told.
EvictSnapshotEntries(s) ==
  LET gone == {k \in Keys : SnapshotOf[k] = s} IN
  /\ evictions < MaxEvictions /\ evictions' = evictions + 1
  /\ entries' = entries \ gone /\ lru' = Without(lru, gone)
  /\ weight' = [k \in Keys |-> IF k \in gone THEN 0 ELSE weight[k]]
  /\ bytes' = bytes - WeightOf(weight, gone \cap entries)
  /\ origin' = [k \in Keys |-> IF k \in gone THEN None ELSE origin[k]]
  /\ overtaken' = overtaken \cup {f \in Running : wants[f] \in gone}
  /\ UNCHANGED <<flights, state, waiters, budget, asleep, wants, joined, cancelled, pc>>

EvictSnapshot(s) ==
  LET gone == {k \in Keys : SnapshotOf[k] = s} IN
  /\ evictions < MaxEvictions /\ evictions' = evictions + 1
  /\ entries' = entries \ gone /\ lru' = Without(lru, gone)
  /\ weight' = [k \in Keys |-> IF k \in gone THEN 0 ELSE weight[k]]
  /\ bytes' = bytes - WeightOf(weight, gone \cap entries)
  /\ origin' = [k \in Keys |-> IF k \in gone THEN None ELSE origin[k]]
  /\ flights' = [k \in Keys |-> IF k \in gone THEN None ELSE flights[k]]
  /\ overtaken' = overtaken \cup {f \in Running : wants[f] \in gone}
  /\ UNCHANGED <<state, waiters, budget, asleep, wants, joined, cancelled, pc>>

-----------------------------------------------------------------------------
LoadStep(c) ==
  \/ \E k \in Keys : Load(c, k)
  \/ LoadCancelled(c) \/ Hit(c) \/ Join(c) \/ Refuse(c) \/ Start(c)
  \/ Leave(c) \/ ReleaseWaiter(c)

\* Every call has returned and every flight has ended.
Finished == (\A c \in Loads : pc[c] = "gone") /\ Running = {} /\ UNCHANGED vars

Next ==
  \/ \E c \in Loads : Cancel(c) \/ LoadStep(c) \/ Execute(c)
  \/ \E s \in {SnapshotOf[k] : k \in Keys} : EvictSnapshot(s)
  \/ Finished

Spec == Init /\ [][Next]_vars

\* The scheduler runs every goroutine that can run, and loaders and decoders return.
FairSpec == Spec /\ \A c \in Loads : WF_vars(LoadStep(c)) /\ WF_vars(Execute(c))

-----------------------------------------------------------------------------
\* Properties

\* A slot is held by every running flight, whether anybody waits for it or not.
SlotsAreExact == flightEntries = Cardinality(Running) /\ flightEntries <= FlightEntries

\* Both budgets are exact and kept: bytes is the weight of what is cached, and flightEntries
\* and flightBytes are what the running flights reserved, those nobody waits for included; no
\* counter ever passes its limit or falls below zero.
BudgetsAreExact ==
  /\ bytes = WeightOf(weight, entries) /\ bytes <= Bytes /\ Cardinality(entries) <= Entries
  /\ SlotsAreExact
  /\ flightBytes = WeightOf([f \in Running |-> Reservation(wants[f])], Running)
  /\ flightBytes <= FlightBytes

\* A key that is cached is not being loaded by a flight others may join: no child is decoded
\* again while its value is at hand, and admit never replaces an entry.
LoadedOnce == \A k \in Keys : flights[k] # None => ~Cached(k) /\ state[flights[k]] = "running"

\* What was loaded before an eviction of its snapshot, however late it arrives, is not cached
\* after it.
EvictedStaysOut == \A k \in Keys : Cached(k) => origin[k] \notin overtaken

\* A flight is given up only when nobody waits for it or its snapshot was evicted: a call that
\* joined a flight is not failed by the cancellation of another.
JoinedFlightsContinue ==
  \A c \in Loads :
    pc[c] = "waiting" /\ state[joined[c]] = "running" =>
      flights[wants[c]] = joined[c] \/ joined[c] \in overtaken

\* No wakeup is lost: every call returns.
EveryLoadReturns == \A c \in Loads : <>(pc[c] = "gone")
==============================================================================
