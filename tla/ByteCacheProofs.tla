--------------------------- MODULE ByteCacheProofs ---------------------------
(***************************************************************************)
(* For any calls, keys, weights, limits, evictions and cancellations: a    *)
(* child is loaded once, what an eviction overtook stays out of the cache, *)
(* a flight is given up only when nobody waits for it, and both budgets    *)
(* are exact and kept.                                                     *)
(*                                                                         *)
(* CInv is about the calls and the flights, BInv about what is cached and  *)
(* what is reserved.  BInv needs facts about sums and lists, which are     *)
(* proved by induction over sets in the middle of the module.              *)
(***************************************************************************)
EXTENDS ByteCache, FiniteSetTheorems, SequenceTheorems, WellFoundedInduction, TLAPS

Labels == {"start", "looking", "sleeping", "waiting", "leaving", "gone"}
Attending == {"waiting", "leaving"}

Types ==
  /\ entries \subseteq Keys
  /\ flights \in [Keys -> Loads \cup {None}]
  /\ state \in [Loads -> {"none", "running", "done", "failed"}]
  /\ waiters \in [Loads -> Nat]
  /\ wants \in [Loads -> Keys \cup {None}]
  /\ joined \in [Loads -> Loads \cup {None}]
  /\ pc \in [Loads -> Labels]
  /\ origin \in [Keys -> Loads \cup {None}]
  /\ overtaken \subseteq Loads

\* A call starts at most one flight, names its key before, and waits for a
\* flight of that key.
Callers ==
  \A c \in Loads :
    /\ pc[c] \in {"start", "looking", "sleeping"} => state[c] = "none"
    /\ pc[c] # "start" \/ state[c] # "none" => wants[c] \in Keys
    /\ pc[c] \in Attending =>
         joined[c] \in Loads /\ state[joined[c]] # "none" /\ wants[joined[c]] = wants[c]

\* A flight in the map is running, for its key, which is not cached.
Mapped ==
  \A k \in Keys : flights[k] # None =>
    state[flights[k]] = "running" /\ wants[flights[k]] = k /\ k \notin entries

\* A flight that was overtaken has left the map, and an entry came from a
\* flight that ended without being overtaken.
Overtaken == \A f \in overtaken : state[f] # "none" /\ flights[wants[f]] # f
Sources == \A k \in entries :
  origin[k] \in Loads /\ state[origin[k]] = "done" /\ origin[k] \notin overtaken

\* waiters is the number of calls that have joined and not left.
Waiting(f) == {c \in Loads : pc[c] \in Attending /\ joined[c] = f}
Attended == \A f \in Loads : waiters[f] = Cardinality(Waiting(f))

CInv ==
  Types /\ Callers /\ Mapped /\ Overtaken /\ Sources /\ Attended /\ JoinedFlightsContinue

-----------------------------------------------------------------------------
\* What admit does to the entries: at most the new one is added, and it comes
\* from the flight that completed.
LEMMA AdmitIs ==
  ASSUME Types, NEW f \in Loads, NEW k \in Keys, NEW w, Admit(f, k, w)
  PROVE  /\ entries' \subseteq entries \cup {k}
         /\ origin' \in [Keys -> Loads \cup {None}]
         /\ \A x \in entries' : IF x = k THEN origin'[x] = f \/ (x \in entries /\ origin' = origin)
                                         ELSE origin'[x] = origin[x]
<1>1. CASE UNCHANGED store
  BY <1>1, Zenon DEF store, Types
<1>2. CASE ~ UNCHANGED store
  <2> DEFINE weights == [weight EXCEPT ![k] = w]
             order == <<k>> \o Without(lru, {k})
             dropped == Range(order) \ Range(Kept(order, weights))
  <2>1. /\ entries' = (entries \cup {k}) \ dropped
        /\ origin' = [x \in Keys |-> IF x \in dropped THEN None
                                     ELSE IF x = k THEN f ELSE origin[x]]
    BY <1>2, Zenon DEF Admit
  <2> HIDE DEF dropped
  <2> QED BY <2>1, Zenon DEF Types
<1> QED BY <1>1, <1>2

\* What a flight's end does.
LEMMA ExecuteIs ==
  ASSUME CInv, NEW f \in Loads, Execute(f)
  PROVE  /\ state[f] = "running" /\ wants[f] \in Keys
         /\ \E r \in {"done", "failed"} : state' = [state EXCEPT ![f] = r]
         /\ flights' = [flights EXCEPT ![wants[f]] = IF flights[wants[f]] = f THEN None ELSE @]
         /\ entries' \subseteq entries \cup {wants[f]}
         /\ entries' \subseteq entries \/ (flights[wants[f]] = f /\ state'[f] = "done")
         /\ origin' \in [Keys -> Loads \cup {None}]
         /\ \A x \in entries' : IF x = wants[f]
              THEN \/ origin'[x] = f /\ flights[wants[f]] = f /\ state'[f] = "done"
                   \/ x \in entries /\ origin'[x] = origin[x]
              ELSE origin'[x] = origin[x]
         /\ UNCHANGED <<waiters, wants, joined, pc, overtaken>>
<1>1. state[f] = "running" /\ wants[f] \in Keys /\ UNCHANGED <<waiters, wants, joined, pc, overtaken>>
  BY DEF Execute, CInv, Callers
<1>2. ASSUME NEW w, Complete(f, w, FALSE), state' = [state EXCEPT ![f] = "done"]
      PROVE  /\ flights' = [flights EXCEPT ![wants[f]] = IF flights[wants[f]] = f THEN None ELSE @]
             /\ state'[f] = "done"
             /\ IF flights[wants[f]] = f THEN Admit(f, wants[f], w) ELSE UNCHANGED store
  BY <1>2, Zenon DEF Complete, CInv, Types
<1>3. CASE \E d \in 0..MaxDecoded[wants[f]] :
             /\ Complete(f, Length[wants[f]] + d, FALSE)
             /\ state' = [state EXCEPT ![f] = "done"]
  <2>1. PICK w : Complete(f, w, FALSE) /\ state' = [state EXCEPT ![f] = "done"]
    BY <1>3, Zenon
  <2>2. CASE flights[wants[f]] = f
    BY <1>1, <1>2, <2>1, <2>2, AdmitIs, ZenonT(60) DEF CInv
  <2>3. CASE flights[wants[f]] # f
    BY <1>1, <1>2, <2>1, <2>3, Zenon DEF CInv, Types, store
  <2> QED BY <2>2, <2>3, Zenon
<1>4. CASE Complete(f, 0, TRUE) /\ state' = [state EXCEPT ![f] = "failed"]
  <2>1. /\ flights' = [flights EXCEPT ![wants[f]] = IF flights[wants[f]] = f THEN None ELSE @]
        /\ UNCHANGED store
    BY <1>4, Zenon DEF Complete
  <2> QED BY <1>1, <1>4, <2>1, Zenon DEF CInv, Types, store
<1> QED BY <1>3, <1>4, Zenon DEF Execute

-----------------------------------------------------------------------------
(* The steps.                                                               *)

shared == <<entries, flights, state, waiters, wants, joined, origin, overtaken>>

\* The calls that attend a flight stay the same when nobody comes or goes.
LEMMA SameWaiting ==
  ASSUME Types, NEW c \in Loads, NEW l \in Labels, pc' = [pc EXCEPT ![c] = l],
         pc[c] \in Attending <=> l \in Attending, UNCHANGED <<waiters, joined>>, Attended
  PROVE  Attended'
<1>1. ASSUME NEW f \in Loads PROVE Waiting(f)' = Waiting(f)
  BY Zenon DEF Waiting, Types
<1> QED BY <1>1, Zenon DEF Attended

\* A call that goes on alone: it returns, waits for capacity, or its select
\* was woken.
LEMMA AloneKeeps ==
  ASSUME CInv, UNCHANGED shared, NEW c \in Loads, NEW l \in Labels,
         pc' = [pc EXCEPT ![c] = l],
         \/ pc[c] \in {"looking", "sleeping"} /\ l \in {"sleeping", "gone"}
         \/ pc[c] = "waiting" /\ l = "leaving"
  PROVE  CInv'
<1>1. Attended'
  BY SameWaiting, Zenon DEF CInv, shared, Attending
<1>2. Types'
  BY Zenon DEF CInv, Types, shared
<1>3. Callers'
  BY Zenon DEF CInv, Types, Callers, shared, Attending
<1>4. Mapped' /\ Overtaken' /\ Sources'
  BY Zenon DEF CInv, Mapped, Overtaken, Sources, shared
<1>5. JoinedFlightsContinue'
  BY Zenon DEF CInv, Types, JoinedFlightsContinue, shared
<1> QED BY <1>1, <1>2, <1>3, <1>4, <1>5, Zenon DEF CInv

\* A call names its key.
LEMMA LoadKeeps ==
  ASSUME CInv, NEW c \in Loads, NEW k \in Keys, Load(c, k)
  PROVE  CInv'
<1>1. PICK l \in {"gone", "looking"} :
        /\ pc[c] = "start" /\ pc' = [pc EXCEPT ![c] = l] /\ wants' = [wants EXCEPT ![c] = k]
        /\ UNCHANGED <<entries, flights, state, waiters, joined, origin, overtaken>>
  BY Zenon DEF Load, Goto, store
<1>2. state[c] = "none"
  BY <1>1, Zenon DEF CInv, Callers
<1>3. \A f \in Loads : state[f] # "none" => wants'[f] = wants[f]
  BY <1>1, <1>2, Zenon DEF CInv, Types
<1>4. Attended'
  BY <1>1, SameWaiting, Zenon DEF CInv, Attending, Labels
<1>5. Types'
  BY <1>1, Zenon DEF CInv, Types, Labels
<1>6. Callers'
  BY <1>1, <1>2, <1>3, ZenonT(60) DEF CInv, Types, Callers, Attending
<1>7. Mapped'
  BY <1>1, <1>3 DEF CInv, Types, Mapped
<1>8. Overtaken' /\ Sources'
  BY <1>1, <1>3, Zenon DEF CInv, Types, Overtaken, Sources
<1>9. JoinedFlightsContinue'
  BY <1>1, Zenon DEF CInv, Types, JoinedFlightsContinue
<1> QED BY <1>4, <1>5, <1>6, <1>7, <1>8, <1>9, ZenonT(60) DEF CInv

\* One more call attends a flight.
LEMMA OneMore ==
  ASSUME Types, Attended, NEW c \in Loads, NEW f \in Loads, pc[c] \notin Attending, Wait(c, f)
  PROVE  Attended' /\ waiters' \in [Loads -> Nat]
<1>1. /\ Waiting(f)' = Waiting(f) \cup {c} /\ c \notin Waiting(f)
      /\ \A g \in Loads \ {f} : Waiting(g)' = Waiting(g)
  BY Zenon DEF Wait, Goto, Waiting, Types, Attending
<1>2. IsFiniteSet(Waiting(f))
  BY CacheConstants, FS_Subset, Zenon DEF Waiting
<1>3. Cardinality(Waiting(f) \cup {c}) = Cardinality(Waiting(f)) + 1
  BY <1>1, <1>2, FS_AddElement, Zenon
<1>4. waiters' = [waiters EXCEPT ![f] = @ + 1] /\ waiters[f] \in Nat
  BY Zenon DEF Wait, Types
<1>5. waiters' \in [Loads -> Nat]
  BY <1>4 DEF Types
<1>6. waiters'[f] = Cardinality(Waiting(f)')
  BY <1>1, <1>3, <1>4, Zenon DEF Attended, Types
<1>7. \A g \in Loads \ {f} : waiters'[g] = Cardinality(Waiting(g)')
  BY <1>1, <1>4, Zenon DEF Attended, Types
<1> QED BY <1>5, <1>6, <1>7, Zenon DEF Attended

\* A call joins the flight of its key.
LEMMA JoinKeeps ==
  ASSUME CInv, NEW c \in Loads, Join(c)
  PROVE  CInv'
<1> DEFINE f == flights[wants[c]]
<1>1. /\ pc[c] \in {"looking", "sleeping"} /\ f # None /\ Wait(c, f)
      /\ UNCHANGED <<entries, flights, state, wants, origin, overtaken>>
  BY Zenon DEF Join, Turn, store
<1>2. wants[c] \in Keys /\ state[c] = "none"
  BY <1>1, Zenon DEF CInv, Callers
<1>3. f \in Loads /\ state[f] = "running" /\ wants[f] = wants[c]
  BY <1>1, <1>2 DEF CInv, Types, Mapped
<1> HIDE DEF f
<1>4. /\ pc' = [pc EXCEPT ![c] = "waiting"] /\ joined' = [joined EXCEPT ![c] = f]
  BY <1>1, Zenon DEF Wait, Goto
<1>5. Attended' /\ waiters' \in [Loads -> Nat]
  BY <1>1, <1>3, OneMore, Zenon DEF CInv, Attending
<1>6. Types'
  BY <1>1, <1>3, <1>4, <1>5, Zenon DEF CInv, Types, Labels
<1>7. Callers'
  BY <1>1, <1>2, <1>3, <1>4, Zenon DEF CInv, Types, Callers, Attending
<1>8. Mapped' /\ Overtaken' /\ Sources'
  BY <1>1, Zenon DEF CInv, Mapped, Overtaken, Sources
<1>9. JoinedFlightsContinue'
  BY <1>1, <1>4, Zenon DEF CInv, Types, JoinedFlightsContinue, f
<1> QED BY <1>5, <1>6, <1>7, <1>8, <1>9, Zenon DEF CInv

\* A call starts the flight of its key and attends it.
LEMMA StartKeeps ==
  ASSUME CInv, NEW c \in Loads, Start(c)
  PROVE  CInv'
<1>1. /\ pc[c] \in {"looking", "sleeping"} /\ wants[c] \notin entries /\ flights[wants[c]] = None
      /\ Wait(c, c) /\ flights' = [flights EXCEPT ![wants[c]] = c]
      /\ state' = [state EXCEPT ![c] = "running"]
      /\ UNCHANGED <<entries, wants, origin, overtaken>>
  BY Zenon DEF Start, Turn, store, Cached
<1>2. wants[c] \in Keys /\ state[c] = "none" /\ c # None
  BY <1>1, CacheConstants, Zenon DEF CInv, Callers
<1>3. \A f \in Loads : state[f] # "none" => f # c /\ state'[f] = state[f]
  BY <1>1, <1>2, Zenon DEF CInv, Types
<1>4. pc' = [pc EXCEPT ![c] = "waiting"] /\ joined' = [joined EXCEPT ![c] = c]
  BY <1>1, Zenon DEF Wait, Goto
<1>5. Attended' /\ waiters' \in [Loads -> Nat]
  BY <1>1, OneMore, Zenon DEF CInv, Attending
<1>6. Types'
  BY <1>1, <1>2, <1>4, <1>5, Zenon DEF CInv, Types, Labels
<1>7. Callers'
  <2> SUFFICES ASSUME NEW d \in Loads
               PROVE  /\ pc'[d] \in {"start", "looking", "sleeping"} => state'[d] = "none"
                      /\ pc'[d] # "start" \/ state'[d] # "none" => wants'[d] \in Keys
                      /\ pc'[d] \in Attending => /\ joined'[d] \in Loads /\ state'[joined'[d]] # "none"
                                                 /\ wants'[joined'[d]] = wants'[d]
    BY Zenon DEF Callers
  <2>1. CASE d = c
    BY <1>1, <1>2, <1>4, <2>1, Zenon DEF CInv, Types, Attending
  <2>2. CASE d # c
    <3>1. pc'[d] = pc[d] /\ state'[d] = state[d] /\ joined'[d] = joined[d]
      BY <1>1, <1>4, <2>2, Zenon DEF CInv, Types
    <3> QED BY <1>1, <1>3, <3>1, Zenon DEF CInv, Callers
  <2> QED BY <2>1, <2>2, Zenon
<1>8. Mapped'
  <2>1. flights'[wants[c]] = c /\ state'[c] = "running"
    BY <1>1, <1>2, Zenon DEF CInv, Types
  <2>2. \A k \in Keys \ {wants[c]} : flights'[k] = flights[k]
    BY <1>1, <1>2, Zenon DEF CInv, Types
  <2>3. \A k \in Keys : flights[k] # None => state'[flights[k]] = "running"
    BY <1>3 DEF CInv, Types, Mapped
  <2>4. \A k \in Keys \ {wants[c]} : flights'[k] # None =>
          state'[flights'[k]] = "running" /\ wants'[flights'[k]] = k /\ k \notin entries'
    BY <1>1, <2>2, <2>3 DEF CInv, Mapped
  <2> QED BY <1>1, <2>1, <2>4, Zenon DEF Mapped
<1>9. Overtaken'
  BY <1>1, <1>2, <1>3, Zenon DEF CInv, Types, Callers, Overtaken
<1>10. Sources'
  BY <1>1, <1>3 DEF CInv, Types, Sources
<1>11. JoinedFlightsContinue'
  <2> SUFFICES ASSUME NEW d \in Loads, pc'[d] = "waiting", state'[joined'[d]] = "running"
               PROVE  flights'[wants'[d]] = joined'[d] \/ joined'[d] \in overtaken'
    BY DEF JoinedFlightsContinue
  <2>1. CASE d = c
    BY <1>1, <1>2, <1>4, <2>1, Zenon DEF CInv, Types
  <2>2. CASE d # c
    <3>1. /\ pc[d] = "waiting" /\ joined'[d] = joined[d] /\ joined[d] \in Loads /\ wants[d] \in Keys
          /\ state[joined[d]] = "running"
      BY <1>3, <1>4, <2>2, Zenon DEF CInv, Types, Callers, Attending
    <3>2. flights[wants[d]] = joined[d] \/ joined[d] \in overtaken
      BY <3>1, Zenon DEF CInv, JoinedFlightsContinue
    <3>3. flights[wants[d]] = joined[d] => wants[d] # wants[c]
      BY <1>1, <3>1, CacheConstants, Zenon
    <3> QED BY <1>1, <3>1, <3>2, <3>3, Zenon DEF CInv, Types
  <2> QED BY <2>1, <2>2, Zenon
<1> QED BY <1>5, <1>6, <1>7, <1>8, <1>9, <1>10, <1>11, ZenonT(60) DEF CInv

\* A call leaves its flight, which leaves the map with its last one.
LEMMA ReleaseKeeps ==
  ASSUME CInv, NEW c \in Loads, ReleaseWaiter(c)
  PROVE  CInv'
<1>f. PICK f \in Loads : f = joined[c]
  BY Zenon DEF ReleaseWaiter, CInv, Callers, Attending
<1>1. /\ pc[c] = "leaving" /\ pc' = [pc EXCEPT ![c] = "gone"]
      /\ waiters' = [waiters EXCEPT ![f] = IF @ > 0 THEN @ - 1 ELSE @]
      /\ flights' = [flights EXCEPT ![wants[c]] = IF waiters'[f] = 0 /\ @ = f THEN None ELSE @]
      /\ UNCHANGED <<entries, state, wants, joined, origin, overtaken>>
  BY <1>f, Zenon DEF ReleaseWaiter, Goto, store
<1>2. wants[c] \in Keys /\ wants[f] = wants[c]
  BY <1>f, <1>1, Zenon DEF CInv, Callers, Attending
<1>3. /\ Waiting(f)' = Waiting(f) \ {c} /\ c \in Waiting(f)
      /\ \A g \in Loads \ {f} : Waiting(g)' = Waiting(g)
  BY <1>f, <1>1, Zenon DEF Waiting, CInv, Types, Attending
<1>4. IsFiniteSet(Waiting(f))
  BY CacheConstants, FS_Subset, Zenon DEF Waiting
<1>5. /\ Cardinality(Waiting(f) \ {c}) = Cardinality(Waiting(f)) - 1 /\ Cardinality(Waiting(f)) \in Nat
      /\ Cardinality(Waiting(f)) # 0 /\ IsFiniteSet(Waiting(f) \ {c})
  BY <1>3, <1>4, FS_RemoveElement, FS_CardinalityType, FS_EmptySet, ZenonT(60)
<1>6. waiters'[f] = Cardinality(Waiting(f)') /\ waiters' \in [Loads -> Nat]
  <2>1. waiters[f] = Cardinality(Waiting(f)) /\ waiters \in [Loads -> Nat]
    BY <1>2, Zenon DEF CInv, Attended, Types
  <2> QED BY <1>1, <1>2, <1>3, <1>5, <2>1, SMTT(30)
<1>7. Attended'
  <2>1. \A g \in Loads \ {f} : waiters'[g] = Cardinality(Waiting(g)')
    BY <1>1, <1>3, Zenon DEF CInv, Attended, Types
  <2> QED BY <1>6, <2>1, Zenon DEF Attended
<1>8. waiters'[f] = 0 => \A d \in Loads : pc'[d] \in Attending => joined'[d] # f
  <2>1. waiters'[f] = 0 => Waiting(f)' = {}
    BY <1>3, <1>4, <1>5, <1>6, FS_EmptySet, ZenonT(60)
  <2> QED BY <2>1, Zenon DEF Waiting
<1>9. \A k \in Keys : flights'[k] # None => flights'[k] = flights[k]
  BY <1>1, <1>2 DEF CInv, Types
<1>10. Types'
  BY <1>1, <1>2, <1>6, Zenon DEF CInv, Types, Labels
<1>11. Callers'
  BY <1>1, Zenon DEF CInv, Types, Callers, Attending
<1>12. Mapped'
  BY <1>1, <1>9 DEF CInv, Mapped
<1>13. Overtaken' /\ Sources'
  <2>1. \A g \in overtaken : wants[g] \in Keys /\ g # None
    BY CacheConstants, Zenon DEF CInv, Types, Callers, Overtaken
  <2>2. \A g \in overtaken : flights'[wants[g]] # g
    BY <1>9, <2>1, Zenon DEF CInv, Overtaken
  <2> QED BY <1>1, <2>2, Zenon DEF CInv, Overtaken, Sources
<1>14. JoinedFlightsContinue'
  <2> SUFFICES ASSUME NEW d \in Loads, pc'[d] = "waiting", state'[joined'[d]] = "running"
               PROVE  flights'[wants'[d]] = joined'[d] \/ joined'[d] \in overtaken'
    BY DEF JoinedFlightsContinue
  <2>1. pc[d] = "waiting" /\ d # c /\ wants[d] \in Keys
    BY <1>1, Zenon DEF CInv, Types, Callers
  <2>2. flights[wants[d]] = joined[d] \/ joined[d] \in overtaken
    BY <1>1, <2>1, Zenon DEF CInv, JoinedFlightsContinue
  <2>3. waiters'[f] = 0 => joined[d] # f
    BY <1>1, <1>8, Zenon DEF Attending
  <2> QED BY <1>1, <1>2, <2>1, <2>2, <2>3, ZenonT(60) DEF CInv, Types
<1> QED BY <1>7, <1>10, <1>11, <1>12, <1>13, <1>14, ZenonT(60) DEF CInv

\* A flight ends, and its result is kept if the flight still is in the map.
LEMMA ExecuteKeeps ==
  ASSUME CInv, NEW f \in Loads, Execute(f)
  PROVE  CInv'
<1> DEFINE k == wants[f]
<1>1. /\ state[f] = "running" /\ k \in Keys
      /\ flights' = [flights EXCEPT ![k] = IF flights[k] = f THEN None ELSE @]
      /\ entries' \subseteq entries \cup {k}
      /\ entries' \subseteq entries \/ (flights[k] = f /\ state'[f] = "done")
      /\ origin' \in [Keys -> Loads \cup {None}]
      /\ \A x \in entries' : \/ origin'[x] = f /\ flights[k] = f /\ state'[f] = "done"
                             \/ x \in entries /\ origin'[x] = origin[x]
      /\ UNCHANGED <<waiters, wants, joined, pc, overtaken>>
  BY ExecuteIs, ZenonT(60)
<1>2. PICK r \in {"done", "failed"} : state' = [state EXCEPT ![f] = r]
  BY ExecuteIs, Zenon
<1> HIDE DEF k
<1>3. \A g \in Loads : state'[g] = IF g = f THEN r ELSE state[g]
  BY <1>2, Zenon DEF CInv, Types
<1>4. \A x \in Keys : flights'[x] # None => flights'[x] = flights[x] /\ flights[x] # f
  <2>1. \A x \in Keys : flights[x] = f => x = k
    BY CacheConstants DEF CInv, Mapped, k
  <2> QED BY <1>1, <2>1, CacheConstants DEF CInv, Types
<1>5. Types'
  BY <1>1, <1>2 DEF CInv, Types
<1>6. Callers'
  <2>1. \A g \in Loads : state'[g] = "none" <=> state[g] = "none"
    BY <1>1, <1>2, <1>3
  <2> QED BY <1>1, <2>1, Zenon DEF CInv, Callers, Attending
<1>7. Mapped'
  <2>1. flights'[k] = None \/ ~(flights[k] = f)
    BY <1>1, Zenon DEF CInv, Types
  <2>2. ASSUME NEW x \in Keys, flights'[x] # None
        PROVE  state'[flights'[x]] = "running" /\ wants'[flights'[x]] = x /\ x \notin entries'
    <3>1. /\ flights'[x] = flights[x] /\ flights[x] # f /\ flights[x] \in Loads
          /\ state[flights[x]] = "running" /\ wants[flights[x]] = x /\ x \notin entries
      BY <1>4, <2>2 DEF CInv, Mapped, Types
    <3>2. x = k => flights[k] # f
      BY <2>1, <2>2, Zenon
    <3> QED BY <1>1, <1>3, <3>1, <3>2, ZenonT(60)
  <2> QED BY <2>2, Zenon DEF Mapped
<1>8. Overtaken'
  <2>1. \A g \in overtaken : g \in Loads /\ state'[g] # "none"
    BY <1>2, <1>3 DEF CInv, Types, Overtaken
  <2>2. \A g \in overtaken : wants[g] \in Keys /\ g # None /\ flights[wants[g]] # g
    BY CacheConstants, ZenonT(60) DEF CInv, Types, Callers, Overtaken
  <2>3. \A g \in overtaken : flights'[wants[g]] # g
    BY <1>4, <2>2, Zenon
  <2> QED BY <1>1, <2>1, <2>3, ZenonT(60) DEF Overtaken
<1>9. Sources'
  <2> SUFFICES ASSUME NEW x \in entries'
               PROVE  origin'[x] \in Loads /\ state'[origin'[x]] = "done" /\ origin'[x] \notin overtaken
    BY <1>1, Zenon DEF Sources
  <2>1. CASE origin'[x] = f /\ flights[k] = f /\ state'[f] = "done"
    BY <2>1, Zenon DEF CInv, Overtaken, k
  <2>2. CASE x \in entries /\ origin'[x] = origin[x]
    <3>1. origin[x] \in Loads /\ state[origin[x]] = "done" /\ origin[x] \notin overtaken
      BY <2>2, Zenon DEF CInv, Sources
    <3>2. origin[x] # f
      BY <1>1, <3>1
    <3> QED BY <1>3, <2>2, <3>1, <3>2, ZenonT(60)
  <2> QED BY <1>1, <2>1, <2>2, Zenon
<1>10. Attended'
  <2>1. \A g \in Loads : Waiting(g)' = Waiting(g)
    BY <1>1, Zenon DEF Waiting
  <2> QED BY <1>1, <2>1, Zenon DEF CInv, Attended
<1>11. JoinedFlightsContinue'
  <2> SUFFICES ASSUME NEW d \in Loads, pc[d] = "waiting", state'[joined[d]] = "running"
               PROVE  flights'[wants[d]] = joined[d] \/ joined[d] \in overtaken
    BY <1>1, Zenon DEF JoinedFlightsContinue
  <2>1. joined[d] \in Loads /\ wants[d] \in Keys
    BY Zenon DEF CInv, Callers, Attending
  <2>2. joined[d] # f /\ state[joined[d]] = "running"
    BY <1>2, <1>3, <2>1, SMTT(30)
  <2>3. flights[wants[d]] = joined[d] \/ joined[d] \in overtaken
    BY <2>2, Zenon DEF CInv, JoinedFlightsContinue
  <2>4. flights[wants[d]] # f => flights'[wants[d]] = flights[wants[d]]
    BY <1>1, <2>1 DEF CInv, Types
  <2> QED BY <2>2, <2>3, <2>4, ZenonT(60)
<1> QED BY <1>5, <1>6, <1>7, <1>8, <1>9, <1>10, <1>11, ZenonT(60) DEF CInv

\* A snapshot is evicted: its entries go, and its flights leave the map.
LEMMA EvictKeeps ==
  ASSUME CInv, NEW s, EvictSnapshot(s)
  PROVE  CInv'
<1> DEFINE gone == {k \in Keys : SnapshotOf[k] = s}
<1>1. /\ entries' = entries \ gone
      /\ origin' = [k \in Keys |-> IF k \in gone THEN None ELSE origin[k]]
      /\ flights' = [k \in Keys |-> IF k \in gone THEN None ELSE flights[k]]
      /\ overtaken' = overtaken \cup {f \in Running : wants[f] \in gone}
      /\ UNCHANGED <<state, waiters, wants, joined, pc>>
  BY Zenon DEF EvictSnapshot
<1>2. gone \subseteq Keys
  BY Zenon
<1> HIDE DEF gone
<1>3. \A k \in Keys : flights'[k] = IF k \in gone THEN None ELSE flights[k]
  BY <1>1, Zenon
<1>4. \A f \in overtaken' : /\ f \in Loads /\ f # None /\ state[f] # "none" /\ wants[f] \in Keys
                            /\ f \in overtaken \/ (state[f] = "running" /\ wants[f] \in gone)
  <2>1. \A f \in overtaken' : /\ f \in Loads /\ f # None /\ state[f] # "none"
                              /\ f \in overtaken \/ (state[f] = "running" /\ wants[f] \in gone)
    BY <1>1, CacheConstants DEF CInv, Types, Overtaken, Running
  <2> QED BY <2>1, Zenon DEF CInv, Callers
<1>5. Types'
  <2>1. overtaken' \subseteq Loads
    BY <1>4, Zenon
  <2> QED BY <1>1, <2>1, Zenon DEF CInv, Types
<1>6. Callers'
  BY <1>1, Zenon DEF CInv, Callers
<1>7. Mapped'
  BY <1>1, <1>3 DEF CInv, Mapped
<1>8. Overtaken'
  <2>1. \A f \in overtaken' : flights'[wants[f]] # f
    BY <1>3, <1>4, Zenon DEF CInv, Overtaken
  <2> QED BY <1>1, <1>4, <2>1, ZenonT(60) DEF Overtaken
<1>9. Sources'
  <2>1. \A k \in entries' : k \in entries /\ k \in Keys /\ origin'[k] = origin[k]
    BY <1>1, Zenon DEF CInv, Types
  <2>2. \A k \in entries : origin[k] \in Loads /\ state[origin[k]] = "done" /\ origin[k] \notin overtaken
    BY Zenon DEF CInv, Sources
  <2>3. \A k \in entries : origin[k] \notin overtaken'
    BY <1>4, <2>2
  <2> QED BY <1>1, <2>1, <2>2, <2>3, ZenonT(60) DEF Sources
<1>10. Attended'
  <2>1. \A g \in Loads : Waiting(g)' = Waiting(g)
    BY <1>1, Zenon DEF Waiting
  <2> QED BY <1>1, <2>1, Zenon DEF CInv, Attended
<1>11. JoinedFlightsContinue'
  <2> SUFFICES ASSUME NEW d \in Loads, pc[d] = "waiting", state[joined[d]] = "running"
               PROVE  flights'[wants[d]] = joined[d] \/ joined[d] \in overtaken'
    BY <1>1, Zenon DEF JoinedFlightsContinue
  <2>1. joined[d] \in Loads /\ wants[d] \in Keys /\ wants[joined[d]] = wants[d]
    BY Zenon DEF CInv, Callers, Attending
  <2>2. flights[wants[d]] = joined[d] \/ joined[d] \in overtaken
    BY Zenon DEF CInv, JoinedFlightsContinue
  <2>3. CASE wants[d] \in gone
    BY <1>1, <2>1, <2>3, ZenonT(60) DEF Running
  <2>4. CASE wants[d] \notin gone
    BY <1>1, <1>3, <2>1, <2>2, <2>4, ZenonT(60)
  <2> QED BY <2>3, <2>4, ZenonT(60)
<1> QED BY <1>5, <1>6, <1>7, <1>8, <1>9, <1>10, <1>11, ZenonT(60) DEF CInv

-----------------------------------------------------------------------------
(* The slots.                                                               *)

\* The running flights are finitely many.
LEMMA RunningFinite == IsFiniteSet(Running) /\ Cardinality(Running) \in Nat
BY CacheConstants, FS_Subset, FS_CardinalityType, Zenon DEF Running

\* A flight that starts takes one of the free slots.
LEMMA StartSlots ==
  ASSUME CInv, SlotsAreExact, NEW c \in Loads, Start(c)
  PROVE  SlotsAreExact'
<1>1. /\ state' = [state EXCEPT ![c] = "running"] /\ state[c] = "none"
      /\ flightEntries' = flightEntries + 1 /\ flightEntries < FlightEntries
  BY DEF Start, Free, Turn, CInv, Callers
<1>2. Running' = Running \cup {c} /\ c \notin Running
  BY <1>1 DEF Running, CInv, Types
<1>3. Cardinality(Running \cup {c}) = Cardinality(Running) + 1
  BY <1>2, RunningFinite, FS_AddElement, ZenonT(60)
<1>4. FlightEntries \in Nat
  BY CacheConstants
<1> QED BY <1>1, <1>2, <1>3, <1>4, RunningFinite, SMTT(30) DEF SlotsAreExact

\* A flight that ends gives its slot back, once.
LEMMA ExecuteSlots ==
  ASSUME CInv, SlotsAreExact, NEW f \in Loads, Execute(f)
  PROVE  SlotsAreExact'
<1>1. state[f] = "running" /\ flightEntries' = flightEntries - 1
  BY DEF Execute, Complete
<1>2. PICK r \in {"done", "failed"} : state' = [state EXCEPT ![f] = r]
  BY ExecuteIs, Zenon
<1>3. Running' = Running \ {f} /\ f \in Running
  BY <1>1, <1>2 DEF Running, CInv, Types
<1>4. Cardinality(Running \ {f}) = Cardinality(Running) - 1
  BY <1>3, RunningFinite, FS_RemoveElement, ZenonT(60)
<1>5. FlightEntries \in Nat
  BY CacheConstants
<1> QED BY <1>1, <1>3, <1>4, <1>5, RunningFinite, SMTT(30) DEF SlotsAreExact

\* No other step starts or ends a flight.
LEMMA OtherSlots ==
  ASSUME SlotsAreExact, UNCHANGED <<state, flightEntries>>
  PROVE  SlotsAreExact'
BY Zenon DEF SlotsAreExact, Running

-----------------------------------------------------------------------------
(* The calls and the flights, in every behaviour.                           *)

\* Nothing is cached, loading or waiting at first.
LEMMA InitKeeps ==
  ASSUME Init
  PROVE  CInv /\ SlotsAreExact
<1>1. Types
  BY DEF Init, Types, Labels
<1>2. Callers /\ Mapped /\ Overtaken /\ Sources /\ JoinedFlightsContinue
  BY Zenon DEF Init, Callers, Mapped, Overtaken, Sources, JoinedFlightsContinue, Attending
<1>3. Attended
  <2>1. \A f \in Loads : Waiting(f) = {} /\ waiters[f] = 0
    BY Zenon DEF Init, Waiting, Attending
  <2> QED BY <2>1, FS_EmptySet, Zenon DEF Attended
<1>4. SlotsAreExact
  <2>1. Running = {} /\ flightEntries = 0
    BY Zenon DEF Init, Running
  <2>2. FlightEntries \in Nat
    BY CacheConstants
  <2> QED BY <2>1, <2>2, FS_EmptySet, SMTT(30) DEF SlotsAreExact
<1> QED BY <1>1, <1>2, <1>3, <1>4, ZenonT(60) DEF CInv

\* A step that leaves the calls and the shared state alone.
LEMMA StutterKeeps ==
  ASSUME CInv, UNCHANGED <<shared, pc>>
  PROVE  CInv'
<1>1. Types'
  BY Zenon DEF CInv, Types, shared
<1>2. Callers'
  BY Zenon DEF CInv, Callers, shared
<1>3. Mapped' /\ Overtaken' /\ Sources'
  BY Zenon DEF CInv, Mapped, Overtaken, Sources, shared
<1>4. JoinedFlightsContinue'
  BY Zenon DEF CInv, JoinedFlightsContinue, shared
<1>5. Attended'
  <2>1. \A f \in Loads : Waiting(f)' = Waiting(f)
    BY Zenon DEF Waiting, shared
  <2> QED BY <2>1, Zenon DEF CInv, Attended, shared
<1> QED BY <1>1, <1>2, <1>3, <1>4, <1>5, ZenonT(60) DEF CInv

\* A call that goes on alone does one of the following.
LEMMA AloneIs ==
  ASSUME NEW c \in Loads, LoadCancelled(c) \/ Hit(c) \/ Refuse(c) \/ Leave(c)
  PROVE  /\ UNCHANGED shared /\ UNCHANGED flightEntries
         /\ \E l \in Labels :
              /\ pc' = [pc EXCEPT ![c] = l]
              /\ \/ pc[c] \in {"looking", "sleeping"} /\ l \in {"sleeping", "gone"}
                 \/ pc[c] = "waiting" /\ l = "leaving"
<1>1. CASE LoadCancelled(c)
  BY <1>1, Zenon DEF LoadCancelled, Turn, Goto, store, budget, shared, Labels
<1>2. CASE Hit(c)
  BY <1>2, Zenon DEF Hit, Turn, Goto, store, budget, shared, Labels
<1>3. CASE Refuse(c)
  BY <1>3, Zenon DEF Refuse, Turn, Goto, store, budget, shared, Labels
<1>4. CASE Leave(c)
  BY <1>4, Zenon DEF Leave, Goto, store, budget, shared, Labels
<1> QED BY <1>1, <1>2, <1>3, <1>4, Zenon

\* Every step keeps the invariant.
LEMMA NextKeeps ==
  ASSUME CInv, SlotsAreExact, [Next]_vars
  PROVE  CInv' /\ SlotsAreExact'
<1>1. ASSUME NEW c \in Loads, Cancel(c) PROVE CInv' /\ SlotsAreExact'
  <2>1. UNCHANGED <<shared, pc>> /\ UNCHANGED <<state, flightEntries>>
    BY <1>1, Zenon DEF Cancel, shared, store, budget
  <2> QED BY <2>1, StutterKeeps, OtherSlots, Zenon
<1>2. ASSUME NEW c \in Loads, NEW k \in Keys, Load(c, k) PROVE CInv' /\ SlotsAreExact'
  <2>1. UNCHANGED <<state, flightEntries>>
    BY <1>2, Zenon DEF Load, budget
  <2> QED BY <1>2, <2>1, LoadKeeps, OtherSlots, ZenonT(60)
<1>3. ASSUME NEW c \in Loads, LoadCancelled(c) \/ Hit(c) \/ Refuse(c) \/ Leave(c)
      PROVE  CInv' /\ SlotsAreExact'
  <2>1. UNCHANGED <<state, flightEntries>>
    BY <1>3, AloneIs, Zenon DEF shared
  <2> QED BY <1>3, <2>1, AloneIs, AloneKeeps, OtherSlots, ZenonT(60)
<1>4. ASSUME NEW c \in Loads, Join(c) PROVE CInv' /\ SlotsAreExact'
  <2>1. UNCHANGED <<state, flightEntries>>
    BY <1>4, Zenon DEF Join, budget
  <2> QED BY <1>4, <2>1, JoinKeeps, OtherSlots, ZenonT(60)
<1>5. ASSUME NEW c \in Loads, Start(c) PROVE CInv' /\ SlotsAreExact'
  BY <1>5, StartKeeps, StartSlots, ZenonT(60)
<1>6. ASSUME NEW c \in Loads, ReleaseWaiter(c) PROVE CInv' /\ SlotsAreExact'
  <2>1. UNCHANGED <<state, flightEntries>>
    BY <1>6, ZenonT(60) DEF ReleaseWaiter, budget
  <2> QED BY <1>6, <2>1, ReleaseKeeps, OtherSlots, Zenon
<1>7. ASSUME NEW c \in Loads, Execute(c) PROVE CInv' /\ SlotsAreExact'
  BY <1>7, ExecuteKeeps, ExecuteSlots, Zenon
<1>8. ASSUME NEW s, EvictSnapshot(s) PROVE CInv' /\ SlotsAreExact'
  <2>1. UNCHANGED <<state, flightEntries>>
    BY <1>8, Zenon DEF EvictSnapshot, budget
  <2> QED BY <1>8, <2>1, EvictKeeps, OtherSlots, ZenonT(60)
<1>9. CASE UNCHANGED vars
  <2>1. UNCHANGED <<shared, pc>> /\ UNCHANGED <<state, flightEntries>>
    BY <1>9, Zenon DEF vars, shared
  <2> QED BY <2>1, StutterKeeps, OtherSlots, ZenonT(60)
<1> QED
  BY <1>1, <1>2, <1>3, <1>4, <1>5, <1>6, <1>7, <1>8, <1>9, ZenonT(60) DEF Next, LoadStep, Finished

\* The inductive invariant holds in every behaviour of the cache.
LEMMA AlwaysCInv == Spec => [](CInv /\ SlotsAreExact)
BY InitKeeps, NextKeeps, PTL DEF Spec

\* A key being loaded by a flight of the map is not cached, and the flight is running: no
\* child is decoded again while its value is at hand, whatever the calls, limits and evictions.
THEOREM AlwaysLoadedOnce == Spec => []LoadedOnce
<1>1. CInv => LoadedOnce
  BY ZenonT(60) DEF CInv, Mapped, LoadedOnce, Cached
<1> QED BY <1>1, AlwaysCInv, PTL

\* What was loaded before an eviction of its snapshot, however late it arrives, is not cached
\* after it.
THEOREM AlwaysEvictedStaysOut == Spec => []EvictedStaysOut
<1>1. CInv => EvictedStaysOut
  BY ZenonT(60) DEF CInv, Sources, EvictedStaysOut, Cached
<1> QED BY <1>1, AlwaysCInv, PTL

\* A flight is given up only when nobody waits for it or its snapshot was evicted.
THEOREM AlwaysJoined == Spec => []JoinedFlightsContinue
<1>1. CInv => JoinedFlightsContinue
  BY Zenon DEF CInv
<1> QED BY <1>1, AlwaysCInv, PTL

\* The slots in use are the running flights, those nobody waits for included, and never more
\* than the limit.
LEMMA AlwaysSlots == Spec => []SlotsAreExact
BY AlwaysCInv, PTL

-----------------------------------------------------------------------------
(* Induction, stated over sets instead of predicates: the provers do not    *)
(* instantiate a theorem that has an operator as its parameter.             *)

Less == {ss \in Nat \X Nat : ss[1] < ss[2]}

\* A set of naturals that holds 0, and with a number the next one, holds all.
LEMMA AllNaturals ==
  ASSUME NEW N, 0 \in N, \A n \in Nat : n \in N => n + 1 \in N
  PROVE  Nat \subseteq N
<1> DEFINE T == Nat \ N
<1> SUFFICES ASSUME T # {} PROVE FALSE
  OBVIOUS
<1>1. IsWellFoundedOn(Less, Nat)
  BY NatLessThanWellFounded DEF Less, OpToRel
<1>2. PICK n \in T : \A m \in T : <<m, n>> \notin Less
  <2>1. T \subseteq Nat
    OBVIOUS
  <2> HIDE DEF T
  <2> QED BY <1>1, <2>1, WFMin, Zenon
<1>3. n \in Nat /\ n - 1 \in Nat /\ (n - 1) + 1 = n
  OBVIOUS
<1>4. <<n - 1, n>> \in Less
  BY <1>3 DEF Less
<1>5. n - 1 \notin T
  BY <1>2, <1>4, Zenon
<1> QED BY <1>3, <1>5

\* A set that holds the empty set, and with a part of S the part with one more element, holds
\* S, if S is finite.
LEMMA AllParts ==
  ASSUME NEW S, IsFiniteSet(S), NEW C, {} \in C,
         \A T \in SUBSET S : \A x \in S \ T : T \in C => T \cup {x} \in C
  PROVE  S \in C
<1> DEFINE N == {n \in Nat : \A T \in SUBSET S : Cardinality(T) = n => T \in C}
<1>1. \A T \in SUBSET S : IsFiniteSet(T) /\ Cardinality(T) \in Nat
  BY FS_Subset, FS_CardinalityType, Zenon
<1>2. 0 \in N
  BY <1>1, FS_EmptySet, Zenon
<1>3. ASSUME NEW n \in Nat, n \in N PROVE n + 1 \in N
  <2>0. n + 1 \in Nat /\ n + 1 # 0 /\ (n + 1) - 1 = n
    OBVIOUS
  <2> SUFFICES ASSUME NEW T \in SUBSET S, Cardinality(T) = n + 1 PROVE T \in C
    BY <2>0, Zenon
  <2>1. PICK x : x \in T
    <3>1. T # {}
      BY <1>1, <2>0, FS_EmptySet, Zenon
    <3> QED BY <3>1, Zenon
  <2>2. Cardinality(T \ {x}) = n
    BY <1>1, <2>0, <2>1, FS_RemoveElement, Zenon
  <2>3. T \ {x} \in C /\ T \ {x} \in SUBSET S /\ x \in S \ (T \ {x})
    BY <1>3, <2>1, <2>2, Zenon
  <2>4. (T \ {x}) \cup {x} \in C
    BY <2>3, Zenon
  <2>5. (T \ {x}) \cup {x} = T
    BY <2>1
  <2> QED BY <2>4, <2>5, Zenon
<1>4. Nat \subseteq N
  <2> HIDE DEF N
  <2> QED BY <1>2, <1>3, AllNaturals, Zenon
<1> QED BY <1>1, <1>4, Zenon

-----------------------------------------------------------------------------
(* Sums.                                                                    *)

Chosen(s) == CHOOSE x \in s : TRUE
Step(w, f, s) == IF s = {} THEN 0 ELSE w[Chosen(s)] + f[s \ {Chosen(s)}]
Adds(w, D, f) == f = [s \in D |-> Step(w, f, s)]

\* The function that the fold of WeightOf computes.
LEMMA WeightIs ==
  ASSUME NEW w, NEW S
  PROVE  WeightOf(w, S) = (CHOOSE f : Adds(w, SUBSET S, f))[S]
BY Zenon DEF WeightOf, MapThenSumSet, MapThenFoldSet, Adds, Step, Chosen

\* A chosen element is one, and removing it leaves a smaller set.
LEMMA ChosenIs ==
  ASSUME NEW s, s # {}, IsFiniteSet(s)
  PROVE  /\ Chosen(s) \in s /\ IsFiniteSet(s \ {Chosen(s)})
         /\ Cardinality(s) \in Nat /\ Cardinality(s) > 0
         /\ Cardinality(s \ {Chosen(s)}) = Cardinality(s) - 1
<1>1. Chosen(s) \in s
  BY DEF Chosen
<1>2. /\ IsFiniteSet(s \ {Chosen(s)}) /\ Cardinality(s \ {Chosen(s)}) = Cardinality(s) - 1
  BY <1>1, FS_RemoveElement, Zenon
<1>3. Cardinality(s) \in Nat /\ Cardinality(s) # 0
  BY FS_EmptySet, FS_CardinalityType, Zenon
<1> QED BY <1>1, <1>2, <1>3

\* There is such a function.
LEMMA AddsExists ==
  ASSUME NEW w, NEW S, IsFiniteSet(S)
  PROVE  \E f : Adds(w, SUBSET S, f)
<1> DEFINE Small(n) == {s \in SUBSET S : Cardinality(s) <= n}
           N == {n \in Nat : \E f : Adds(w, Small(n), f)}
<1>1. \A s \in SUBSET S : IsFiniteSet(s) /\ Cardinality(s) \in Nat /\ Cardinality(s) <= Cardinality(S)
  BY FS_Subset, FS_CardinalityType, Zenon
<1>2. 0 \in N
  <2>1. Small(0) = {{}}
    <3>1. \A s \in SUBSET S : Cardinality(s) <= 0 <=> Cardinality(s) = 0
      BY <1>1
    <3> QED BY <1>1, <3>1, FS_EmptySet, Zenon
  <2>2. Adds(w, Small(0), [s \in {{}} |-> 0])
    BY <2>1, Zenon DEF Adds, Step
  <2> QED BY <2>2
<1>3. ASSUME NEW n \in Nat, n \in N PROVE n + 1 \in N
  <2>1. PICK f : Adds(w, Small(n), f)
    BY <1>3, Zenon
  <2> DEFINE g == [s \in Small(n + 1) |-> Step(w, f, s)]
  <2>2. \A s \in Small(n + 1) : s # {} => s \ {Chosen(s)} \in Small(n)
    <3> SUFFICES ASSUME NEW s \in SUBSET S, Cardinality(s) <= n + 1, s # {}
                 PROVE  s \ {Chosen(s)} \in SUBSET S /\ Cardinality(s \ {Chosen(s)}) <= n
      BY Zenon
    <3>1. Cardinality(s \ {Chosen(s)}) = Cardinality(s) - 1 /\ Cardinality(s) \in Nat
      BY <1>1, ChosenIs, Zenon
    <3> QED BY <3>1
  <2>3. Small(n) \subseteq Small(n + 1)
    BY <1>1
  <2> HIDE DEF Small
  <2>4. \A s \in Small(n) : g[s] = f[s]
    BY <2>1, <2>3, Zenon DEF Adds
  <2>5. \A s \in Small(n + 1) : Step(w, g, s) = Step(w, f, s)
    <3> HIDE DEF g
    <3>1. \A s \in Small(n + 1) : s # {} => g[s \ {Chosen(s)}] = f[s \ {Chosen(s)}]
      BY <2>2, <2>4, Zenon
    <3> QED BY <3>1, Zenon DEF Step
  <2>6. Adds(w, Small(n + 1), g)
    BY <2>5, Zenon DEF Adds
  <2>7. n + 1 \in Nat
    OBVIOUS
  <2> QED BY <2>6, <2>7, Zenon
<1>4. Nat \subseteq N
  <2> HIDE DEF N
  <2> QED BY <1>2, <1>3, AllNaturals, Zenon
<1>5. SUBSET S = Small(Cardinality(S)) /\ Cardinality(S) \in Nat
  BY <1>1, FS_CardinalityType, Zenon
<1> QED BY <1>4, <1>5, Zenon

\* Two of them agree where both are defined.
LEMMA AddsAgree ==
  ASSUME NEW w, NEW v, NEW S, NEW T, NEW f, NEW g, Adds(w, SUBSET S, f), Adds(v, SUBSET T, g),
         IsFiniteSet(S), S \subseteq T, \A x \in S : w[x] = v[x]
  PROVE  f[S] = g[S]
<1> DEFINE N == {n \in Nat : \A s \in SUBSET S : Cardinality(s) = n => f[s] = g[s]}
<1>1. \A s \in SUBSET S : IsFiniteSet(s) /\ Cardinality(s) \in Nat
  BY FS_Subset, FS_CardinalityType, Zenon
<1>2. \A s \in SUBSET S : f[s] = Step(w, f, s) /\ g[s] = Step(v, g, s)
  BY Zenon DEF Adds
<1>3. 0 \in N
  BY <1>1, <1>2, FS_EmptySet, Zenon DEF Step
<1>4. ASSUME NEW n \in Nat, n \in N PROVE n + 1 \in N
  <2>0. n + 1 \in Nat /\ n + 1 # 0 /\ (n + 1) - 1 = n
    OBVIOUS
  <2> SUFFICES ASSUME NEW s \in SUBSET S, Cardinality(s) = n + 1 PROVE f[s] = g[s]
    BY <2>0, Zenon
  <2>1. s # {}
    BY <1>1, <2>0, FS_EmptySet, Zenon
  <2>2. /\ Chosen(s) \in s /\ Cardinality(s \ {Chosen(s)}) = n /\ s \ {Chosen(s)} \in SUBSET S
    BY <1>1, <2>0, <2>1, ChosenIs, Zenon
  <2>3. f[s \ {Chosen(s)}] = g[s \ {Chosen(s)}]
    BY <1>4, <2>2, Zenon
  <2>4. w[Chosen(s)] = v[Chosen(s)]
    BY <2>2, Zenon
  <2> QED BY <1>2, <2>1, <2>3, <2>4, Zenon DEF Step
<1>5. Nat \subseteq N
  <2> HIDE DEF N
  <2> QED BY <1>3, <1>4, AllNaturals, Zenon
<1>6. Cardinality(S) \in N /\ S \in SUBSET S
  BY <1>1, <1>5, Zenon
<1> QED BY <1>6, Zenon

\* Equal weights have equal sums.
LEMMA WeightSame ==
  ASSUME NEW w, NEW v, NEW S, IsFiniteSet(S), \A x \in S : w[x] = v[x]
  PROVE  WeightOf(w, S) = WeightOf(v, S)
<1> DEFINE f == CHOOSE f : Adds(w, SUBSET S, f)
           g == CHOOSE g : Adds(v, SUBSET S, g)
<1>1. Adds(w, SUBSET S, f) /\ Adds(v, SUBSET S, g)
  BY AddsExists, Zenon
<1>2. WeightOf(w, S) = f[S] /\ WeightOf(v, S) = g[S]
  BY WeightIs, Zenon
<1> HIDE DEF f, g
<1>3. f[S] = g[S]
  BY <1>1, AddsAgree, SMTT(30)
<1> QED BY <1>2, <1>3, Zenon

\* The sum of nothing, and the sum of a set with its chosen element set apart.
LEMMA WeightStep ==
  ASSUME NEW w, NEW S, IsFiniteSet(S)
  PROVE  /\ S = {} => WeightOf(w, S) = 0
         /\ S # {} => WeightOf(w, S) = w[Chosen(S)] + WeightOf(w, S \ {Chosen(S)})
<1> DEFINE T == S \ {Chosen(S)}
           f == CHOOSE f : Adds(w, SUBSET S, f)
           g == CHOOSE g : Adds(w, SUBSET T, g)
<1>1. IsFiniteSet(T) /\ T \subseteq S
  BY FS_Subset, Zenon
<1> HIDE DEF T
<1>2. Adds(w, SUBSET S, f) /\ Adds(w, SUBSET T, g)
  BY <1>1, AddsExists, Zenon
<1>3. WeightOf(w, S) = f[S] /\ WeightOf(w, T) = g[T]
  BY WeightIs, Zenon
<1> HIDE DEF f, g
<1>4. g[T] = f[T]
  BY <1>1, <1>2, AddsAgree, SMTT(30)
<1>5. f[S] = Step(w, f, S)
  BY <1>2, Zenon DEF Adds
<1> QED BY <1>3, <1>4, <1>5, Zenon DEF Step, T

\* The sum is a number.
LEMMA WeightNat ==
  ASSUME NEW w, NEW S, IsFiniteSet(S), \A x \in S : w[x] \in Nat
  PROVE  WeightOf(w, S) \in Nat
<1> DEFINE N == {n \in Nat : \A s \in SUBSET S : Cardinality(s) = n => WeightOf(w, s) \in Nat}
<1>1. \A s \in SUBSET S : IsFiniteSet(s) /\ Cardinality(s) \in Nat
  BY FS_Subset, FS_CardinalityType, Zenon
<1>2. 0 \in N
  <2>1. \A s \in SUBSET S : Cardinality(s) = 0 => WeightOf(w, s) = 0
    BY <1>1, FS_EmptySet, WeightStep, Zenon
  <2> QED BY <2>1
<1>3. ASSUME NEW n \in Nat, n \in N PROVE n + 1 \in N
  <2>0. n + 1 \in Nat /\ n + 1 # 0 /\ (n + 1) - 1 = n
    OBVIOUS
  <2> SUFFICES ASSUME NEW s \in SUBSET S, Cardinality(s) = n + 1 PROVE WeightOf(w, s) \in Nat
    BY <2>0, Zenon
  <2> DEFINE c == Chosen(s)
  <2>1. s # {} /\ IsFiniteSet(s)
    BY <1>1, <2>0, FS_EmptySet, Zenon
  <2>2. /\ c \in s /\ Cardinality(s \ {c}) = n /\ s \ {c} \in SUBSET S
        /\ WeightOf(w, s) = w[c] + WeightOf(w, s \ {c})
    BY <2>0, <2>1, ChosenIs, WeightStep, Zenon
  <2>3. w[c] \in Nat /\ WeightOf(w, s \ {c}) \in Nat
    BY <1>3, <2>2, Zenon
  <2> HIDE DEF c
  <2> QED BY <2>2, <2>3
<1>4. Nat \subseteq N
  <2> HIDE DEF N
  <2> QED BY <1>2, <1>3, AllNaturals, Zenon
<1>5. Cardinality(S) \in N /\ S \in SUBSET S
  BY <1>1, <1>4, Zenon
<1> QED BY <1>5, Zenon

\* Any element can be set apart.
LEMMA WeightSplit ==
  ASSUME NEW w, NEW S, IsFiniteSet(S), \A x \in S : w[x] \in Nat
  PROVE  \A x \in S : WeightOf(w, S) = w[x] + WeightOf(w, S \ {x})
<1> DEFINE Good(s) == \A x \in s : WeightOf(w, s) = w[x] + WeightOf(w, s \ {x})
           N == {n \in Nat : \A s \in SUBSET S : Cardinality(s) = n => Good(s)}
<1>1. \A s \in SUBSET S : IsFiniteSet(s) /\ Cardinality(s) \in Nat /\ WeightOf(w, s) \in Nat
  <2>1. \A s \in SUBSET S : IsFiniteSet(s) /\ Cardinality(s) \in Nat
    BY FS_Subset, FS_CardinalityType, Zenon
  <2> QED BY <2>1, WeightNat, Zenon
<1>2. 0 \in N
  <2>1. \A s \in SUBSET S : Cardinality(s) = 0 => s = {}
    BY <1>1, FS_EmptySet, Zenon
  <2> QED BY <2>1, Zenon
<1>3. ASSUME NEW n \in Nat, n \in N PROVE n + 1 \in N
  <2>0. n + 1 \in Nat /\ n + 1 # 0 /\ (n + 1) - 1 = n
    OBVIOUS
  <2> SUFFICES ASSUME NEW s \in SUBSET S, Cardinality(s) = n + 1, NEW x \in s
               PROVE  WeightOf(w, s) = w[x] + WeightOf(w, s \ {x})
    BY <2>0, Zenon
  <2> DEFINE c == Chosen(s)
  <2>1. s # {} /\ IsFiniteSet(s)
    BY <1>1, <2>0, FS_EmptySet, Zenon
  <2>2. c \in s /\ WeightOf(w, s) = w[c] + WeightOf(w, s \ {c})
    BY <2>1, ChosenIs, WeightStep, Zenon
  <2> HIDE DEF c
  <2>3. \A y \in s : Good(s \ {y})
    <3>1. \A y \in s : Cardinality(s \ {y}) = n /\ s \ {y} \in SUBSET S
      BY <2>0, <2>1, FS_RemoveElement, Zenon
    <3> QED BY <1>3, <3>1, Zenon
  <2>4. CASE x = c
    BY <2>2, <2>4, Zenon
  <2>5. CASE x # c
    <3>1. WeightOf(w, s \ {c}) = w[x] + WeightOf(w, (s \ {c}) \ {x})
      BY <2>2, <2>3, <2>5, Zenon
    <3>2. WeightOf(w, s \ {x}) = w[c] + WeightOf(w, (s \ {x}) \ {c})
      BY <2>2, <2>3, <2>5, Zenon
    <3>3. (s \ {x}) \ {c} = (s \ {c}) \ {x}
      BY Zenon
    <3>4. w[x] \in Nat /\ w[c] \in Nat /\ WeightOf(w, (s \ {c}) \ {x}) \in Nat
      <4>1. (s \ {c}) \ {x} \in SUBSET S
        BY Zenon
      <4> QED BY <1>1, <2>2, <4>1, Zenon
    <3>5. \A a, b, r \in Nat : b + (a + r) = a + (b + r)
      OBVIOUS
    <3>6. w[c] + (w[x] + WeightOf(w, (s \ {c}) \ {x})) = w[x] + (w[c] + WeightOf(w, (s \ {c}) \ {x}))
      BY <3>4, <3>5, Zenon
    <3> QED BY <2>2, <3>1, <3>2, <3>3, <3>6, Zenon
  <2> QED BY <2>4, <2>5
<1>4. Nat \subseteq N
  <2> HIDE DEF N
  <2> QED BY <1>2, <1>3, AllNaturals, Zenon
<1>5. Cardinality(S) \in N /\ S \in SUBSET S
  BY <1>1, <1>4, Zenon
<1> QED BY <1>5, Zenon

\* The sum of a part and of the rest.
LEMMA WeightRest ==
  ASSUME NEW w, NEW S, IsFiniteSet(S), \A x \in S : w[x] \in Nat, NEW T \in SUBSET S
  PROVE  WeightOf(w, S) = WeightOf(w, S \ T) + WeightOf(w, T)
<1> DEFINE C == {U \in SUBSET T : WeightOf(w, S) = WeightOf(w, S \ U) + WeightOf(w, U)}
<1>1. \A U \in SUBSET S : IsFiniteSet(U) /\ WeightOf(w, U) \in Nat
  <2>1. \A U \in SUBSET S : IsFiniteSet(U)
    BY FS_Subset, Zenon
  <2> QED BY <2>1, WeightNat, Zenon
<1>9. ASSUME NEW R \in SUBSET S, NEW y \in R
      PROVE  WeightOf(w, R) = w[y] + WeightOf(w, R \ {y})
  <2>1. IsFiniteSet(R) /\ \A z \in R : w[z] \in Nat
    BY <1>1, Zenon
  <2>2. \A z \in R : WeightOf(w, R) = w[z] + WeightOf(w, R \ {z})
    BY <2>1, WeightSplit, ZenonT(60)
  <2> QED BY <2>2, Zenon
<1>2. {} \in C
  <2>1. WeightOf(w, {}) = 0 /\ S \ {} = S /\ WeightOf(w, S) \in Nat /\ {} \in SUBSET T
    BY <1>1, WeightStep, FS_EmptySet, Zenon
  <2>2. WeightOf(w, S) = WeightOf(w, S) + 0
    BY <2>1
  <2> QED BY <2>1, <2>2, Zenon
<1>3. ASSUME NEW U \in SUBSET T, NEW x \in T \ U, U \in C PROVE U \cup {x} \in C
  <2>1. (S \ U) \ {x} = S \ (U \cup {x}) /\ (U \cup {x}) \ {x} = U
    BY <1>3
  <2>2. WeightOf(w, S \ U) = w[x] + WeightOf(w, S \ (U \cup {x}))
    <3>1. S \ U \in SUBSET S /\ x \in S \ U
      BY Zenon
    <3>2. WeightOf(w, S \ U) = w[x] + WeightOf(w, (S \ U) \ {x})
      BY <1>9, <3>1, Zenon
    <3> QED BY <2>1, <3>2, Zenon
  <2>3. WeightOf(w, U \cup {x}) = w[x] + WeightOf(w, U)
    <3>1. U \cup {x} \in SUBSET S /\ x \in U \cup {x}
      BY Zenon
    <3>2. WeightOf(w, U \cup {x}) = w[x] + WeightOf(w, (U \cup {x}) \ {x})
      BY <1>9, <3>1, Zenon
    <3> QED BY <2>1, <3>2, Zenon
  <2>4. /\ w[x] \in Nat /\ WeightOf(w, U) \in Nat /\ WeightOf(w, S \ (U \cup {x})) \in Nat
        /\ U \cup {x} \in SUBSET T
    BY <1>1, Zenon
  <2>5. WeightOf(w, S) = WeightOf(w, S \ U) + WeightOf(w, U)
    BY <1>3, Zenon
  <2>6. WeightOf(w, S) = WeightOf(w, S \ (U \cup {x})) + WeightOf(w, U \cup {x})
    <3> HIDE DEF C
    <3> QED BY <2>2, <2>3, <2>4, <2>5
  <2> QED BY <2>4, <2>6, Zenon
<1>4. T \in C
  <2>1. IsFiniteSet(T)
    BY <1>1, Zenon
  <2> HIDE DEF C
  <2> QED BY <1>2, <1>3, <2>1, AllParts, Zenon
<1> QED BY <1>4, Zenon

-----------------------------------------------------------------------------
(* Lists.                                                                   *)

Distinct(q) == \A i, j \in 1..Len(q) : q[i] = q[j] => i = j

\* A list, and what is in it.
LEMMA ListIs ==
  ASSUME NEW K, NEW q \in Seq(K)
  PROVE  /\ Len(q) \in Nat /\ DOMAIN q = 1..Len(q)
         /\ Range(q) = {q[i] : i \in 1..Len(q)} /\ Range(q) \subseteq K
<1>1. Len(q) \in Nat /\ DOMAIN q = 1..Len(q) /\ q \in [1..Len(q) -> K]
  BY LenProperties, Zenon
<1> QED BY <1>1, Zenon DEF Range

\* A list without duplicates is as long as its set is large, and no list is shorter.
LEMMA ListCount ==
  ASSUME NEW K, NEW q \in Seq(K)
  PROVE  /\ IsFiniteSet(Range(q)) /\ Cardinality(Range(q)) <= Len(q)
         /\ Distinct(q) => Cardinality(Range(q)) = Len(q)
<1> DEFINE T == Range(q)
<1>1. /\ q \in [1..Len(q) -> K] /\ Len(q) \in Nat /\ T = {q[i] : i \in 1..Len(q)}
  BY ListIs, LenProperties, Zenon
<1>2. q \in Surjection(1..Len(q), T)
  BY <1>1, Zenon DEF Surjection
<1>3. Distinct(q) => q \in Injection(1..Len(q), T)
  BY <1>1, Zenon DEF Injection, IsInjective, Distinct
<1>4. IsFiniteSet(1..Len(q)) /\ Cardinality(1..Len(q)) = Len(q)
  <2>1. /\ IsFiniteSet(1..Len(q))
        /\ Cardinality(1..Len(q)) = IF 1 > Len(q) THEN 0 ELSE Len(q) - 1 + 1
    <3>1. 1 \in Int /\ Len(q) \in Int
      BY <1>1
    <3> QED BY <3>1, FS_Interval
  <2> QED BY <1>1, <2>1
<1> HIDE DEF T
<1>5. /\ IsFiniteSet(T) /\ Cardinality(T) <= Cardinality(1..Len(q))
      /\ Cardinality(T) = Cardinality(1..Len(q)) <=> q \in Injection(1..Len(q), T)
  BY <1>2, <1>4, FS_Surjection, Zenon
<1> QED BY <1>3, <1>4, <1>5, Zenon DEF T

\* One element more at the end.
LEMMA ListAppend ==
  ASSUME NEW K, NEW q \in Seq(K), NEW x \in K
  PROVE  /\ Append(q, x) \in Seq(K) /\ Range(Append(q, x)) = Range(q) \cup {x}
         /\ Distinct(q) /\ x \notin Range(q) => Distinct(Append(q, x))
<1> DEFINE r == Append(q, x)
<1>1. /\ r \in Seq(K) /\ Len(r) = Len(q) + 1 /\ Len(q) \in Nat
      /\ \A i \in 1..Len(q) : r[i] = q[i]
      /\ r[Len(q) + 1] = x
  <2>1. Len(q) \in Nat
    BY LenProperties, Zenon
  <2>2. /\ Append(q, x) \in Seq(K) /\ Len(Append(q, x)) = Len(q) + 1
        /\ \A i \in 1..Len(q) : Append(q, x)[i] = q[i]
        /\ Append(q, x)[Len(q) + 1] = x
    BY AppendProperties
  <2> QED BY <2>1, <2>2, Zenon
<1> HIDE DEF r
<1>2. 1..Len(r) = (1..Len(q)) \cup {Len(q) + 1} /\ Len(q) + 1 \notin 1..Len(q)
  BY <1>1
<1>3. Range(q) = {q[i] : i \in 1..Len(q)} /\ Range(r) = {r[i] : i \in 1..Len(r)}
  BY <1>1, ListIs, Zenon
<1>4. Range(r) = Range(q) \cup {x}
  <2>1. \A y \in Range(r) : y \in Range(q) \/ y = x
    BY <1>1, <1>2, <1>3, Zenon
  <2>2. x \in Range(r) /\ \A y \in Range(q) : y \in Range(r)
    BY <1>1, <1>2, <1>3, Zenon
  <2> QED BY <2>1, <2>2, Zenon
<1>5. Distinct(q) /\ x \notin Range(q) => Distinct(r)
  BY <1>1, <1>2, <1>3, ZenonT(60) DEF Distinct
<1> QED BY <1>1, <1>4, <1>5, Zenon DEF r

\* One element more at the front.
LEMMA ListPush ==
  ASSUME NEW K, NEW q \in Seq(K), NEW x \in K
  PROVE  /\ <<x>> \o q \in Seq(K) /\ Range(<<x>> \o q) = {x} \cup Range(q)
         /\ Distinct(q) /\ x \notin Range(q) => Distinct(<<x>> \o q)
<1> DEFINE r == <<x>> \o q
<1>1. /\ r \in Seq(K) /\ Len(r) = Len(q) + 1 /\ Len(q) \in Nat
      /\ \A i \in 1..Len(r) : r[i] = IF i = 1 THEN x ELSE q[i - 1]
  <2>1. <<x>> \in Seq(K) /\ Len(<<x>>) = 1 /\ <<x>>[1] = x /\ Len(q) \in Nat
    BY LenProperties
  <2>2. /\ r \in Seq(K) /\ Len(r) = Len(<<x>>) + Len(q)
        /\ \A i \in 1..Len(<<x>>) + Len(q) : r[i] = IF i <= Len(<<x>>) THEN <<x>>[i] ELSE q[i - Len(<<x>>)]
    BY <2>1, ConcatProperties, Zenon
  <2> HIDE DEF r
  <2> QED BY <2>1, <2>2
<1> HIDE DEF r
<1>2. /\ r[1] = x /\ 1 \in 1..Len(r)
      /\ \A i \in 1..Len(q) : i + 1 \in 1..Len(r) /\ r[i + 1] = q[i]
      /\ \A i \in 1..Len(r) : i # 1 => i - 1 \in 1..Len(q) /\ r[i] = q[i - 1]
  BY <1>1
<1>3. Range(q) = {q[i] : i \in 1..Len(q)} /\ Range(r) = {r[i] : i \in 1..Len(r)}
  <2>1. r \in Seq(K)
    BY <1>1, Zenon
  <2> QED BY <2>1, ListIs, Zenon
<1>4. Range(r) = {x} \cup Range(q)
  <2>1. \A y \in Range(r) : y = x \/ y \in Range(q)
    BY <1>2, <1>3, ZenonT(60)
  <2>2. x \in Range(r) /\ \A y \in Range(q) : y \in Range(r)
    BY <1>2, <1>3, Zenon
  <2> QED BY <2>1, <2>2, Zenon
<1>5. ASSUME Distinct(q), x \notin Range(q) PROVE Distinct(r)
  <2> SUFFICES ASSUME NEW i \in 1..Len(r), NEW j \in 1..Len(r), r[i] = r[j] PROVE i = j
    BY Zenon DEF Distinct
  <2>1. CASE i = 1 \/ j = 1
    BY <1>2, <1>3, <1>5, <2>1, Zenon
  <2>2. CASE i # 1 /\ j # 1
    <3>1. i - 1 = j - 1
      <4>1. /\ i - 1 \in 1..Len(q) /\ j - 1 \in 1..Len(q)
            /\ r[i] = q[i - 1] /\ r[j] = q[j - 1]
        BY <1>2, <2>2, Zenon
      <4>2. q[i - 1] = q[j - 1]
        BY <4>1, Zenon
      <4> QED BY <1>5, <4>1, <4>2, Zenon DEF Distinct
    <3> QED BY <1>1, <3>1
  <2> QED BY <2>1, <2>2, Zenon
<1> QED BY <1>1, <1>4, <1>5, Zenon DEF r

\* The front of a list.
LEMMA ListFront ==
  ASSUME NEW K, NEW q \in Seq(K), NEW n \in 0..Len(q)
  PROVE  /\ SubSeq(q, 1, n) \in Seq(K) /\ Len(SubSeq(q, 1, n)) = n
         /\ Range(SubSeq(q, 1, n)) \subseteq Range(q)
         /\ n = 0 => Range(SubSeq(q, 1, n)) = {}
         /\ Distinct(q) => Distinct(SubSeq(q, 1, n))
<1> DEFINE r == SubSeq(q, 1, n)
<1>0. Len(q) \in Nat /\ n \in Nat /\ n <= Len(q) /\ \A i \in 1..Len(q) : q[i] \in K
  BY LenProperties
<1>1. r \in Seq(K) /\ Len(r) = n /\ \A i \in 1..n : r[i] = q[i]
  <2>1. 1 \in Int /\ n \in Int /\ \A i \in 1..n : q[i] \in K
    BY <1>0
  <2>2. /\ r \in Seq(K) /\ Len(r) = IF 1 <= n THEN n - 1 + 1 ELSE 0
        /\ \A i \in 1..n - 1 + 1 : r[i] = q[1 + i - 1]
    BY <2>1, SubSeqProperties
  <2> HIDE DEF r
  <2> QED BY <1>0, <2>2
<1> HIDE DEF r
<1>2. Range(q) = {q[i] : i \in 1..Len(q)} /\ Range(r) = {r[i] : i \in 1..n} /\ 1..n \subseteq 1..Len(q)
  <2>1. Range(q) = {q[i] : i \in 1..Len(q)} /\ Range(r) = {r[i] : i \in 1..n}
    BY <1>1, ListIs, Zenon
  <2>2. 1..n \subseteq 1..Len(q)
    BY <1>0
  <2> QED BY <2>1, <2>2, Zenon
<1>3. Range(r) \subseteq Range(q)
  BY <1>1, <1>2, Zenon
<1>4. n = 0 => Range(r) = {}
  <2>1. n = 0 => 1..n = {}
    OBVIOUS
  <2> QED BY <1>2, <2>1, Zenon
<1>5. Distinct(q) => Distinct(r)
  BY <1>1, <1>2, Zenon DEF Distinct
<1> QED BY <1>1, <1>3, <1>4, <1>5, Zenon DEF r

-----------------------------------------------------------------------------
(* What Without leaves.                                                     *)

Left(s, S, f, n) ==
  IF n = 0 THEN <<>> ELSE IF s[n] \in S THEN f[n - 1] ELSE Append(f[n - 1], s[n])
Leaves(s, S, m, f) == f = [n \in 0..m |-> Left(s, S, f, n)]

\* The function that Without computes.
LEMMA WithoutIs ==
  ASSUME NEW s, NEW S
  PROVE  Without(s, S) = (CHOOSE f : Leaves(s, S, Len(s), f))[Len(s)]
BY Zenon DEF Without, Leaves, Left

\* There is such a function.
LEMMA LeavesExists ==
  ASSUME NEW s, NEW S
  PROVE  \A m \in Nat : \E f : Leaves(s, S, m, f)
<1> DEFINE N == {m \in Nat : \E f : Leaves(s, S, m, f)}
<1>1. 0 \in N
  <2>1. 0..0 = {0}
    OBVIOUS
  <2>2. Leaves(s, S, 0, [n \in {0} |-> <<>>])
    BY <2>1, Zenon DEF Leaves, Left
  <2> QED BY <2>2
<1>2. ASSUME NEW m \in Nat, m \in N PROVE m + 1 \in N
  <2>1. PICK f : Leaves(s, S, m, f)
    BY <1>2, Zenon
  <2> DEFINE g == [n \in 0..(m + 1) |-> Left(s, S, f, n)]
  <2>2. /\ m + 1 \in Nat /\ 0..m \subseteq 0..(m + 1)
        /\ \A n \in 0..(m + 1) : n # 0 => n - 1 \in 0..m
    OBVIOUS
  <2>3. \A n \in 0..m : g[n] = f[n]
    BY <2>1, <2>2, Zenon DEF Leaves
  <2>4. \A n \in 0..(m + 1) : Left(s, S, g, n) = Left(s, S, f, n)
    <3> HIDE DEF g
    <3> QED BY <2>2, <2>3, Zenon DEF Left
  <2>5. Leaves(s, S, m + 1, g)
    BY <2>4, Zenon DEF Leaves
  <2> QED BY <2>2, <2>5, Zenon
<1>3. Nat \subseteq N
  <2> HIDE DEF N
  <2> QED BY <1>1, <1>2, AllNaturals, Zenon
<1> QED BY <1>3, Zenon

\* It leaves the elements that are not in S, in a list without duplicates if that list was.
LEMMA WithoutLeaves ==
  ASSUME NEW K, NEW s \in Seq(K), NEW S
  PROVE  /\ Without(s, S) \in Seq(K) /\ Range(Without(s, S)) = Range(s) \ S
         /\ Distinct(s) => Distinct(Without(s, S))
<1> DEFINE f == CHOOSE f : Leaves(s, S, Len(s), f)
           First(n) == {s[i] : i \in 1..n}
           Good(n) == /\ f[n] \in Seq(K) /\ Range(f[n]) = First(n) \ S
                      /\ Distinct(s) => Distinct(f[n])
           N == {n \in Nat : n <= Len(s) => Good(n)}
<1>1. Len(s) \in Nat /\ Range(s) = {s[i] : i \in 1..Len(s)} /\ \A i \in 1..Len(s) : s[i] \in K
  BY ListIs, ElementOfSeq, Zenon
<1>2. Leaves(s, S, Len(s), f)
  BY <1>1, LeavesExists, Zenon
<1>3. Without(s, S) = f[Len(s)]
  BY WithoutIs, Zenon
<1> HIDE DEF f
<1>4. \A n \in 0..Len(s) : f[n] = Left(s, S, f, n)
  BY <1>2, Zenon DEF Leaves
<1>5. 0 \in N
  <2>1. f[0] = <<>>
    <3>1. 0 \in 0..Len(s)
      BY <1>1
    <3> QED BY <1>4, <3>1, Zenon DEF Left
  <2>2. First(0) = {}
    <3>1. 1..0 = {}
      OBVIOUS
    <3> QED BY <3>1, Zenon
  <2>3. <<>> \in Seq(K) /\ Len(<<>>) = 0
    BY EmptySeq, Zenon
  <2>4. Range(<<>>) = {} /\ Distinct(<<>>)
    <3>1. 1..0 = {}
      OBVIOUS
    <3>2. Range(<<>>) = {(<<>>)[i] : i \in 1..0}
      BY <2>3, ListIs, Zenon
    <3> QED BY <2>3, <3>1, <3>2, Zenon DEF Distinct
  <2> HIDE DEF First
  <2> QED BY <2>1, <2>2, <2>3, <2>4, Zenon
<1>6. ASSUME NEW n \in Nat, n \in N PROVE n + 1 \in N
  <2> SUFFICES ASSUME n + 1 <= Len(s) PROVE Good(n + 1)
    OBVIOUS
  <2>1. /\ n <= Len(s) /\ n + 1 \in 0..Len(s) /\ n + 1 \in 1..Len(s) /\ n + 1 # 0 /\ (n + 1) - 1 = n
        /\ 1..(n + 1) = (1..n) \cup {n + 1} /\ n + 1 \notin 1..n /\ 1..n \subseteq 1..Len(s)
    BY <1>1
  <2>2. Good(n)
    BY <1>6, <2>1, Zenon
  <2>3. First(n + 1) = First(n) \cup {s[n + 1]} /\ s[n + 1] \in K
    BY <1>1, <2>1, Zenon
  <2>4. f[n + 1] = IF s[n + 1] \in S THEN f[n] ELSE Append(f[n], s[n + 1])
    BY <1>4, <2>1, Zenon DEF Left
  <2>5. Distinct(s) => s[n + 1] \notin First(n)
    BY <2>1, Zenon DEF Distinct
  <2> HIDE DEF First
  <2>6. CASE s[n + 1] \in S
    BY <2>2, <2>3, <2>4, <2>6, Zenon
  <2>7. CASE s[n + 1] \notin S
    <3>1. /\ Append(f[n], s[n + 1]) \in Seq(K) /\ Range(Append(f[n], s[n + 1])) = Range(f[n]) \cup {s[n + 1]}
          /\ Distinct(f[n]) /\ s[n + 1] \notin Range(f[n]) => Distinct(Append(f[n], s[n + 1]))
      BY <2>2, <2>3, ListAppend, Zenon
    <3> QED BY <2>2, <2>3, <2>4, <2>5, <2>7, <3>1, Zenon
  <2> QED BY <2>6, <2>7, Zenon
<1>7. Good(Len(s))
  <2>1. Nat \subseteq N
    <3> HIDE DEF N
    <3> QED BY <1>5, <1>6, AllNaturals, Zenon
  <2>2. Len(s) <= Len(s)
    BY <1>1
  <2> HIDE DEF Good
  <2> QED BY <1>1, <2>1, <2>2, Zenon
<1> QED BY <1>1, <1>3, <1>7, Zenon

-----------------------------------------------------------------------------
(* The greatest of finitely many numbers.                                   *)

LEMMA MaxIs ==
  ASSUME NEW S, IsFiniteSet(S), S # {}, S \subseteq Nat
  PROVE  Max(S) \in S /\ \A y \in S : y <= Max(S)
<1> DEFINE C == {T \in SUBSET S : T # {} => \E x \in T : \A y \in T : x >= y}
<1>1. {} \in C
  BY Zenon
<1>2. ASSUME NEW T \in SUBSET S, NEW x \in S \ T, T \in C PROVE T \cup {x} \in C
  <2>1. x \in Nat /\ T \subseteq Nat
    BY Zenon
  <2>2. CASE T = {}
    <3>1. x >= x
      BY <2>1
    <3> QED BY <2>2, <3>1, Zenon
  <2>3. CASE T # {}
    <3>1. PICK z \in T : \A y \in T : z >= y
      BY <1>2, <2>3, Zenon
    <3>2. CASE z >= x
      BY <3>1, <3>2, Zenon
    <3>3. CASE ~(z >= x)
      <4>1. x >= x /\ \A y \in T : x >= y
        <5>1. \A y \in T : y \in Nat /\ z \in Nat /\ z >= y
          BY <2>1, <3>1, Zenon
        <5> HIDE DEF C
        <5> QED BY <2>1, <3>3, <5>1
      <4> QED BY <4>1, Zenon
    <3> QED BY <3>2, <3>3, Zenon
  <2> QED BY <2>2, <2>3, Zenon
<1>3. S \in C
  <2> HIDE DEF C
  <2> QED BY <1>1, <1>2, AllParts, Zenon
<1>4. PICK x \in S : \A y \in S : x >= y
  BY <1>3, Zenon
<1>5. Max(S) \in S /\ \A y \in S : Max(S) >= y
  BY <1>4, Zenon DEF Max
<1>6. \A y \in S : y \in Nat /\ Max(S) \in Nat
  BY <1>5, Zenon
<1> HIDE DEF C
<1> QED BY <1>5, <1>6

-----------------------------------------------------------------------------
(* The bytes.                                                               *)

\* The LRU list holds every cached key once.
Listed == lru \in Seq(Keys) /\ Distinct(lru) /\ Range(lru) = entries

\* bytes is the weight of what is cached, within both limits; what is not cached weighs nothing.
Weighed ==
  /\ weight \in [Keys -> 0..MaxWeight] /\ \A k \in Keys \ entries : weight[k] = 0
  /\ bytes = WeightOf(weight, entries) /\ bytes <= Bytes /\ Cardinality(entries) <= Entries

\* flightBytes is what the running flights reserved, within its limit.
Reserved ==
  /\ flightBytes = WeightOf([f \in Running |-> Reservation(wants[f])], Running)
  /\ flightBytes <= FlightBytes

Bounded == asleep \subseteq Loads /\ cancelled \subseteq Impatient /\ evictions \in 0..MaxEvictions

\* Reservations are numbers, and MaxWeight is not below any of them.
LEMMA Weights ==
  MaxWeight \in Nat /\ \A k \in Keys : Reservation(k) \in Nat /\ Reservation(k) <= MaxWeight
<1>1. \A k \in Keys : Reservation(k) \in Nat
  BY CacheConstants DEF Reservation
<1> DEFINE T == {Reservation(k) : k \in Keys}
           g == [k \in Keys |-> Reservation(k)]
<1>2. g \in Surjection(Keys, T)
  BY Zenon DEF Surjection
<1>3. IsFiniteSet(T)
  <2> HIDE DEF T, g
  <2> QED BY <1>2, CacheConstants, FS_Surjection, Zenon
<1> DEFINE U == {0} \cup T
<1>4. IsFiniteSet(U) /\ U # {}
  <2> HIDE DEF T
  <2>1. IsFiniteSet(T \cup {0})
    BY <1>3, FS_AddElement, Zenon
  <2>2. T \cup {0} = U
    BY Zenon
  <2> QED BY <2>1, <2>2, Zenon
<1>5. U \subseteq Nat
  <2>1. 0 \in Nat
    OBVIOUS
  <2> QED BY <1>1, <2>1, Zenon
<1>6. MaxWeight = Max(U) /\ \A k \in Keys : Reservation(k) \in U
  BY Zenon DEF MaxWeight
<1> HIDE DEF U
<1>7. Max(U) \in U /\ \A y \in U : y <= Max(U)
  BY <1>4, <1>5, MaxIs, Zenon
<1> QED BY <1>1, <1>5, <1>6, <1>7, Zenon

\* A key that was used comes first.
LEMMA Recent ==
  ASSUME NEW s \in Seq(Keys), Distinct(s), NEW k \in Keys
  PROVE  /\ <<k>> \o Without(s, {k}) \in Seq(Keys) /\ Distinct(<<k>> \o Without(s, {k}))
         /\ Range(<<k>> \o Without(s, {k})) = Range(s) \cup {k}
<1> DEFINE r == Without(s, {k})
<1>1. r \in Seq(Keys) /\ Range(r) = Range(s) \ {k} /\ Distinct(r)
  BY WithoutLeaves, Zenon
<1> HIDE DEF r
<1>2. /\ <<k>> \o r \in Seq(Keys) /\ Range(<<k>> \o r) = {k} \cup Range(r)
      /\ Distinct(r) /\ k \notin Range(r) => Distinct(<<k>> \o r)
  BY <1>1, ListPush, Zenon
<1>3. <<k>> \o r \in Seq(Keys) /\ Distinct(<<k>> \o r) /\ Range(<<k>> \o r) = Range(s) \cup {k}
  BY <1>1, <1>2, Zenon
<1> QED BY <1>3, Zenon DEF r

\* The numbers a key weighs.
LEMMA WeightsNat ==
  ASSUME NEW w \in [Keys -> 0..MaxWeight], NEW S \in SUBSET Keys
  PROVE  IsFiniteSet(S) /\ (\A x \in S : w[x] \in Nat) /\ WeightOf(w, S) \in Nat
<1>1. 0..MaxWeight \subseteq Nat
  BY Weights
<1>2. IsFiniteSet(S) /\ \A x \in S : w[x] \in Nat
  BY <1>1, CacheConstants, FS_Subset, ZenonT(60)
<1> QED BY <1>2, WeightNat, Zenon

\* What is kept is a part of the list within both limits.
LEMMA KeptIs ==
  ASSUME NEW s \in Seq(Keys), Distinct(s), NEW w \in [Keys -> 0..MaxWeight]
  PROVE  /\ Kept(s, w) \in Seq(Keys) /\ Distinct(Kept(s, w)) /\ Range(Kept(s, w)) \subseteq Range(s)
         /\ Cardinality(Range(Kept(s, w))) <= Entries /\ WeightOf(w, Range(Kept(s, w))) <= Bytes
<1> DEFINE Size == {n \in 0..Len(s) : n <= Entries /\ WeightOf(w, Range(SubSeq(s, 1, n))) <= Bytes}
<1>1. Len(s) \in Nat /\ Entries \in Nat /\ Bytes \in Nat
  BY CacheConstants, LenProperties
<1>2. IsFiniteSet(0..Len(s)) /\ 0..Len(s) \subseteq Nat /\ 0 \in 0..Len(s)
  <2>1. 0 \in Int /\ Len(s) \in Int
    BY <1>1
  <2>2. IsFiniteSet(0..Len(s))
    BY <2>1, FS_Interval
  <2> QED BY <1>1, <2>2
<1>3. IsFiniteSet(Size) /\ Size \subseteq Nat
  BY <1>2, FS_Subset, Zenon
<1>4. 0 \in Size
  <2>1. Range(SubSeq(s, 1, 0)) = {}
    BY <1>2, ListFront, Zenon
  <2>2. WeightOf(w, {}) = 0
    BY WeightStep, FS_EmptySet, Zenon
  <2>3. 0 <= Entries /\ 0 <= Bytes
    BY <1>1
  <2> QED BY <1>2, <2>1, <2>2, <2>3, ZenonT(60)
<1> DEFINE m == Max(Size)
<1>5. m \in Size
  <2> HIDE DEF Size
  <2> QED BY <1>3, <1>4, MaxIs, Zenon
<1>6. Kept(s, w) = SubSeq(s, 1, m)
  BY Zenon DEF Kept
<1> HIDE DEF m
<1>7. m \in 0..Len(s) /\ m <= Entries /\ WeightOf(w, Range(SubSeq(s, 1, m))) <= Bytes
  BY <1>5, Zenon
<1> DEFINE r == SubSeq(s, 1, m)
<1>8. r \in Seq(Keys) /\ Len(r) = m /\ Range(r) \subseteq Range(s) /\ Distinct(r)
  BY <1>7, ListFront, ZenonT(60)
<1>9. Cardinality(Range(r)) = m
  <2> HIDE DEF r
  <2> QED BY <1>8, ListCount, Zenon
<1> QED BY <1>6, <1>7, <1>8, <1>9, ZenonT(60)

\* An entry that is admitted: the oldest go until both limits hold.
LEMMA AdmitWeighs ==
  ASSUME Types, Listed, Weighed, NEW f, NEW k \in Keys, k \notin entries, NEW w \in 0..MaxWeight,
         Admit(f, k, w)
  PROVE  Listed' /\ Weighed'
<1>1. CASE UNCHANGED store
  BY <1>1, Zenon DEF store, Listed, Weighed
<1>2. CASE ~ UNCHANGED store
  <2> DEFINE weights == [weight EXCEPT ![k] = w]
             order == <<k>> \o Without(lru, {k})
             kept == Kept(order, weights)
             dropped == Range(order) \ Range(kept)
             all == entries \cup {k}
  <2>1. /\ entries' = (entries \cup {k}) \ dropped /\ lru' = kept
        /\ weight' = [x \in Keys |-> IF x \in dropped THEN 0 ELSE weights[x]]
        /\ bytes' = (bytes - weight[k]) + w - WeightOf(weights, dropped)
    BY <1>2, Zenon DEF Admit
  <2>2. order \in Seq(Keys) /\ Distinct(order) /\ Range(order) = all
    BY Recent, Zenon DEF Listed
  <2>3. /\ weights \in [Keys -> 0..MaxWeight] /\ weights[k] = w
        /\ \A x \in entries : weights[x] = weight[x]
    BY Zenon DEF Weighed, Types
  <2> HIDE DEF order, weights
  <2>4. /\ kept \in Seq(Keys) /\ Distinct(kept) /\ Range(kept) \subseteq all
        /\ Cardinality(Range(kept)) <= Entries /\ WeightOf(weights, Range(kept)) <= Bytes
    BY <2>2, <2>3, KeptIs, Zenon
  <2> HIDE DEF kept
  <2>5. all \subseteq Keys /\ dropped \subseteq all /\ all \ dropped = Range(kept) /\ dropped = all \ Range(kept)
    BY <2>2, <2>4, Zenon DEF Types
  <2>6. entries' = Range(kept)
    BY <2>1, <2>5, ZenonT(60)
  <2> HIDE DEF dropped
  <2>7. Listed'
    BY <2>1, <2>4, <2>6, ZenonT(60) DEF Listed
  <2>8. 0 \in 0..MaxWeight /\ 0..MaxWeight \subseteq Nat
    BY Weights
  <2>9. /\ weight' \in [Keys -> 0..MaxWeight]
        /\ \A x \in entries' : weight'[x] = weights[x]
        /\ \A x \in Keys \ entries' : weight'[x] = 0
    <3>1. \A x \in Keys : weight'[x] = IF x \in dropped THEN 0 ELSE weights[x]
      BY <2>1, Zenon
    <3>2. \A x \in entries' : x \in Keys /\ x \notin dropped
      BY <2>1, <2>5, Zenon
    <3>3. weight' \in [Keys -> 0..MaxWeight]
      BY <2>1, <2>3, <2>8, Zenon
    <3>4. \A x \in Keys \ entries' : weight'[x] = 0
      <4> SUFFICES ASSUME NEW x \in Keys, x \notin entries', x \notin dropped PROVE weights[x] = 0
        BY <3>1, Zenon
      <4>1. x \notin all
        BY <2>1, Zenon
      <4> QED BY <4>1, Zenon DEF weights, Weighed
    <3> QED BY <3>1, <3>2, <3>3, <3>4, ZenonT(60)
  <2> DEFINE kw == WeightOf(weights, Range(kept))
             dw == WeightOf(weights, dropped)
             aw == WeightOf(weights, all)
  <2>10. kw \in Nat /\ dw \in Nat /\ aw \in Nat /\ aw = kw + dw
    <3>1. kw \in Nat /\ dw \in Nat /\ aw \in Nat
      BY <2>3, <2>4, <2>5, WeightsNat, Zenon
    <3> HIDE DEF all
    <3>2. IsFiniteSet(all) /\ (\A x \in all : weights[x] \in Nat) /\ dropped \in SUBSET all
      BY <2>3, <2>5, WeightsNat, Zenon
    <3>3. aw = WeightOf(weights, all \ dropped) + dw
      BY <3>2, WeightRest, Zenon
    <3> QED BY <2>5, <3>1, <3>3, Zenon
  <2>11. aw = w + bytes /\ bytes \in Nat /\ w \in Nat /\ weight[k] = 0
    <3>1. IsFiniteSet(all) /\ \A x \in all : weights[x] \in Nat
      BY <2>3, <2>5, WeightsNat, ZenonT(60)
    <3>2. k \in all /\ all \ {k} = entries
      BY Zenon
    <3>3. aw = w + WeightOf(weights, entries)
      <4> HIDE DEF all
      <4>1. \A x \in all : aw = weights[x] + WeightOf(weights, all \ {x})
        BY <3>1, WeightSplit, ZenonT(60)
      <4>2. aw = weights[k] + WeightOf(weights, all \ {k})
        BY <3>2, <4>1, Zenon
      <4> QED BY <2>3, <3>2, <4>2, ZenonT(60)
    <3>4. IsFiniteSet(entries) /\ bytes \in Nat
      BY WeightsNat, Zenon DEF Types, Weighed
    <3>5. WeightOf(weights, entries) = WeightOf(weight, entries)
      BY <2>3, <3>4, WeightSame, Zenon
    <3>6. w \in Nat /\ weight[k] = 0
      BY <2>8, Zenon DEF Weighed
    <3> QED BY <3>3, <3>4, <3>5, <3>6, ZenonT(60) DEF Weighed
  <2>12. bytes' = kw
    <3> HIDE DEF kw, dw, aw
    <3>1. bytes' = (bytes - weight[k]) + w - dw
      BY <2>1, Zenon DEF dw
    <3>2. \A a, b, c, d, e \in Nat : a = b + c /\ a = e + d => (d - 0) + e - c = b
      OBVIOUS
    <3>3. kw + dw = w + bytes
      BY <2>10, <2>11, ZenonT(60)
    <3>4. (bytes - 0) + w - dw = kw
      BY <2>10, <2>11, <3>2, <3>3, SMTT(30)
    <3> QED BY <2>11, <3>1, <3>4, ZenonT(60)
  <2>13. WeightOf(weight', entries') = kw
    <3>1. IsFiniteSet(entries')
      BY <2>5, <2>6, <2>3, <2>4, WeightsNat, ZenonT(60)
    <3>2. WeightOf(weight', entries') = WeightOf(weights, entries')
      BY <2>9, <3>1, WeightSame, ZenonT(60)
    <3> QED BY <2>6, <3>2, ZenonT(60)
  <2> QED BY <2>4, <2>6, <2>7, <2>9, <2>12, <2>13, ZenonT(60) DEF Weighed
<1> QED BY <1>1, <1>2, SMTT(30)

\* The entries of a snapshot that is evicted.
LEMMA EvictWeighs ==
  ASSUME Types, Listed, Weighed, NEW s, EvictSnapshot(s)
  PROVE  Listed' /\ Weighed'
<1> DEFINE gone == {k \in Keys : SnapshotOf[k] = s}
           out == gone \cap entries
<1>1. /\ entries' = entries \ gone /\ lru' = Without(lru, gone)
      /\ weight' = [k \in Keys |-> IF k \in gone THEN 0 ELSE weight[k]]
      /\ bytes' = bytes - WeightOf(weight, out)
  BY Zenon DEF EvictSnapshot
<1> HIDE DEF gone
<1>2. Listed'
  <2>1. /\ Without(lru, gone) \in Seq(Keys) /\ Range(Without(lru, gone)) = Range(lru) \ gone
        /\ Distinct(Without(lru, gone))
    BY WithoutLeaves, Zenon DEF Listed
  <2> QED BY <1>1, <2>1, ZenonT(60) DEF Listed
<1>3. entries \subseteq Keys /\ out \in SUBSET entries /\ entries' = entries \ out /\ entries' \subseteq entries
  BY <1>1, Zenon DEF Types
<1>4. /\ weight' \in [Keys -> 0..MaxWeight] /\ \A x \in entries' : weight'[x] = weight[x]
      /\ \A x \in Keys \ entries' : weight'[x] = 0
  <2>1. 0 \in 0..MaxWeight
    BY Weights
  <2> QED BY <1>1, <2>1, ZenonT(60) DEF Types, Weighed
<1> HIDE DEF out
<1>5. /\ IsFiniteSet(entries) /\ IsFiniteSet(entries') /\ \A x \in entries : weight[x] \in Nat
      /\ bytes \in Nat /\ WeightOf(weight, entries') \in Nat /\ WeightOf(weight, out) \in Nat
  <2>1. entries' \in SUBSET Keys /\ entries \in SUBSET Keys /\ out \in SUBSET Keys
    BY <1>3, Zenon
  <2> QED BY <2>1, WeightsNat, Zenon DEF Weighed
<1>6. bytes = WeightOf(weight, entries') + WeightOf(weight, out)
  <2>1. WeightOf(weight, entries) = WeightOf(weight, entries \ out) + WeightOf(weight, out)
    BY <1>3, <1>5, WeightRest, ZenonT(60)
  <2> QED BY <1>3, <2>1, Zenon DEF Weighed
<1>7. bytes' = WeightOf(weight, entries') /\ bytes' <= bytes
  <2>1. \A a, b, c \in Nat : a = b + c => a - c = b /\ b <= a
    OBVIOUS
  <2>2. /\ bytes - WeightOf(weight, out) = WeightOf(weight, entries')
        /\ WeightOf(weight, entries') <= bytes
    BY <1>5, <1>6, <2>1, SMTT(30)
  <2> QED BY <1>1, <2>2, Zenon
<1>8. WeightOf(weight', entries') = WeightOf(weight, entries')
  BY <1>4, <1>5, WeightSame, ZenonT(60)
<1>9. Cardinality(entries') <= Cardinality(entries) /\ Cardinality(entries) \in Nat /\ Cardinality(entries') \in Nat
  BY <1>3, <1>5, FS_Subset, FS_CardinalityType, ZenonT(60)
<1>10. bytes' <= Bytes /\ Cardinality(entries') <= Entries
  <2>1. /\ bytes <= Bytes /\ Cardinality(entries) <= Entries /\ Bytes \in Nat /\ Entries \in Nat
        /\ bytes' \in Nat
    BY <1>5, <1>7, CacheConstants, ZenonT(60) DEF Weighed
  <2>2. \A a, b, c \in Nat : a <= b /\ b <= c => a <= c
    OBVIOUS
  <2> QED BY <1>5, <1>7, <1>9, <2>1, <2>2, ZenonT(60)
<1> QED BY <1>2, <1>4, <1>7, <1>8, <1>10, ZenonT(60) DEF Weighed

\* The reservations of the running flights.
LEMMA HeldNat ==
  ASSUME CInv
  PROVE  /\ IsFiniteSet(Running) /\ \A f \in Running : wants[f] \in Keys /\ Reservation(wants[f]) \in Nat
         /\ WeightOf([f \in Running |-> Reservation(wants[f])], Running) \in Nat
<1> DEFINE h == [f \in Running |-> Reservation(wants[f])]
<1>1. \A f \in Running : wants[f] \in Keys
  BY Zenon DEF Running, CInv, Callers
<1>2. IsFiniteSet(Running) /\ \A f \in Running : Reservation(wants[f]) \in Nat
  BY <1>1, RunningFinite, Weights, ZenonT(60)
<1>3. \A f \in Running : h[f] \in Nat
  BY <1>2, Zenon
<1>4. WeightOf(h, Running) \in Nat
  <2> HIDE DEF h
  <2> QED BY <1>2, <1>3, WeightNat, ZenonT(60)
<1> QED BY <1>1, <1>2, <1>4, Zenon

\* A flight reserves its bytes when it starts.
LEMMA StartReserves ==
  ASSUME CInv, Reserved, NEW c \in Loads, Start(c)
  PROVE  Reserved'
<1> DEFINE h == [f \in Running |-> Reservation(wants[f])]
           g == [f \in Running \cup {c} |-> Reservation(wants[f])]
           R == Running \cup {c}
<1>1. /\ state' = [state EXCEPT ![c] = "running"] /\ state[c] = "none" /\ wants' = wants
      /\ flightBytes' = flightBytes + Reservation(wants[c])
      /\ flightBytes <= FlightBytes - Reservation(wants[c]) /\ wants[c] \in Keys
  BY DEF Start, Free, Turn, CInv, Callers
<1>2. Running' = R /\ c \notin Running
  BY <1>1 DEF Running, CInv, Types
<1>3. /\ IsFiniteSet(Running) /\ IsFiniteSet(R) /\ \A x \in R : g[x] \in Nat
      /\ \A x \in Running : h[x] = g[x]
  <2>1. IsFiniteSet(Running) /\ IsFiniteSet(R)
    BY HeldNat, FS_AddElement, Zenon
  <2> QED BY <1>1, <2>1, HeldNat, Weights, ZenonT(60)
<1>4. R \ {c} = Running /\ c \in R /\ g[c] = Reservation(wants[c])
  BY <1>2, Zenon
<1>5. flightBytes = WeightOf(h, Running) /\ flightBytes \in Nat /\ Reservation(wants[c]) \in Nat
  BY <1>1, HeldNat, Weights, ZenonT(60) DEF Reserved
<1>6. Reserved' <=> flightBytes' = WeightOf(g, R) /\ flightBytes' <= FlightBytes
  BY <1>1, <1>2, Zenon DEF Reserved
<1> HIDE DEF h, g, R
<1>7. WeightOf(g, R) = Reservation(wants[c]) + WeightOf(g, Running)
  <2>1. \A x \in R : WeightOf(g, R) = g[x] + WeightOf(g, R \ {x})
    BY <1>3, WeightSplit, ZenonT(60)
  <2>2. WeightOf(g, R) = g[c] + WeightOf(g, R \ {c})
    BY <1>4, <2>1, Zenon
  <2> QED BY <1>4, <2>2, Zenon
<1>8. WeightOf(h, Running) = WeightOf(g, Running)
  BY <1>3, WeightSame, Zenon
<1>9. flightBytes' = WeightOf(g, R) /\ flightBytes' <= FlightBytes
  <2>1. \A a, b, l \in Nat : a + b = b + a /\ (a <= l - b => a + b <= l)
    OBVIOUS
  <2>2. FlightBytes \in Nat
    BY CacheConstants
  <2> QED BY <1>1, <1>5, <1>7, <1>8, <2>1, <2>2, ZenonT(60)
<1> QED BY <1>6, <1>9, ZenonT(60)

\* It gives them back when it ends, once, whether anybody waits for it or not.
LEMMA ExecuteReserves ==
  ASSUME CInv, Reserved, NEW f \in Loads, Execute(f)
  PROVE  Reserved'
<1> DEFINE h == [x \in Running |-> Reservation(wants[x])]
           g == [x \in Running \ {f} |-> Reservation(wants[x])]
           R == Running \ {f}
<1>1. /\ state[f] = "running" /\ flightBytes' = flightBytes - Reservation(wants[f])
      /\ wants' = wants
  BY DEF Execute, Complete
<1>2. PICK r \in {"done", "failed"} : state' = [state EXCEPT ![f] = r]
  BY ExecuteIs, Zenon
<1>3. Running' = R /\ f \in Running
  BY <1>1, <1>2 DEF Running, CInv, Types
<1>4. /\ IsFiniteSet(Running) /\ IsFiniteSet(R) /\ (\A x \in Running : h[x] \in Nat)
      /\ (\A x \in R : h[x] = g[x]) /\ h[f] = Reservation(wants[f])
  <2>1. IsFiniteSet(Running) /\ IsFiniteSet(R)
    BY HeldNat, FS_Subset, Zenon
  <2> QED BY <1>3, <2>1, HeldNat, Zenon
<1>5. flightBytes = WeightOf(h, Running) /\ flightBytes <= FlightBytes
  BY Zenon DEF Reserved
<1>6. Reserved' <=> flightBytes' = WeightOf(g, R) /\ flightBytes' <= FlightBytes
  BY <1>1, <1>3, ZenonT(60) DEF Reserved
<1>7. Reservation(wants[f]) \in Nat
  BY <1>3, HeldNat, Zenon
<1> HIDE DEF h, g
<1>8. WeightOf(h, Running) = Reservation(wants[f]) + WeightOf(h, R)
  <2>1. \A x \in Running : WeightOf(h, Running) = h[x] + WeightOf(h, Running \ {x})
    BY <1>4, WeightSplit, ZenonT(60)
  <2> QED BY <1>3, <1>4, <2>1, Zenon
<1> HIDE DEF R
<1>9. WeightOf(h, R) = WeightOf(g, R)
  BY <1>4, WeightSame, Zenon
<1>10. WeightOf(h, R) \in Nat
  <2>1. \A x \in R : h[x] \in Nat
    BY <1>4, Zenon DEF R
  <2> QED BY <1>4, <2>1, WeightNat, Zenon
<1>11. flightBytes' = WeightOf(g, R) /\ flightBytes' <= FlightBytes
  <2>1. \A a, b, l \in Nat : a + b <= l => (a + b) - a = b /\ b <= l
    OBVIOUS
  <2>2. FlightBytes \in Nat
    BY CacheConstants
  <2> DEFINE a == Reservation(wants[f])
             b == WeightOf(h, R)
  <2>3. a \in Nat /\ b \in Nat /\ flightBytes = a + b /\ flightBytes <= FlightBytes
    BY <1>5, <1>7, <1>8, <1>10, ZenonT(60)
  <2>4. flightBytes - a = b /\ b <= FlightBytes
    <3> HIDE DEF a, b
    <3> QED BY <2>1, <2>2, <2>3, SMTT(30)
  <2> QED BY <1>1, <1>9, <2>4, Zenon
<1> QED BY <1>6, <1>11, ZenonT(60)

\* No other step changes what is reserved.
LEMMA OtherReserves ==
  ASSUME Reserved, UNCHANGED <<state, flightBytes>>, \A f \in Running : wants'[f] = wants[f]
  PROVE  Reserved'
<1>1. Running' = Running
  BY Zenon DEF Running
<1>2. [f \in Running' |-> Reservation(wants'[f])] = [f \in Running |-> Reservation(wants[f])]
  BY <1>1, Zenon
<1> QED BY <1>1, <1>2, Zenon DEF Reserved

-----------------------------------------------------------------------------
(* The budgets, in every behaviour.                                         *)

BInv == Listed /\ Weighed /\ Reserved /\ Bounded

\* Nothing is cached or reserved at first.
LEMMA InitBudgets ==
  ASSUME Init
  PROVE  BInv
<1>0. Bytes \in Nat /\ Entries \in Nat /\ FlightBytes \in Nat /\ MaxEvictions \in Nat
  BY CacheConstants
<1>1. Listed
  <2>1. <<>> \in Seq(Keys) /\ Len(<<>>) = 0
    BY EmptySeq, Zenon
  <2>2. 1..0 = {}
    OBVIOUS
  <2>3. Range(<<>>) = {(<<>>)[i] : i \in 1..0}
    BY <2>1, ListIs, Zenon
  <2> QED BY <2>1, <2>2, <2>3, ZenonT(60) DEF Init, Listed, Distinct
<1>2. \A w : WeightOf(w, {}) = 0
  BY WeightStep, FS_EmptySet, Zenon
<1>3. Weighed
  <2>1. 0 \in 0..MaxWeight /\ 0 <= Bytes /\ 0 <= Entries
    BY <1>0, Weights
  <2>2. Cardinality({}) = 0
    BY FS_EmptySet, Zenon
  <2> QED BY <1>2, <2>1, <2>2, ZenonT(60) DEF Init, Weighed
<1>4. Reserved
  <2>1. Running = {} /\ flightBytes = 0
    BY Zenon DEF Init, Running
  <2>2. 0 <= FlightBytes
    BY <1>0
  <2> QED BY <1>2, <2>1, <2>2, Zenon DEF Reserved
<1>5. Bounded
  BY <1>0 DEF Init, Bounded
<1> QED BY <1>1, <1>3, <1>4, <1>5, ZenonT(60) DEF BInv

\* What a flight's end does to what is cached: only a key that was not cached is admitted.
LEMMA ExecuteWeighs ==
  ASSUME CInv, Listed, Weighed, NEW f \in Loads, Execute(f)
  PROVE  Listed' /\ Weighed'
<1> DEFINE k == wants[f]
<1>1. k \in Keys
  BY ExecuteIs, Zenon
<1>2. CASE UNCHANGED store
  BY <1>2, Zenon DEF store, Listed, Weighed
<1>3. CASE ~ UNCHANGED store
  <2>1. \A w : Complete(f, w, TRUE) => UNCHANGED store
    BY Zenon DEF Complete
  <2>2. PICK d \in 0..MaxDecoded[k] : Complete(f, Length[k] + d, FALSE)
    BY <1>3, <2>1, Zenon DEF Execute
  <2>3. flights[k] = f /\ Admit(f, k, Length[k] + d)
    BY <1>3, <2>2, Zenon DEF Complete
  <2>4. k \notin entries
    <3>1. f # None
      BY CacheConstants, Zenon
    <3> QED BY <1>1, <2>3, <3>1, Zenon DEF CInv, Mapped
  <2>5. Length[k] + d \in 0..MaxWeight
    <3>1. Reservation(k) <= MaxWeight /\ MaxWeight \in Nat
      BY <1>1, Weights, Zenon
    <3>2. Length[k] \in Nat /\ MaxDecoded[k] \in Nat
      BY <1>1, CacheConstants
    <3> HIDE DEF k
    <3> QED BY <3>1, <3>2 DEF Reservation
  <2> HIDE DEF k
  <2>6. Types
    BY Zenon DEF CInv
  <2> DEFINE w == Length[k] + d
  <2>7. w \in 0..MaxWeight /\ Admit(f, k, w)
    BY <2>3, <2>5, Zenon
  <2> HIDE DEF w
  <2> QED BY <1>1, <2>4, <2>6, <2>7, AdmitWeighs, Zenon
<1> QED BY <1>2, <1>3, Zenon

\* A step that leaves what is cached alone.
LEMMA OtherWeighs ==
  ASSUME Listed, Weighed, UNCHANGED <<entries, weight, bytes>>, UNCHANGED lru
  PROVE  Listed' /\ Weighed'
BY Zenon DEF Listed, Weighed

\* The steps of a call that only touch its own place.
LEMMA AloneBudgets ==
  ASSUME BInv, NEW c \in Loads,
         Cancel(c) \/ LoadCancelled(c) \/ Join(c) \/ Refuse(c) \/ Leave(c) \/ ReleaseWaiter(c)
  PROVE  BInv'
<1>1. UNCHANGED store /\ UNCHANGED <<state, flightBytes, wants, evictions>>
  BY ZenonT(60) DEF Cancel, LoadCancelled, Join, Refuse, Leave, ReleaseWaiter, store, budget
<1>2. Listed' /\ Weighed'
  BY <1>1, OtherWeighs, Zenon DEF BInv, store
<1>3. Reserved'
  BY <1>1, OtherReserves, Zenon DEF BInv
<1>4. Bounded'
  BY <1>1, ZenonT(60) DEF BInv, Bounded, Cancel, LoadCancelled, Join, Refuse, Leave, ReleaseWaiter
<1> QED BY <1>2, <1>3, <1>4, Zenon DEF BInv

\* Every step keeps the budgets.
LEMMA NextBudgets ==
  ASSUME CInv, BInv, [Next]_vars
  PROVE  BInv'
<1>1. ASSUME NEW c \in Loads, NEW k \in Keys, Load(c, k) PROVE BInv'
  <2>1. /\ UNCHANGED store /\ UNCHANGED <<state, flightBytes, asleep, cancelled, evictions>>
        /\ wants' = [wants EXCEPT ![c] = k] /\ pc[c] = "start"
    BY <1>1, Zenon DEF Load, budget
  <2>2. \A f \in Running : wants'[f] = wants[f]
    <3>1. state[c] = "none"
      BY <2>1 DEF CInv, Callers
    <3> QED BY <2>1, <3>1, Zenon DEF Running, CInv, Types
  <2>3. Listed' /\ Weighed'
    BY <2>1, OtherWeighs, Zenon DEF BInv, store
  <2>4. Reserved'
    BY <2>1, <2>2, OtherReserves, Zenon DEF BInv
  <2> QED BY <2>1, <2>3, <2>4, Zenon DEF BInv, Bounded
<1>2. ASSUME NEW c \in Loads, Hit(c) PROVE BInv'
  <2>1. /\ wants[c] \in entries /\ lru' = <<wants[c]>> \o Without(lru, {wants[c]})
        /\ UNCHANGED <<entries, weight, bytes>>
        /\ UNCHANGED <<state, flightBytes, wants, asleep, cancelled, evictions>>
    BY <1>2, Zenon DEF Hit, Cached, budget
  <2>2. wants[c] \in Keys
    BY <2>1, Zenon DEF CInv, Types
  <2>3. Listed'
    <3>1. /\ lru' \in Seq(Keys) /\ Distinct(lru') /\ Range(lru') = Range(lru) \cup {wants[c]}
      BY <2>1, <2>2, Recent, Zenon DEF BInv, Listed
    <3> QED BY <2>1, <3>1, Zenon DEF BInv, Listed
  <2>4. Weighed' /\ Bounded'
    BY <2>1, Zenon DEF BInv, Weighed, Bounded
  <2>5. Reserved'
    BY <2>1, OtherReserves, Zenon DEF BInv
  <2> QED BY <2>3, <2>4, <2>5, Zenon DEF BInv
<1>3. ASSUME NEW c \in Loads, Start(c) PROVE BInv'
  <2>1. UNCHANGED store /\ UNCHANGED <<asleep, cancelled, evictions>>
    BY <1>3, Zenon DEF Start
  <2>2. Listed' /\ Weighed'
    BY <2>1, OtherWeighs, Zenon DEF BInv, store
  <2>3. Reserved'
    BY <1>3, StartReserves, Zenon DEF BInv
  <2> QED BY <2>1, <2>2, <2>3, ZenonT(60) DEF BInv, Bounded
<1>4. ASSUME NEW c \in Loads, Execute(c) PROVE BInv'
  <2>1. asleep' = {} /\ UNCHANGED <<cancelled, evictions>>
    BY <1>4, Zenon DEF Execute, Complete
  <2>2. Listed' /\ Weighed'
    BY <1>4, ExecuteWeighs, ZenonT(60) DEF BInv
  <2>3. Reserved'
    BY <1>4, ExecuteReserves, Zenon DEF BInv
  <2> QED BY <2>1, <2>2, <2>3, Zenon DEF BInv, Bounded
<1>5. ASSUME NEW s, EvictSnapshot(s) PROVE BInv'
  <2>1. /\ evictions < MaxEvictions /\ evictions' = evictions + 1
        /\ UNCHANGED <<state, flightBytes, wants, asleep, cancelled>>
    BY <1>5, Zenon DEF EvictSnapshot, budget
  <2>2. Listed' /\ Weighed'
    BY <1>5, EvictWeighs, Zenon DEF BInv, CInv
  <2>3. Reserved'
    BY <2>1, OtherReserves, Zenon DEF BInv
  <2>4. Bounded'
    <3>1. MaxEvictions \in Nat /\ evictions \in 0..MaxEvictions
      BY CacheConstants, Zenon DEF BInv, Bounded
    <3>2. evictions' \in 0..MaxEvictions
      BY <2>1, <3>1
    <3> QED BY <2>1, <3>2, Zenon DEF BInv, Bounded
  <2> QED BY <2>2, <2>3, <2>4, Zenon DEF BInv
<1>6. CASE UNCHANGED vars
  <2>1. UNCHANGED store /\ UNCHANGED <<state, flightBytes, wants, asleep, cancelled, evictions>>
    BY <1>6, Zenon DEF vars, store
  <2>2. Listed' /\ Weighed'
    BY <2>1, OtherWeighs, Zenon DEF BInv, store
  <2>3. Reserved'
    BY <2>1, OtherReserves, Zenon DEF BInv
  <2> QED BY <2>1, <2>2, <2>3, ZenonT(60) DEF BInv, Bounded
<1> QED
  BY <1>1, <1>2, <1>3, <1>4, <1>5, <1>6, AloneBudgets, ZenonT(60) DEF Next, LoadStep, Finished

\* The budgets hold in every behaviour of the cache.
LEMMA AlwaysBInv == Spec => []BInv
BY InitBudgets, NextBudgets, AlwaysCInv, PTL DEF Spec

\* Both budgets are exact and kept, for any keys, weights and limits: bytes is the weight of what
\* is cached, flightBytes what the running flights reserved, and no counter passes its limit.
THEOREM AlwaysBudgets == Spec => []BudgetsAreExact
<1>1. BInv /\ SlotsAreExact => BudgetsAreExact
  BY Zenon DEF BInv, Weighed, Reserved, BudgetsAreExact
<1> QED BY <1>1, AlwaysBInv, AlwaysSlots, PTL

\* The types, and the LRU list holds every cached key once.
THEOREM AlwaysTypes == Spec => []TypeOK
<1>1. ASSUME CInv, BInv, SlotsAreExact PROVE TypeOK
  <2>1. entries \in SUBSET Keys /\ weight \in [Keys -> 0..MaxWeight] /\ bytes = WeightOf(weight, entries)
    BY <1>1, Zenon DEF CInv, Types, BInv, Weighed
  <2>2. bytes \in Nat
    BY <2>1, WeightsNat, Zenon
  <2>3. Len(lru) = Cardinality(entries)
    BY <1>1, ListCount, Zenon DEF BInv, Listed
  <2>4. flightBytes \in Nat
    BY <1>1, HeldNat, Zenon DEF BInv, Reserved
  <2>5. flightEntries \in Nat
    BY <1>1, RunningFinite, Zenon DEF SlotsAreExact
  <2>6. waiters \in [Loads -> 0..Cardinality(Loads)]
    <3>1. ASSUME NEW f \in Loads PROVE waiters[f] \in 0..Cardinality(Loads)
      <4>1. Waiting(f) \subseteq Loads /\ waiters[f] = Cardinality(Waiting(f))
        BY <1>1, Zenon DEF CInv, Attended, Waiting
      <4>2. /\ IsFiniteSet(Waiting(f)) /\ Cardinality(Waiting(f)) <= Cardinality(Loads)
        BY <4>1, CacheConstants, FS_Subset, ZenonT(60)
      <4>3. Cardinality(Waiting(f)) \in Nat /\ Cardinality(Loads) \in Nat
        BY <4>2, CacheConstants, FS_CardinalityType, Zenon
      <4> QED BY <4>1, <4>2, <4>3, SMTT(30)
    <3>2. waiters \in [Loads -> Nat]
      BY <1>1, Zenon DEF CInv, Types
    <3> QED BY <3>1, <3>2, ZenonT(60)
  <2> QED BY <1>1, <2>2, <2>3, <2>4, <2>5, <2>6, ZenonT(60)
         DEF TypeOK, CInv, Types, Labels, BInv, Listed, Weighed, Bounded
<1> QED BY <1>1, AlwaysCInv, AlwaysBInv, PTL
==============================================================================
