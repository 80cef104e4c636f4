---------------------------- MODULE LocalStorage ----------------------------
(***************************************************************************)
(* The browser storage of the local docs worker (createBrowserStorage in   *)
(* storage.js).  What IndexedDB and CacheStorage hold for one publication  *)
(* is one record; every IndexedDB transaction and every purge of the caches *)
(* is an operator from that record to the next one.  The order in which an  *)
(* operation performs them, the queue it waits in and the failures between  *)
(* them belong to LocalDocs.                                                *)
(*                                                                         *)
(* A descriptor stands for the identity (revision id, projection digest):   *)
(* RevisionOf gives its revision, and the digest is the descriptor itself.  *)
(***************************************************************************)
EXTENDS Lists, FiniteSets

CONSTANTS
  Descriptors,     \* identities the server has published or will publish
  Revisions,       \* their revision ids
  RevisionOf,      \* [Descriptors -> Revisions]
  MaxGenerations,  \* MAX_GENERATIONS
  MaxPublications, \* MAX_PUBLICATIONS
  None             \* the empty string or undefined

Pointers == Descriptors \cup {None}
Content == {"shell", "asset", "fallback"}

(***************************************************************************)
(* The stored state of a publication:                                      *)
(*   seen        the descriptor last remembered (None: no metadata yet)    *)
(*   active, previous, candidate   the generation pointers                 *)
(*   etag        the manifest whose ETag is stored                         *)
(*   epoch       bumped by every change of a pointer                       *)
(*   disabled, tombstone   the tombstone and the revision it names         *)
(*   generations the generation records, keyed by revision                 *)
(*   cached      <<descriptor, content>>: what its generation cache holds  *)
(***************************************************************************)
EmptyMetadata ==
  [seen |-> None, active |-> None, previous |-> None, candidate |-> None,
   etag |-> None, epoch |-> 0, disabled |-> FALSE, tombstone |-> None,
   evicted |-> FALSE, generations |-> {}, cached |-> {}]

Revision(d) == IF d = None THEN None ELSE RevisionOf[d]

Tombstoned(s, r) == s.disabled /\ s.tombstone = r

\* loadGeneration without a digest: the record of a revision.
Record(s, r) == {g \in s.generations : RevisionOf[g] = r}

\* loadActive and loadPrevious, as a set of at most one generation.
Loadable(s, d) == IF ~ s.disabled /\ d \in s.generations THEN {d} ELSE {}
LoadActive(s) == Loadable(s, s.active)
LoadPrevious(s) == Loadable(s, s.previous)

NextEpoch(s) == [s EXCEPT !.epoch = @ + 1]

Observe(s, d, etag) ==
  [s EXCEPT !.seen = IF d = None THEN @ ELSE d,
            !.etag = IF etag = None THEN @ ELSE etag]

\* The guard and the transaction of commitGeneration: the record of the same
\* revision is overwritten.
MayCommit(s, d) == ~ Tombstoned(s, RevisionOf[d])

CommitGeneration(s, d) ==
  NextEpoch([s EXCEPT !.seen = d, !.candidate = d,
                      !.generations = (@ \ Record(s, RevisionOf[d])) \cup {d}])

MayActivate(s, r) == Record(s, r) # {} /\ ~ Tombstoned(s, r)

\* activate up to its metadata write; the new etag is the generation's.
Activate(s, r) ==
  LET d == CHOOSE g \in Record(s, r) : TRUE
      rotated == s.active # None /\ Revision(s.active) # r
  IN  NextEpoch([s EXCEPT !.previous = IF rotated THEN s.active ELSE @,
                          !.active = d, !.candidate = None,
                          !.disabled = FALSE, !.tombstone = None,
                          !.evicted = FALSE, !.etag = d])

\* Mutant: the oldest pointer first, and the empty ones counted.
PruneGenerationsOldestFirst(s) ==
  LET keep == {Revision(<<s.candidate, s.previous, s.active>>[i]) :
                 i \in 1 .. MaxGenerations}
  IN  [s EXCEPT !.generations = {g \in @ : RevisionOf[g] \in keep}]

PruneGenerations(s) ==
  LET kept == Without(<<s.active, s.previous, s.candidate>>, {None})
      keep == {Revision(kept[i]) : i \in 1 .. Len(kept) \cap 1 .. MaxGenerations}
  IN  [s EXCEPT !.generations = {g \in @ : RevisionOf[g] \in keep}]

PruneGenerationCaches(s) ==
  LET keep == {<<s.active, s.previous, s.candidate>>[i] : i \in 1 .. 3 \cap 1 .. MaxGenerations}
  IN  [s EXCEPT !.cached = {e \in @ : e[1] \in keep}]

\* What activate returns: the state it wrote (the token's metadata is the
\* object that activate goes on to modify), the generations that were active
\* and previous before, and the epoch of the activation.
Token(s, activated) ==
  [metadata |-> activated,
   records |-> {s.active, s.previous} \cap s.generations]

\* Mutant: rolling back whatever has happened since.
RestoreAlways(s, token) == TRUE

\* The guard and the transaction of restoreMetadata.
RestoreApplies(s, token) ==
  s.epoch = token.metadata.epoch /\ s.active = token.metadata.active

RestoreMetadata(s, token) ==
  LET revisions == {RevisionOf[g] : g \in token.records}
  IN  [token.metadata EXCEPT
         !.epoch = s.epoch + 1, !.cached = s.cached,
         !.generations = {g \in s.generations : RevisionOf[g] \notin revisions}
                           \cup token.records]

DiscardCandidate(s, r) ==
  LET t == [s EXCEPT !.generations = @ \ Record(s, r)]
  IN  IF Revision(s.candidate) = r
        THEN NextEpoch([t EXCEPT !.candidate = None]) ELSE t

\* tombstone up to its metadata write.
Tombstone(s, evicted) ==
  LET named == Without(<<s.active, s.candidate, s.seen>>, {None})
  IN  NextEpoch([s EXCEPT
        !.disabled = TRUE, !.active = None, !.previous = None,
        !.candidate = None, !.evicted = evicted,
        !.tombstone = IF named = <<>> THEN None ELSE Revision(Head(named))])

PurgeCaches(s) == PruneGenerationCaches(s)
PurgeGenerations(s) == [s EXCEPT !.generations = {}]

MayPut(s) == ~ s.disabled

Put(s, d, content) == [s EXCEPT !.cached = @ \cup {<<d, content>>}]

\* getShell and getAsset: the caller's identity names the cache.
Cached(s, d, content) == ~ s.disabled /\ <<d, content>> \in s.cached

\* The publications evict tombstones, least recently used last: recent is the
\* order of lastUsedAt, most recently used first.
Evictable(states, recent, spared) ==
  LET others == Without(recent, {spared} \cup {q \in DOMAIN states : states[q].disabled})
  IN  SubSeq(others, MaxPublications + 1, Len(others))

Touch(recent, p) == <<p>> \o Without(recent, {p})

Inv_Metadata(s) ==
  /\ {s.seen, s.active, s.previous, s.candidate, s.etag} \subseteq Pointers
  /\ s.epoch \in Nat
  /\ s.disabled \in BOOLEAN /\ s.evicted \in BOOLEAN
  /\ s.tombstone \in Revisions \cup {None}
  /\ s.generations \subseteq Descriptors
  /\ s.cached \subseteq Descriptors \X Content
=============================================================================
