# Verification of manja

manja renders API documentation from OpenAPI documents. Compiled documents are
*snapshots*, directories named by the digest of their content. A *mount* (a URL
path) serves one snapshot and remembers the previous one. A server moves mounts
between snapshots while it answers requests, and must come back after a crash
with what it had promised. A *control plane* synchronises contract revisions
from their sources, reviews them and releases them on tracks, over an
operational store kept in files. A *service worker* keeps published
documentation in the reader's browser.

This directory holds TLA+ models of the parts of manja where several goroutines,
processes or events, or a crash, decide what happens, TLC configurations that
check them on small instances, and TLAPS proofs of the results that should hold
for any instance.

## 1. The system's parts

| part | source | modelled by |
|---|---|---|
| catalog runtime: table of mounts, admissions | `application/catalog/runtime.go` | `RouteTables`, `Activation` |
| activation coordinator, recovery, garbage collection | `internal/adapters/catalogstore/{activation,recovery,gc}.go` | `Activation` |
| snapshot store: publish, preflight, quarantine | `internal/adapters/catalogstore/{publish,preflight,store}.go` | `Activation` (whole directories) |
| durable file primitives | `internal/adapters/store/catalog_primitives.go`, `atomic_file_*.go`, `fs.go` | `Activation` (`Settle`, `Loosen`), `FileStore` (`dirs`) |
| renderer server, admission gate, gateway | `renderer/server.go` | `Gateway` |
| cache of decoded snapshot children | `application/catalog/cache.go` | `ByteCache`, `Lists` |
| release tracks | `domain/release.go`, `application/release.go` | `ReleaseTracks`, `ControlCommands` |
| contract review: differences, policy, report | `domain/{contractsnapshot,specdiff,policy,review}.go` | `ContractReview` |
| operational file store: unit of work, migrations, validation | `internal/adapters/store/fs.go` | `OperationalState`, `FileStore`, `AtomicStore`, `ControlPlane` |
| source synchronisation | `application/sync.go` | `ControlCommands`, `FileStore` |
| local docs worker and its browser storage | `internal/web/static/local-docs/{sw,storage}.js` | `LocalDocs`, `LocalStorage`, `Lists` |
| everything else | | section 7 |

How they interact: `renderer.Server.Activate` compiles a catalog, asks the
gateway to stop admitting requests and to drain the admitted ones
(`beginPromotion`), and calls the coordinator with that as its quiesce callback
(`ActivateAdmitted`). The coordinator publishes the snapshot's directory, writes
a journal, writes `state/routes.json`, stores the table in the runtime, and
removes the journal. A request enters the gate, admits the snapshot of its mount
in the runtime and reads the snapshot's children through the byte cache. `Open`
restores the runtime from `routes.json`, quarantines what is corrupt, finishes
or drops the journal, and collects garbage.

`Activation` takes the drained gate as given and `Gateway` takes the
coordinator's operation as one step that publishes a table or fails. Each states
the part of the contract the other uses: `RoutesStableWhileServing` and the lock
order on one side, one operation at a time on the other.

In the control plane, `SyncService` stores a revision's bytes as blobs and its
records in one transaction; a review of two revisions is evaluated from their
snapshots and saved; an authorization binds review, revisions, sync record and
track; `ReleaseService.Coordinate` considers a decision on the track and saves
track, publication, audit event and outbox record in one transaction. All of it
goes through `FileStore.Within`, by any number of processes. The models are
layered the same way: `ReleaseTracks` (tracks as values), `OperationalState` (the
stored state as a value, with every save and validation), `ControlCommands`
(what a service does in one transaction), `FileStore` (processes, lock, files and
faults), `ControlPlane` (the file store implements `AtomicStore`).
`ContractReview` evaluates the reviews that the instance of the control plane
works with.

## 2. Modules and their correspondence with the code

**`RouteTables`**: route tables as values. A table is three functions on mounts,
`active`, `prev` and `tomb`; nothing in the representation keeps a mount from
being both served and withdrawn, as nothing in the two Go maps does. One
operator per transition of `runtime.go`. The table's `Generation` is left out:
it distinguishes runs of `ReplaceRoutes`, which has no caller outside tests.

**`Activation`**: the coordinator and its durable state.

| state | code |
|---|---|
| `table`, `refs` | `runtime.table`, `runtime.refs` |
| `routes`, `journal` | `state/routes.json`, `state/activation-journal.json` |
| `routesOld`, `journalOld` | older versions a power loss may bring back after a rename whose fsync failed |
| `dir`, `loose`, `quarantined` | `snapshots/<id>` (absent, ok, corrupt), its parent not fsynced, `quarantine/<id>` |
| `cut` | history: the loose directories whose `Publish` ended before its fsync |
| `pc`, `job`, `scan` | where the operation that holds `coordinator.commit` stands, its arguments, what it still scans |
| `todo`, `rebuilt`, `repaired` | the loop of `restoreDurableRoutes` |
| `ack` | history: the outcome last reported on each mount and not put in doubt since |

One action per durable effect and per step of the in-process state.
`BeginActivate`, `PublishNew`, `ConfirmNew`, `PublishExisting`, `PublishOverBudget`,
`CheckCandidate`, `WriteJournal`, `WritePointer`, `StoreTable` and
`RemoveJournal` are the steps of `activate`; `Withdraw` and `Reauthorize` share
the last four. `BeginReport` and `QuarantineReported` are `HandleCorruption`.
`Start`, `RestoreMount`, `InstallRestored`, `RollForward`, `RecoverSettled`,
`RecoverNothing` and `DropJournal` are `Open`. `Stop`, `PowerLoss` and `Corrupt`
are the environment: a process may end between any two steps, a power loss also
brings unconfirmed renames into question, and a directory may rot. Every step
that writes may fail; the operation then returns an error and leaves what it has
written (`Abort`).

Abstracted: the content of a directory beyond "passes Preflight"; sizes, so the
storage budget counts directories; the archive of journals, which nothing reads;
creation of the store's own directories; the legacy route entries without a
catalog identity; a power loss that undoes a quarantine rename. `BeginReport`,
like `HandleCorruption`, does not ask whether the reported snapshot is corrupt.
The removal of directories by garbage collection is taken as durable.

**`Gateway`**: `renderer/server.go`. Requests, `Activate`, `Recover` and `Close`
are goroutines with a `pc`; every critical section of a mutex and every
operation on the one-slot channel is an action. A waiting goroutine copies
`gate.changed`, unlocks and blocks; `asleep` holds those whose copy is still the
current channel, so a lost wakeup would be a goroutine left in `asleep`.
`Active` reads `server.runtime` without a lock; it changes nothing and is left
out (see the hazards in `PROJECT.json`).

**`ByteCache`**: `application/catalog/cache.go`. Calls of `Load` and the flights
they start are goroutines; every critical section of `cache.mutex` is an action.
`entries` holds the keys of the entries map and `lru` the list beside it.
A flight that lost its last waiter, or whose snapshot was evicted, leaves the
map but runs on and keeps its reservation, which is where the difficult
interleavings are. `origin` and `overtaken` are history: the flight an entry
came from, and the flights an eviction overtook. Counters that only `Stats`
reports are left out.

**`ReleaseTracks`**: a track's record and the operators of `domain/release.go`:
`ConsiderFails`, `ConsiderChanges` and `Considered` for
`ConsiderReleaseDecision`, `CanPromote` and `Promoted`, `ValidTrack`,
`ValidTransition`, `ValidInitialization`. Generations are bounded as in the code,
by a limit that is refused rather than wrapped. The digest of a review is left
out of a decision: it is a function of the review, which is immutable.

**`ContractReview`**: pure functions. A snapshot is the surface that the code
compares; a finding is a rule and a subject, which is what its stable ID hashes;
lists that the code sorts before it compares or digests them are sets; a digest
is the value it is computed from. An operation that returns an error has a guard
(`Mergeable`, `Reviewable`, `CanonicalProjection`). `ReleasePart` is what the
repository's contract tests make of a report before they save it: no production
code writes a release report yet.

**`OperationalState`**: the content of `operational/state.json` as a record of
sets, one operator per save of `operationalTransaction`, and the validation of a
commit (`Committed`). A refused operation gives `Refused`, and `Then` chains them.
Revisions have evidence levels (`bare`, `blob`, `partial`, `full`) instead of
bytes. `ReleaseTrackAuthorities` is left out as a copy derived from the tracks.

**`ControlCommands`**: one operator per command, with every effect it saves:
sync, failed sync, review, authorization, track initialization, coordination of
a decision, promotion, publication. `Coordinate` evaluates the clock, the skew
and the expiry of applied exceptions. Its three reads before the transaction are
one: what they read is evidence that does not change once it is complete. Promotion has no caller in production and is modelled with the effects the
store's validation demands.

**`FileStore`**: `dirs` is the sequence of contents of `operational/` that a power
loss may leave: a rename appends, an fsync of the directory leaves the last one.
Renames in one directory reach the disk in order, as on a file system with a
metadata journal. A client reads, takes the lock, loads (migrating the flat files
of the first release, version 2 and version 3, and checking the marker), runs
its command, validates, writes the state, and writes the marker. Flat revisions
count as touched under the keys of their files. Blobs are absent, loose (renamed,
not fsynced) or durable; the rename (`Put`) and the fsync (`ConfirmBlob`) are two
steps, and another process may find the blob between them. `Kill`, `PowerLoss` and failing
fsyncs are the faults. A retry is a client that starts the same command again. A
sync is "late" when the service reports an error after its transaction committed.

**`AtomicStore`** is the promise of `port.UnitOfWork`: a state that changes by
whole commands, an error without effect, success that stays, and an unknown
outcome that is one of the two. **`ControlPlane`** states the refinement.

**`LocalStorage`**: what IndexedDB and CacheStorage hold for one publication, as
one record, and every transaction and purge on it. A descriptor stands for a
revision and a digest. `lastUsedAt` is an order without ties.

**`LocalDocs`**: the worker. A step is what runs between two awaits. Handlers are
messages and fetches; the revalidation of a publication is a process of its own,
because callers join the one in flight; `queue` is `enqueuePublication`. `Kill`
ends the worker at any step: `db` stays and everything else is gone. The server
publishes and withdraws, requests fail, and a storage write may be refused
(`Refuse`). An operation may also reject at an await after its write, because the
database or the caches cannot be opened or listed (`Reject`): what it wrote stays.
Merged or abstracted: the two reads of `loadActive`, and `isDisabled` with
`loadMetadata`; the fallback assets as one entry; the `candidateDigest` that
`discardCandidate` leaves and nothing reads; cache operations take effect in the
order they are issued; a revalidate message that waits for a pending
configuration is one delivered later, and one that names no configured
publication is one for the first that is configured. Deletions that fail
silently (prunes and purges resolve on an error, and catch that of a cache) are
left out, and so is the abort of a tombstone's purge, on which nothing settles.

**`ActivationProofs`, `ReviewAndGatewayProofs`, `ByteCacheProofs`,
`OperationalStateProofs`, `ControlCommandsProofs`, `ControlPlaneProofs`,
`WithdrawalProofs`, `LocalDocsProofs`**: theorems (section 5). Those of the
control plane are layered like its models, each extending the one before; those of
local docs share the invariants of **`LocalDocsInvariants`**, and
`LocalDocsProofs` extends `WithdrawalProofs`.
**`MCActivation`, `MCGateway`, `MCByteCache`, `MCControlPlane`,
`MCLocalDocs`**: instances for TLC.

**`Lists`**: lists in order of use, for the cache and the storage.

## 3. Runs

| run | instance | states | shows |
|---|---|---|---|
| `Activation` | 1 mount, 3 snapshots of 2 catalogs, all operations, rot, every fsync failing | 1,550,621 | `NothingServedIsCollected`, `PreviousIsRollback`, types |
| `ActivationMounts` | 2 mounts, 2 shared snapshots, rot | 1,626,758 | `RestartIsAtomic`, `AckedDurable`, `ServedNotWithdrawn`, `OnlyReauthorizeRevives` |
| `Recovery` | 1 mount, 3 snapshots, no rot, fair | 82,322 | `CatalogComesBack` |
| `Gateway` | 2 requests, 2 activations, 1 Recover, 2 Closes, fair | 82,052 | `GateIsExact`, `RoutesStableWhileServing`, `RenderedFromOpenStore`, `ClosedForGood`, `EveryoneReturns`, types |
| `ByteCache` | 3 loads, 2 children, fair | 156,682 | `BudgetsAreExact`, `LoadedOnce`, `EvictedStaysOut`, `JoinedFlightsContinue`, `EveryLoadReturns`, types |
| `ControlPlane` | 2 processes, 3 revisions, 4 reviews, 2 tracks, directories of four releases | 277,784 | `EverySurvivorLoads`, `GenerationsAreRecorded`, `DecisionsInReviewOrder`, `ReleasedIsPublic`, `RetryIsHarmless`, `EvidenceIsImmutable`, `ImplementsAtomicStore`, types |
| `LocalDocs` | 2 events at a time over 3 publications, one revision with 2 projections, fair | 228,344 | `ActiveIsStored`, `WithdrawalWins`, `WithdrawnIsNotServed`, `ReenabledByAnotherRevision`, `EveryEventSettles`, types |

In words, what the two youngest models show:

* *Control plane.* Every directory that a kill or a power loss may leave can be
  loaded, whichever release wrote it, and loads as the state of a whole number
  of commands. A call that succeeded stays; a call that failed had no effect; a
  call with `ErrCommitOutcomeUnknown` did all or nothing, and repeating a
  coordination is harmless at any later time. Decisions on a track are taken in
  the order their reviews were evaluated, each generation has its audit event,
  and what a track released is the only public publication of its path.
* *Local docs.* A withdrawal wins over every commit, activation and rollback it
  races with, unless a storage operation is refused or rejects. Bytes read before
  a withdrawal are not returned after it. The active pointer names a stored
  generation, so the last known good documentation can be loaded after the
  worker ended anywhere, with two exceptions that `ActiveIsStored` states and
  both of which the run contains: the active revision has another projection,
  or an operation has rejected after its write. In both the code loses the
  generation (section 6). Every event settles, unless two activations wait for
  each other (`EvictionDeadlock`).

Five more runs end in a counterexample, each against a sentence or a test of the
repository; `PROJECT.json` quotes them under "findings".

| run | what happens |
|---|---|
| `SecondQuarantine` | a snapshot that was in quarantine, was published again and rots again: the rename into quarantine fails and so does every `Open` |
| `LostBlob` | a sync finds the blob that another has renamed and not fsynced yet, takes it as it is and commits; a power loss removes the blob the record names |
| `FlatEnrichment` | a flat revision that waits for its snapshot is marked under the key of its file and renamed by the binding to its contract; the commit that completes it misses the marked key and is refused, every time |
| `StaleRevalidator` | the worker keeps one revalidator per publication, bound to its first descriptor; a page with a newer revision is told "ready" for the old one |
| `EvictionDeadlock` | two activations, each holding its own publication's queue, evict each other and wait for ever |

### Bounds

* One mount is enough for the atomicity of one transition, since the commit
  mutex admits one at a time; two mounts are there for snapshots shared between
  mounts. Three snapshots give an active one, a previous one and a candidate;
  two catalogs give a candidate that must be refused.
* `MaxOld` bounds how many older versions of a file may come back; a version is
  added per failed fsync. `MaxRefs = 1` is enough to separate "admitted" from
  "not admitted". `MaxStored` is small enough to hit the storage budget and the
  collection that follows, except in `Recovery`, where every snapshot fits.
* `Unconfirmed` selects the fsyncs, outside the journaled steps, that may fail.
  `Activation` has them all. `ActivationMounts` has that of a publication; its
  properties do not survive an unconfirmed write of `HandleCorruption` or of
  recovery, which is a limit of the results: see "unconfirmed writes" in section
  6. Failing fsyncs of journaled steps are always included.
* `Recovery` leaves out rot (a rotten candidate and a second quarantine make
  every `Open` fail), the exported `GarbageCollect`, which ignores a pending
  journal and which only `Open` calls in production, and unconfirmed writes
  outside the journal.
* Two requests and two activations give a waiting and a running one of each; two
  closes give the second `Close` that returns the first one's error. Each
  goroutine makes one call.
* The cache instance has room for two entries but not for the bytes of both
  children, and for two flights but not for the reservation of two heavy ones,
  so that eviction, bypass and waiting for capacity all happen.
* `ControlPlane`: two processes are the reader and the writer of every race
  across the lock. `MaxCalls = 2` calls, `MaxFaults = 2` faults and `MaxTime = 2`
  ticks let a call fail, the clock pass an exception's expiry, and a retry
  follow. So few calls reach the interesting states because the nine first
  directories start in the middle of a history: an empty store, flat files and
  version 2 of older releases without a marker (flat revisions with and without
  an owner, complete or waiting for their snapshot, published or not), version 3 with its marker, and
  stores with reviews and authorizations ready, or with a release made. The second revision adds a required parameter and the
  third removes an operation; the policy excepts required parameters until time
  2 or 9, so that reviews pass, fail and expire. `Loose` holds the files whose
  fsync may fail: all three kinds here, none in `LostBlob`, which needs no failure.
* `LocalDocs`: `MaxPublications = 1` of 3 stands for the code's limit of three,
  so that an activation has something to evict. `MaxGenerations = 2` is the
  code's. Two events at a time, two in all, one end of the worker, one change by
  the server, one refused write and one late rejection. The page's disable
  message lets a withdrawal race with the publication that the one change made.
  Publication `a` has two revisions and two projections of the first; without
  either exception in `ActiveIsStored`, TLC finds its counterexample in 10 and
  13 states. `EvictionDeadlock` needs three events.

### Symmetry and deadlock

`Activation` permutes the snapshots of the second catalog, `ActivationMounts`
all snapshots, the control plane's runs the processes,
`EvictionDeadlock` the handlers; no definition tells these apart. The runs with liveness use no symmetry.

`Gateway`, `ByteCache` and `LocalDocs` switch TLC's own deadlock check off: that
every call or event ends is checked as a property, and a state in which all have
ended is no error. In the control plane's runs the bound on calls ends a
behaviour.

## 4. Fairness

* `Activation!FairSpec`: weak fairness of `Opened` as a whole, a supervisor that
  starts a stopped process and sequential code that runs to its end.
  `CatalogComesBack` exempts behaviours interrupted again and again.
* `Gateway!FairSpec`: weak fairness of each request; strong fairness of the calls
  that wait for the slot or for `server.initialize`, because Go channels queue
  their senders and mutexes hand over to starving waiters. Handlers,
  compilations and `Open` return. Each activator calls once: with promotions
  back to back forever a waiting request could be passed again and again, and
  the code does not promise otherwise.
* `ByteCache!FairSpec`: weak fairness of each call and of each flight; loaders
  and decoders return.
* `LocalDocs!FairSpec`: weak fairness of the steps of each handler and of each
  revalidation: the event loop runs every continuation, and requests and storage
  transactions settle, with an answer or an error. The worker sets no deadline
  of its own on a request: that requests end is the browser's part.

The control plane has no liveness property: a transaction waits for admission
within its process and then polls the lock file, which is not fair between
processes, and the code bounds both waits by the caller's context.

## 5. Proofs

Every theorem is for any value of the constants; what it assumes is at the end of
this section.

### Activation

`ActivationProofs`, for any mounts, snapshots, catalogs, operations and faults.
Each invariant rests on the ones before it.

* `TypeCorrect`: `TypeOK`. Inductive with `JobOK`, which says at which points of
  an operation `job` holds arguments, and of which kind (`Shape`).
* `NeverServedWithdrawn`: `ServedNotWithdrawn`. The invariant `Apart` must cover
  every version of `routes.json` that may come back, and `Checked`: between its
  check and its write an operation still applies to the table it was checked
  against. `RevivedByReauthorize`: the action property `OnlyReauthorizeRevives`,
  from the same invariant.
* `NeverCollected`: `NothingServedIsCollected`, with every fsync failing. A
  candidate is in no table until it is stored, and the table that recovery
  rebuilds is not the running one, so `Held` follows both besides the table.
* `AlwaysRollback`: `PreviousIsRollback`. `Rollback` carries the comparison of the
  candidate with the active snapshot to the write (`Succeeds`), and says the same
  of every route table and journal that may come back.
* `AtomicRestart`: `RestartIsAtomic`, when `Unconfirmed \subseteq {"publish"}`. The
  invariant `Whole` says, by where the coordinator stands, what the two files
  hold (`Standing`); that an older route table misses exactly the journaled
  transition, an older journal changes nothing, and the two are never in doubt
  together (`Recoverable`); and that recovery copies the routes until it repairs
  one (`Copying`).
* `AlwaysAcked`: `AckedDurable`, when `Unconfirmed \subseteq {"publish"}`. `Stored`
  follows a reported outcome through the disk, the running table and the table
  being rebuilt, and says that no journal threatens it and that a directory it
  rests on is loose only after a `Publish` that was cut off.

The hypothesis on `Unconfirmed` is the one under which `ActivationMounts` checks
these properties. Without it the properties fail, in the ways section 6 describes
under "unconfirmed writes".

### Gateway and review

`ReviewAndGatewayProofs` holds the theorems on the two models that nothing else
builds on. For the gateway, for any finite set of requests and any sets of
activators, openers and closers, from the inductive invariant
`Inv == TypeOK /\ Holders /\ Counted /\ Flagged /\ Drained /\ Stored`:

* `Holders`: who holds the slot and `server.initialize` follows from the `pc`s.
* `Counted`, `Flagged`: `gate.readers` and `gate.promoting` are exact. With
  `Holders` they give `GateExact` (`GateIsExact`).
* `Drained`: from the end of the drain until `endPromotion` nobody is in the
  gate. It gives `RoutesStable` (`RoutesStableWhileServing`).
* `Stored`: the store is open while the delegate is installed, and after
  `server.closed` was set only the draining `Close` still has it open. It gives
  `RenderedOpen` (`RenderedFromOpenStore`) and `ClosedStaysClosed`
  (`ClosedForGood`).

About the operators of the review, for every snapshot, policy and time:

* `ServerOnlyTightens`: no rule or exception of a server layer lets through what
  the repository's layer refuses.
* `WaitingNeverHelps`: exceptions only expire. `ReleaseTimeReevaluates`: when
  the exceptions a passing report applied still hold at the time of the release,
  evaluating again at that time passes.
* `BreakingIsIncompatible`: the comparison reports a breaking change exactly when
  the candidate does not keep everything the base promises (`Compatible`, a
  definition that does not mention rules). With the transitivity of `Compatible`
  it gives `PassingReleasesCompose`: when every breaking rule fails and nothing
  is excepted, reviewing each release against the one before is as good as
  against the first.
* `MergedIsCanonical`, `ReleasePartIsAccepted`, `ReviewIsNotAReleaseReport`: what
  the validation of a stored report accepts and what it does not.
* `ReleasedDifferencesAreAllowed`: from a passing report that is accepted and
  whose exceptions hold at release time, to the differences of the two stored
  snapshots: each one that a layer fails has a live exception of that layer.

### Byte cache

`ByteCacheProofs`, for any finite number of calls and children, any limits, and
any evictions, cancellations and failures: `AlwaysLoadedOnce` (`LoadedOnce`),
`AlwaysEvictedStaysOut` (`EvictedStaysOut`), `AlwaysJoined`
(`JoinedFlightsContinue`), `AlwaysBudgets` (`BudgetsAreExact`) and `AlwaysTypes`
(`TypeOK`). The invariant `CInv`: a flight in the map runs, for
its key, which is not cached (`Mapped`); one that an eviction overtook has left
the map for good (`Overtaken`), so an entry comes from a flight that ended
without being overtaken (`Sources`); and `flight.waiters` is the number of calls
that joined and have not left (`Attended`). Without the last one a flight could
be given up while somebody still waits for it. `BInv` is about the budgets: the
list of uses holds every entry exactly once (`Listed`), so dropping from its end
drops entries that are there; `bytes` is the sum of the weights of the entries
(`Weighed`), and `flightBytes` that of the reservations of the running flights
(`Reserved`). It rests on facts about sums over finite sets and about lists
without some of their elements, proved by induction over sets of numbers.

### Control plane

`OperationalStateProofs`. About `domain/release.go`, for every track and decision:
a decision that is considered leaves a valid track (`ConsideredIsValid`), only an
accepted one on a following track changes what is released
(`OnlyAcceptanceReleases`), a promotion releases only the revision of the last,
accepted decision (`PromotedIsValid`), and whatever the store's check of
transitions lets through is such a step (`TransitionsAreSteps`). Then lemmas on
every save and on the validation of a commit. `ControlCommandsProofs` has the
same for every command: a command on a whole state (`Whole`: well typed, sound,
its tracks and references valid) is refused or gives a whole state that keeps the
evidence of the one before; and it does the same to a state that differs only in
the marks of the transaction.

`ControlPlaneProofs`, for any number of processes, commands, first directories and
faults. The loader refuses a state that is older than its marker. `IInv` says that every directory a power loss may leave is
good, its marker no newer than its state (`DirsGood`); that who is inside a
transaction is who holds the lock (`LockRight`); and that between the two writes
of a commit the state has the current version (`WrittenIsCurrent`). Without the
last one the marker could be written beside an older state. `FInv` adds that
every such directory is one of the first ones or holds a whole state
(`DirsKept`), that the blobs of the first directories stay (`BlobsKept`), and what
a client has in hand at its step (`ClientKept`): above all that what it loaded
still is what is stored.

From `FInv`:

* `StoreTypes` (`TypeOK`), `SurvivorsLoad` (`EverySurvivorLoads`), `ReviewOrder`
  (`DecisionsInReviewOrder`), `EveryGenerationIsRecorded`
  (`GenerationsAreRecorded`), `ReleasedAlone` (`ReleasedIsPublic`) and
  `RetriesAreHarmless` (`RetryIsHarmless`): properties of every state a restart
  may find.
* `EvidenceStays` (`EvidenceIsImmutable`), an action property.
* `StoreKeepsPromise` (`ImplementsAtomicStore`): the refinement. The mapping takes
  the last content of `dirs` for the abstract state (`Now`), the contents a power
  loss may leave for the ones that may come back (`May`), and the `pc` and result
  of a client for the stage of its call (`Stage`, `Doing`). The steps of a client
  up to its rename, the migrations and the marker's repair among them, are
  stutters; the rename of the state is the commit. That a migration is a stutter
  rests on the first directories meaning the state they are migrated to.

### Local docs

`WithdrawalProofs` (the lemmas on `QInv` and `KInv`) and `LocalDocsProofs`, for any
publications, descriptors, handlers, changes by the server, ends of the worker,
refused writes and late rejections:

* `WithdrawnStaysUnserved` (`WithdrawnIsNotServed`) and `TombstonesHold`
  (`ReenabledByAnotherRevision`).
  The invariant `Inv`: a stored state that is disabled has no active pointer;
  before a withdrawal writes its tombstone the worker has turned routing off; a
  rollback token holds an enabled state; and what a handler is reading was not
  withdrawn when it looked, or routing has been off since.
* `AlwaysTyped` (`TypeOK`), from `TInv` and `QInv`: a publication's queue holds
  exactly the processes that are engaged with it, once each, and the one whose
  operation runs is at the head.
* `WithdrawalAlwaysWins` (`WithdrawalWins`), from `WInv`. While no operation was
  refused or rejected, a publication the worker has turned off is clean, or a process is on
  its way to write the tombstone and purge, or what is left is a candidate
  that its revalidation is about to discard (`Won`). The last case is the race: a commit
  that waited behind the withdrawal stores its generation after the purge, and
  `discardCandidate` is what removes it.
* `ActiveAlwaysStored` (`ActiveIsStored`), from `AInv`. The property speaks of
  active generations that are the only projection of their revision, and of the
  time before an operation rejects after its write (`Firm`). The invariant adds
  that what a handler is about to commit, activate or discard is not such an
  active generation (`FreshGood`); otherwise discarding a candidate could delete
  it. That an activation keeps at least one generation is the assumption
  `SomeGenerationIsKept`; the code keeps two.

There is one lemma per storage transaction and step.

### Assumptions

The theorems assume the named `ASSUME`s of the modules, and TLC evaluates all of
them:

* `RouteConstants`, `ActivationConstants`, `NoJobAssumption`, `GatewayConstants`,
  `CacheConstants`, `TrackConstants`, `NoDecisionAssumption`, `StateConstants`,
  `StoreConstants` and those of `LocalDocs`: sentinels are not values, kinds of
  processes are disjoint, limits are numbers, requests, calls and children are
  finitely many, each track has a contract, each projection has a revision, and
  the publications stored at first are publications.
* `FirstDirsAssumption`: a directory the store starts from holds what an earlier
  release could have written: a state that means a valid one, that loads, whose
  blobs are there, and whose marker is not ahead of it.
* `CommandsAssumption`: commands have the form that the services give them, and
  the clock and the faults are bounded by numbers.

`ContractReview` assumes nothing.

### Only model-checked

All liveness (`CatalogComesBack`, `EveryoneReturns`, `EveryLoadReturns`,
`EveryEventSettles`), which is out of the prover's reach. Every other property of
the passing runs is the statement of a theorem, `RestartIsAtomic` and
`AckedDurable` under the hypothesis named above.

## 6. Observations

What modelling turned up beside the five findings. Each is what the code does;
the hazards in `PROJECT.json` point at the lines.

Activation:

* *Failed withdrawal.* `Withdraw` that fails after its journal was written
  reports an error, and the next start performs the withdrawal.
* *Rotten candidate.* When the candidate of an unfinished activation rots, every
  `Open` fails although the active snapshot is healthy.
* *Unconfirmed writes.* When the fsync after publishing a snapshot fails, the
  retry finds the directory and skips it; the acknowledged activation can be
  lost with the power (the pattern of `LostBlob`). After a kill between rename
  and fsync the collection of the next `Open` removes the directory, unless a
  route names it. `AckedDurable` gives up such an outcome when the power loss
  takes its directory (`cut`), and only then. When `HandleCorruption` gets
  an unknown outcome, the runtime keeps the old table while the disk has the new
  one. When a write during recovery is unconfirmed, `Open` fails, the next `Open`
  serves from the new file, and a power loss may still bring the older one back.

Control plane:

* After a rejected decision another publication may take the track's path;
  `ReleasedIsPublic` speaks of tracks whose last decision was accepted.
* A revision of an older release with digests but without a review snapshot,
  stored under a branch ref, cannot be completed by a later `Sync`.
* The failure record of a sync has the identity of its attempt: when another
  process recorded a success in between, the two conflict and the failure is
  not recorded (`sync.go:162`).

Review:

* A policy that fails `request.parameter.required_added` and allows
  `became_required` lets through in two releases (add as optional, then require)
  what one comparison refuses. `PassingReleasesCompose` asks for every breaking
  rule at `fail` for this reason.
* Exceptions that match a finding which only warns count as applied, so the check
  at release time can refuse what evaluating again would pass.
* No production code writes a release report: reports of `EvaluateReview` start
  with the pull request's comparison, and the store accepts only reports of the
  release comparison alone.

Local docs:

* `evict` keeps `MAX_PUBLICATIONS` besides the one just activated, four in all;
  `docs/superpowers/specs/2026-07-27-hybrid-wasm-public-docs-design.md` says three
  (:303, :559), as does the memory storage used by the tests.
* An evicted publication is tombstoned like a withdrawn one and stays refused
  until it has a new revision.
* A second tombstone finds no pointers and names the revision last observed;
  the revision withdrawn first is no longer the one named.
* The stored ETag survives a tombstone.
* A generation record is keyed by publication and revision (storage.js:476), and
  a recompilation of one revision with other versions or bounds has another
  digest (compiler.go:207). The commit of the second projection overwrites the
  record of the active one: until it is activated the active pointer names
  nothing that loads, and when it is discarded the record is gone.
* The rollback token's metadata is the object that `activate` goes on to modify,
  so a rollback restores the activated state; the memory storage clones it.
* When `activate` rejects after its metadata write, because the database cannot
  be opened or the caches or the metadata cannot be listed (storage.js:547, 553,
  570), it returns no token, and `commitCandidate` (sw.js:503) discards the
  generation it has just made active. The stored ETag is the one of the lost
  generation, so the next revalidation is answered 304, reports "ready" and does
  not fetch it again.
* The end of the worker between a tombstone and its purge leaves the bytes in the
  caches until the next prune; they are not served.
* With `StaleRevalidator`, the old snapshot may be gone from the server; its
  manifest then answers 404, and the worker disables the publication. Making the
  revalidator per configuration is enough for one event at a time; joining one
  in flight for another descriptor still violates `ReadyIsExact`.

## 7. Not modelled

`PROJECT.json` lists every part with its status. The map covers about 7% of the
implementation's lines: most of the repository is parsing, compiling and markup,
whose control is a pass over its input.

* *Inside the modelled parts*: `Runtime.ReplaceRoutes`, which nothing in
  production calls; the archive of journals; the directory lock and the Windows
  variants of the file primitives; JSON, key hashing and byte limits of the
  operational store; the canonicalization of names and the order of lists in the
  review; fetching and parsing of sources; the memory storage of the local docs,
  which only tests use, `recreateFromPointer`, which the worker never calls, the
  navigation cache of static exports, and deletions that fail silently.
* *HTML artifact store*: a page and a sidecar with its digest, under one lock,
  verified on every read. Two files and an interruption between them are
  modelled for the operational store.
* *Schema cache of the exporter, memory cache*: a mutex around a map or an
  external LRU; the interesting case, a byte budget with loads in flight, is
  `ByteCache`.
* *Compiler, projection builder, codecs, OpenAPI, Markdown, configuration and
  review adapters, templates*: pure functions from bytes to bytes without state;
  their results enter the models as content that is identified by its digest, or
  as an error. A model would be a transliteration.
* *Search runs*: orders of strings and scores, not wired into the server yet.
* *The page's local-docs script and the Wasm renderer*: the page posts the
  messages that are the events of `LocalDocs`; the renderer is a pure function.
* *Self-hosted server, static export, distribution, build commands, request
  composer, site, contract tests*: composition, one-shot builds, user interface
  and tests, without shared or durable state of their own.
