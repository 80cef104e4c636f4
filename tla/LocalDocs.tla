------------------------------ MODULE LocalDocs ------------------------------
(***************************************************************************)
(* The local docs service worker (sw.js) on top of its browser storage.    *)
(*                                                                         *)
(* The worker is one JavaScript thread: a step of the model is what runs    *)
(* between two awaits.  A handler is one event (a message or a fetch); the  *)
(* revalidation of a publication is a process of its own, named by the      *)
(* publication, because every caller joins the one in flight.  A storage    *)
(* operation waits in its publication's queue (enqueuePublication), holds   *)
(* its head while it runs, and keeps it over its own awaits.                *)
(*                                                                         *)
(* The browser may stop the worker at any step (Kill): what is in IndexedDB *)
(* and in the caches stays, everything else is gone.  The server publishes  *)
(* and withdraws in between, and every request may fail.                    *)
(***************************************************************************)
EXTENDS LocalStorage

CONSTANTS
  Publications,
  Handlers,
  DescriptorsOf,  \* [Publications -> SUBSET Descriptors]
  First,          \* [Publications -> Descriptors]: published at the beginning
  Stored,         \* publications an earlier worker has stored, most recent first
  Visited,        \* publications the reader has pages of
  Changing,       \* publications the server changes
  Kinds,          \* the events that occur
  MaxEvents, MaxKills, MaxReleases, MaxFaults, MaxRejections
    \* bounds on events, kills, server changes, refused writes and operations
    \* that reject after their write

ASSUME FirstIsOffered ==
  \A p \in Publications : DescriptorsOf[p] \subseteq Descriptors /\ First[p] \in DescriptorsOf[p]
ASSUME VisitedAreOffered == Visited \cup Changing \subseteq Publications
ASSUME NamesAreDistinct ==
  None \notin Publications \cup Descriptors /\ Handlers \cap Publications = {}
ASSUME StoredAreOffered == Stored \in Seq(Publications)
ASSUME RevisionsAreKnown == \A d \in Descriptors : RevisionOf[d] \in Revisions
ASSUME BoundsAreNat ==
  {MaxEvents, MaxKills, MaxReleases, MaxFaults, MaxRejections, MaxGenerations,
   MaxPublications} \subseteq Nat
ASSUME SomeGenerationIsKept == MaxGenerations > 0

VARIABLES
  db,           \* [Publications -> stored state]
  recent,       \* publications by lastUsedAt, most recently used first
  disabled,     \* the worker's `disabled` set
  descriptors,  \* the worker's `descriptors` map
  revalidators, \* the descriptor each cached revalidator closed over
  proc,         \* the processes: handlers and revalidations
  queue,        \* [Publications -> processes waiting for the storage]
  server,       \* [Publications -> what the server serves]
  budget        \* what is left of the bounds

volatile == <<disabled, descriptors, revalidators, proc, queue>>
stored == <<db, recent>>
vars == <<stored, volatile, server, budget>>

Procs == Handlers \cup Publications

(***************************************************************************)
(* A process: where it is, for which publication and descriptor, and what   *)
(* it remembers over its awaits: the flags of configure (ok: the assets are *)
(* cached; reenable), the ETag a revalidation sends, the content a fetch    *)
(* asks for, the rollback token, the publications an eviction has yet to    *)
(* tombstone, and for a tombstone its publication and where it returns to.  *)
(***************************************************************************)
Idle == [at |-> "idle", p |-> None, d |-> None, ok |-> FALSE,
         reenable |-> FALSE, etag |-> None, content |-> None, token |-> None,
         victims |-> <<>>, on |-> None, back |-> None]

At(x, label) == proc[x].at = label
Running(x) == proc[x].at # "idle"

\* The store is x's: x is at the head of q's queue.
Holds(x, q) == queue[q] # <<>> /\ Head(queue[q]) = x

Off(x) == proc[x].p \in disabled

Goto(x, label) ==
  proc' = [proc EXCEPT ![x] = IF label = "idle" THEN Idle ELSE [@ EXCEPT !.at = label]]
Done(x) == Goto(x, "idle")

\* Awaiting a storage operation: x joins its publication's queue.
Call(x, label) ==
  /\ Goto(x, label)
  /\ queue' = [queue EXCEPT ![proc[x].p] = Append(@, x)]

\* The end of a storage operation, and the end with the next one called.
Release(x) == queue' = [queue EXCEPT ![proc[x].p] = Tail(@)]
CallNext(x, label) ==
  /\ Goto(x, label)
  /\ queue' = [queue EXCEPT ![proc[x].p] = Append(Tail(@), x)]

Write(p, s) == db' = [db EXCEPT ![p] = s]
Used(p) == recent' = Touch(recent, p)

(***************************************************************************)
(* The server: which descriptor it publishes, which one it still serves as  *)
(* the previous snapshot, and which ones pages have been rendered with.     *)
(***************************************************************************)
Published(p) == server[p].current # None
Serves(p, d) == d \in {server[p].current, server[p].previous}

Publish(p, d) ==
  /\ budget.releases > 0 /\ d # server[p].current
  /\ server' = [server EXCEPT ![p] = [current |-> d, previous |-> @.current,
                                      shown |-> @.shown \cup {d}]]
  /\ budget' = [budget EXCEPT !.releases = @ - 1]
  /\ UNCHANGED <<stored, volatile>>

Withdraw(p) ==
  /\ budget.releases > 0 /\ Published(p)
  /\ server' = [server EXCEPT ![p].current = None, ![p].previous = None]
  /\ budget' = [budget EXCEPT !.releases = @ - 1]
  /\ UNCHANGED <<stored, volatile>>

(***************************************************************************)
(* Init: nothing is running; some publications were stored by an earlier    *)
(* worker.                                                                  *)
(***************************************************************************)
StoredAs(d) ==
  [EmptyMetadata EXCEPT !.seen = d, !.active = d, !.etag = d, !.epoch = 2,
                        !.generations = {d}, !.cached = {<<d, "shell">>}]

\* What a worker starts with.
NoDescriptors == [p \in Publications |-> None]
AllIdle == [x \in Procs |-> Idle]
NoQueues == [p \in Publications |-> <<>>]

Init ==
  /\ recent = Stored
  /\ db = [p \in Publications |-> IF \E i \in DOMAIN Stored : Stored[i] = p
                            THEN StoredAs(First[p]) ELSE EmptyMetadata]
  /\ server = [p \in Publications |-> [current |-> First[p], previous |-> None,
                                       shown |-> {First[p]}]]
  /\ budget = [events |-> MaxEvents, kills |-> MaxKills, releases |-> MaxReleases,
               faults |-> MaxFaults, rejections |-> MaxRejections]
  /\ disabled = {} /\ descriptors = NoDescriptors /\ revalidators = NoDescriptors
  /\ proc = AllIdle /\ queue = NoQueues

\* The browser stops the worker; the next event starts a new one.
Kill ==
  /\ budget.kills > 0
  /\ budget' = [budget EXCEPT !.kills = @ - 1]
  /\ disabled' = {} /\ descriptors' = NoDescriptors /\ revalidators' = NoDescriptors
  /\ proc' = AllIdle /\ queue' = NoQueues
  /\ UNCHANGED <<stored, server>>

Event(kind, h) ==
  /\ kind \in Kinds /\ At(h, "idle") /\ budget.events > 0
  /\ budget' = [budget EXCEPT !.events = @ - 1]

(***************************************************************************)
(* disablePublication: routing is disabled before the tombstone is queued.  *)
(* A tombstone holds its publication's queue over the metadata write, the   *)
(* purge of the caches and the purge of the generations.                    *)
(***************************************************************************)
AwaitTombstone(x, q, back) ==
  /\ proc' = [proc EXCEPT ![x].at = "tombstone", ![x].on = q, ![x].back = back]
  /\ queue' = [queue EXCEPT ![q] = Append(@, x)]

DisablePublication(x, back) ==
  /\ disabled' = disabled \cup {proc[x].p}
  /\ AwaitTombstone(x, proc[x].p, back)

WriteTombstone(x) ==
  LET q == proc[x].on
  IN  /\ At(x, "tombstone") /\ Holds(x, q)
      /\ Write(q, Tombstone(db[q], proc[x].back = "evicting"))
      /\ Goto(x, "purgeCaches")
      /\ UNCHANGED <<recent, disabled, descriptors, revalidators, queue, server, budget>>

PurgeTombstonedCaches(x) ==
  /\ At(x, "purgeCaches")
  /\ Write(proc[x].on, PurgeCaches(db[proc[x].on]))
  /\ Goto(x, "purgeGenerations")
  /\ UNCHANGED <<recent, disabled, descriptors, revalidators, queue, server, budget>>

PurgeTombstonedGenerations(x) ==
  LET q == proc[x].on
  IN  /\ At(x, "purgeGenerations")
      /\ Write(q, PurgeGenerations(db[q]))
      /\ proc' = [proc EXCEPT ![x] = IF @.back = "idle" THEN Idle
                                     ELSE [@ EXCEPT !.at = proc[x].back, !.on = None,
                                                    !.back = None]]
      /\ queue' = [queue EXCEPT ![q] = Tail(@)]
      /\ UNCHANGED <<recent, disabled, descriptors, revalidators, server, budget>>

(***************************************************************************)
(* revalidateDescriptor: the publication's revalidator is created once, for *)
(* the descriptor of that call, and every later call runs or joins it.      *)
(***************************************************************************)
Bound(p, d) == IF revalidators[p] = None THEN d ELSE revalidators[p]

RevalidateDescriptor(h, p, d, label) ==
  LET bound == Bound(p, d)
  IN  /\ revalidators' = [revalidators EXCEPT ![p] = bound]
      /\ proc' = [proc EXCEPT
                    ![h] = [@ EXCEPT !.at = label, !.p = p, !.d = d],
                    ![p] = IF @.at # "idle" THEN @
                           ELSE [Idle EXCEPT !.at = "load", !.p = p, !.d = bound]]

(***************************************************************************)
(* The configure message: configure(), and what its handler does after it.  *)
(***************************************************************************)
ConfigureMessage(h, p, d) ==
  /\ Event("configure", h) /\ d \in server[p].shown /\ p \notin disabled
  /\ proc' = [proc EXCEPT ![h] = [Idle EXCEPT !.at = "admit", !.p = p, !.d = d]]
  /\ UNCHANGED <<stored, disabled, descriptors, revalidators, queue, server>>

\* isDisabled and loadMetadata.
Admit(h) ==
  /\ At(h, "admit")
  /\ IF Off(h) \/ Tombstoned(db[proc[h].p], RevisionOf[proc[h].d])
       THEN Done(h) /\ UNCHANGED queue
       ELSE Call(h, "observe")
  /\ UNCHANGED <<stored, disabled, descriptors, revalidators, server, budget>>

ObserveDescriptor(h) ==
  LET p == proc[h].p
  IN  /\ At(h, "observe") /\ Holds(h, p)
      /\ Write(p, Observe(db[p], proc[h].d, None)) /\ Used(p)
      /\ Release(h)
      /\ IF Off(h) THEN Done(h) /\ UNCHANGED descriptors
         ELSE /\ descriptors' = [descriptors EXCEPT ![p] = proc[h].d]
              /\ Goto(h, "configured")
      /\ UNCHANGED <<disabled, revalidators, server, budget>>

\* A disabled publication is revalidated before anything is cached.
Configured(h) ==
  LET p == proc[h].p
  IN  /\ At(h, "configured")
      /\ CASE Off(h) -> Done(h) /\ UNCHANGED revalidators
           [] ~ Off(h) /\ db[p].disabled ->
                RevalidateDescriptor(h, p, proc[h].d, "rejoin")
           [] OTHER -> Goto(h, "assets") /\ UNCHANGED revalidators
      /\ UNCHANGED <<stored, disabled, descriptors, queue, server, budget>>

\* The runtime assets and the descriptor's fallback assets; the cache is
\* written outside the queue.
CacheAssets(h) ==
  LET p == proc[h].p
  IN  /\ At(h, "assets")
      /\ \E ok \in BOOLEAN :
           IF Off(h) THEN Done(h) /\ UNCHANGED db
           ELSE /\ proc' = [proc EXCEPT ![h].at = "shell", ![h].ok = ok]
                /\ IF ok THEN Write(p, Put(db[p], proc[h].d, "fallback"))
                         ELSE UNCHANGED db
      /\ UNCHANGED <<recent, disabled, descriptors, revalidators, queue, server, budget>>

\* cacheOfflineShell: the answer to the shell request.
ShellAnswer(h) ==
  /\ At(h, "shell")
  /\ \/ /\ Goto(h, "persisted") /\ UNCHANGED <<disabled, queue>>
     \/ /\ ~ Published(proc[h].p)
        /\ DisablePublication(h, "persisted")
     \/ /\ Published(proc[h].p) /\ UNCHANGED disabled
        /\ IF Off(h) THEN Goto(h, "persisted") /\ UNCHANGED queue
                     ELSE Call(h, "putShell")
  /\ UNCHANGED <<stored, descriptors, revalidators, server, budget>>

\* What follows a cached shell: the revalidation, unless it came first.
ShellReady(h) ==
  IF Off(h) \/ ~ proc[h].ok \/ proc[h].reenable
    THEN Done(h) /\ UNCHANGED revalidators
    ELSE RevalidateDescriptor(h, proc[h].p, proc[h].d, "join")

PutShell(h) ==
  LET p == proc[h].p
  IN  /\ At(h, "putShell") /\ Holds(h, p)
      /\ Release(h)
      /\ IF MayPut(db[p])
           THEN Write(p, Put(db[p], proc[h].d, "shell")) /\ ShellReady(h)
           ELSE Goto(h, "persisted") /\ UNCHANGED <<db, revalidators>>
      /\ UNCHANGED <<recent, disabled, descriptors, server, budget>>

\* getShell after the request failed.
PersistedShell(h) ==
  /\ At(h, "persisted")
  /\ IF Cached(db[proc[h].p], proc[h].d, "shell") THEN ShellReady(h)
       ELSE Done(h) /\ UNCHANGED revalidators
  /\ UNCHANGED <<stored, disabled, descriptors, queue, server, budget>>

(***************************************************************************)
(* The other messages.                                                      *)
(***************************************************************************)

\* p is the publication the message names or, when that one is not configured,
\* the first one that is.
RevalidateMessage(h, p) ==
  /\ Event("revalidate", h) /\ descriptors[p] # None /\ p \notin disabled
  /\ RevalidateDescriptor(h, p, descriptors[p], "join")
  /\ UNCHANGED <<stored, disabled, descriptors, queue, server>>

DisableMessage(h, p) ==
  /\ Event("disable", h) /\ descriptors[p] # None
  /\ disabled' = disabled \cup {p}
  /\ proc' = [proc EXCEPT ![h] = [Idle EXCEPT !.at = "tombstone", !.p = p,
                                              !.on = p, !.back = "idle"]]
  /\ queue' = [queue EXCEPT ![p] = Append(@, h)]
  /\ UNCHANGED <<stored, descriptors, revalidators, server>>

(***************************************************************************)
(* revalidate and commitCandidate: the process of publication p.  It ends   *)
(* as ready, fallback, refused (disabled) or failed (thrown).               *)
(***************************************************************************)
Ends == {"ready", "fallback", "refused", "failed"}

Load(p) ==
  /\ At(p, "load")
  /\ CASE p \in disabled -> Goto(p, "failed")
       [] p \notin disabled /\ Tombstoned(db[p], RevisionOf[proc[p].d]) ->
            Goto(p, "refused")
       [] OTHER -> proc' = [proc EXCEPT ![p].at = "manifest", ![p].etag = db[p].etag]
  /\ UNCHANGED <<stored, disabled, descriptors, revalidators, queue, server, budget>>

\* The answer to the manifest request: none or an error, withdrawn, not
\* modified, a manifest, or one that does not validate.
ManifestAnswer(p) ==
  LET d == proc[p].d
  IN  /\ At(p, "manifest")
      /\ \/ /\ Goto(p, IF p \in disabled THEN "failed" ELSE "recover")
            /\ UNCHANGED <<disabled, queue>>
         \/ /\ ~ Serves(p, d)
            /\ DisablePublication(p, "refused")
         \/ /\ Serves(p, d) /\ UNCHANGED disabled
            /\ IF p \notin disabled /\ proc[p].etag = d THEN Call(p, "refresh")
               ELSE /\ Goto(p, IF p \in disabled THEN "failed" ELSE "compare")
                    /\ UNCHANGED queue
         \/ /\ Serves(p, d) /\ proc[p].etag # d
            /\ Goto(p, IF p \in disabled THEN "failed" ELSE "fallback")
            /\ UNCHANGED <<disabled, queue>>
      /\ UNCHANGED <<stored, descriptors, revalidators, server, budget>>

\* recoverPersistedManifest.
Recover(p) ==
  /\ At(p, "recover")
  /\ IF p \notin disabled /\ proc[p].d \in LoadActive(db[p]) \cup LoadPrevious(db[p])
       THEN Call(p, "refresh")
       ELSE /\ Goto(p, IF p \in disabled THEN "failed" ELSE "fallback")
            /\ UNCHANGED queue
  /\ UNCHANGED <<stored, disabled, descriptors, revalidators, server, budget>>

Refresh(p) ==
  /\ At(p, "refresh") /\ Holds(p, p)
  /\ Write(p, Observe(db[p], None, proc[p].d)) /\ Used(p)
  /\ Release(p)
  /\ Goto(p, IF p \in disabled THEN "failed" ELSE "ready")
  /\ UNCHANGED <<disabled, descriptors, revalidators, server, budget>>

\* loadActive: an unchanged manifest is only observed.
Compare(p) ==
  /\ At(p, "compare")
  /\ IF p \in disabled THEN Goto(p, "failed") /\ UNCHANGED queue
       ELSE Call(p, IF proc[p].d \in LoadActive(db[p]) THEN "refresh" ELSE "commit")
  /\ UNCHANGED <<stored, disabled, descriptors, revalidators, server, budget>>

Commit(p) ==
  LET d == proc[p].d
  IN  /\ At(p, "commit") /\ Holds(p, p)
      /\ IF MayCommit(db[p], d)
           THEN /\ Write(p, CommitGeneration(db[p], d)) /\ Used(p)
                /\ CallNext(p, IF p \in disabled THEN "discard" ELSE "activate")
           ELSE CallNext(p, "discard") /\ UNCHANGED stored
      /\ UNCHANGED <<disabled, descriptors, revalidators, server, budget>>

ActivateCandidate(p) ==
  LET r == RevisionOf[proc[p].d]
      activated == Activate(db[p], r)
  IN  /\ At(p, "activate") /\ Holds(p, p)
      /\ IF MayActivate(db[p], r)
           THEN /\ Write(p, activated) /\ Used(p)
                /\ proc' = [proc EXCEPT ![p].at = "pruneGenerations",
                                        ![p].token = Token(db[p], activated)]
                /\ UNCHANGED queue
           ELSE CallNext(p, "discard") /\ UNCHANGED stored
      /\ UNCHANGED <<disabled, descriptors, revalidators, server, budget>>

PruneAfterActivation(p) ==
  /\ \/ /\ At(p, "pruneGenerations")
        /\ Write(p, PruneGenerations(db[p])) /\ Goto(p, "pruneCaches")
     \/ /\ At(p, "pruneCaches")
        /\ Write(p, PruneGenerationCaches(db[p])) /\ Goto(p, "evict")
  /\ UNCHANGED <<recent, disabled, descriptors, revalidators, queue, server, budget>>

\* evict lists the metadata once and tombstones what is over the limit, one
\* publication after the other, while p's queue is held.
Evict(p) ==
  /\ At(p, "evict")
  /\ proc' = [proc EXCEPT ![p].at = "evicting",
                          ![p].victims = Evictable(db, recent, p)]
  /\ UNCHANGED <<stored, disabled, descriptors, revalidators, queue, server, budget>>

EvictNext(p) ==
  LET victims == proc[p].victims
  IN  /\ At(p, "evicting") /\ victims # <<>>
      /\ proc' = [proc EXCEPT ![p].at = "tombstone", ![p].back = "evicting",
                              ![p].on = Head(victims), ![p].victims = Tail(victims)]
      /\ queue' = [queue EXCEPT ![Head(victims)] = Append(@, p)]
      /\ UNCHANGED <<stored, disabled, descriptors, revalidators, server, budget>>

\* activate returns its token; commitCandidate rolls back if routing was disabled.
Activated(p) ==
  /\ At(p, "evicting") /\ proc[p].victims = <<>>
  /\ IF p \in disabled THEN CallNext(p, "restore")
                       ELSE Release(p) /\ Goto(p, "ready")
  /\ UNCHANGED <<stored, disabled, descriptors, revalidators, server, budget>>

Restore(p) ==
  /\ At(p, "restore") /\ Holds(p, p)
  /\ IF RestoreApplies(db[p], proc[p].token)
       THEN /\ Write(p, RestoreMetadata(db[p], proc[p].token))
            /\ Goto(p, "restoredCaches") /\ UNCHANGED queue
       ELSE Release(p) /\ Goto(p, "failed") /\ UNCHANGED db
  /\ UNCHANGED <<recent, disabled, descriptors, revalidators, server, budget>>

PruneAfterRestore(p) ==
  /\ \/ /\ At(p, "restoredCaches")
        /\ Write(p, PruneGenerationCaches(db[p])) /\ Goto(p, "restored")
        /\ UNCHANGED queue
     \/ /\ At(p, "restored")
        /\ Write(p, PruneGenerations(db[p])) /\ Release(p) /\ Goto(p, "failed")
  /\ UNCHANGED <<recent, disabled, descriptors, revalidators, server, budget>>

\* Mutant: the queue is not released.
DiscardKeepsQueue(p) ==
  /\ At(p, "discard") /\ Holds(p, p)
  /\ Write(p, DiscardCandidate(db[p], RevisionOf[proc[p].d])) /\ Goto(p, "failed")
  /\ UNCHANGED <<recent, disabled, descriptors, revalidators, queue, server, budget>>

Discard(p) ==
  /\ At(p, "discard") /\ Holds(p, p)
  /\ Write(p, DiscardCandidate(db[p], RevisionOf[proc[p].d]))
  /\ Release(p) /\ Goto(p, "failed")
  /\ UNCHANGED <<recent, disabled, descriptors, revalidators, server, budget>>

\* Mutant: nobody hears of a revalidation that failed.
SettledReadyOnly(x, p) ==
  IF x = p \/ (At(p, "ready") /\ proc[x].p = p /\ proc[x].at = "join") THEN Idle
  ELSE IF At(p, "ready") /\ proc[x].p = p /\ proc[x].at = "rejoin"
    THEN [proc[x] EXCEPT !.at = "assets", !.reenable = TRUE]
  ELSE proc[x]

\* The revalidation settles: everyone who joined it continues, a re-enabling
\* configuration only when it is ready.
Settled(x, p) ==
  IF x = p \/ (proc[x].p = p /\ proc[x].at = "join") THEN Idle
  ELSE IF proc[x].p = p /\ proc[x].at = "rejoin"
    THEN IF At(p, "ready") THEN [proc[x] EXCEPT !.at = "assets", !.reenable = TRUE]
                           ELSE Idle
  ELSE proc[x]

Settle(p) ==
  /\ proc[p].at \in Ends
  /\ proc' = [x \in Procs |-> Settled(x, p)]
  /\ UNCHANGED <<stored, disabled, descriptors, revalidators, queue, server, budget>>

(***************************************************************************)
(* A fetch of a document, of the offline shell or of a manifest.  The       *)
(* descriptor is the configured one or the one in the metadata.             *)
(***************************************************************************)
Restored(p) ==
  IF db[p].disabled \/ p \in disabled THEN None ELSE db[p].seen

FetchEvent(h, p, content) ==
  LET d == IF descriptors[p] = None THEN Restored(p) ELSE descriptors[p]
  IN  /\ Event("fetch", h) /\ d # None
      /\ descriptors' = [descriptors EXCEPT ![p] = d]
      /\ proc' = [proc EXCEPT ![h] =
           [Idle EXCEPT !.at = IF p \in disabled THEN "direct" ELSE "network",
                        !.p = p, !.d = d, !.content = content]]
      /\ UNCHANGED <<stored, disabled, revalidators, queue, server>>

\* The answer may say that the publication is withdrawn; that of a document
\* says so only with its header.
Gone(h) ==
  IF proc[h].content = "asset" THEN ~ Serves(proc[h].p, proc[h].d)
                               ELSE ~ Published(proc[h].p)

\* fetchedWhileDisabled: a withdrawal is recorded again.
DirectAnswer(h) ==
  /\ At(h, "direct")
  /\ \/ Gone(h) /\ DisablePublication(h, "idle")
     \/ Done(h) /\ UNCHANGED <<disabled, queue>>
  /\ UNCHANGED <<stored, descriptors, revalidators, server, budget>>

\* cachedOrFetched: the network first.
NetworkAnswer(h) ==
  /\ At(h, "network")
  /\ \/ Gone(h) /\ DisablePublication(h, "idle")
     \/ /\ ~ Gone(h) \/ proc[h].content = "document"
        /\ UNCHANGED disabled
        /\ IF Off(h) \/ proc[h].content = "document"
             THEN Done(h) /\ UNCHANGED queue
             ELSE Call(h, "put")
     \/ /\ Goto(h, IF Off(h) THEN "idle" ELSE "fallback")
        /\ UNCHANGED <<disabled, queue>>
  /\ UNCHANGED <<stored, descriptors, revalidators, server, budget>>

\* putShell or putAsset; only a shell that is not stored is an error.
PutFetched(h) ==
  LET p == proc[h].p
  IN  /\ At(h, "put") /\ Holds(h, p)
      /\ Release(h)
      /\ IF MayPut(db[p])
           THEN Write(p, Put(db[p], proc[h].d, proc[h].content)) /\ Done(h)
           ELSE /\ UNCHANGED db
                /\ Goto(h, IF proc[h].content = "shell" /\ ~ Off(h)
                             THEN "fallback" ELSE "idle")
      /\ UNCHANGED <<recent, disabled, descriptors, revalidators, server, budget>>

\* isDisabled, then the persisted manifest or the cached content.
Fallback(h) ==
  /\ At(h, "fallback")
  /\ Goto(h, IF db[proc[h].p].disabled THEN "idle" ELSE "read")
  /\ UNCHANGED <<stored, disabled, descriptors, revalidators, queue, server, budget>>

Readable(h) ==
  LET s == db[proc[h].p]
      d == proc[h].d
  IN  IF proc[h].content = "asset"
        THEN d \in LoadActive(s) \cup LoadPrevious(s) \/ Cached(s, d, "asset")
        ELSE Cached(s, d, "shell")

Read(h) ==
  /\ At(h, "read")
  /\ Goto(h, IF Readable(h) /\ ~ Off(h) THEN "serve" ELSE "idle")
  /\ UNCHANGED <<stored, disabled, descriptors, revalidators, queue, server, budget>>

\* Mutant: returning what was read without looking again.
MayServeRead(h) == TRUE

\* The content read is validated, routing checked once more, and the content
\* returned.
MayServe(h) == ~ Off(h)

Serve(h) ==
  /\ At(h, "serve")
  /\ Goto(h, IF MayServe(h) THEN "served" ELSE "idle")
  /\ UNCHANGED <<stored, disabled, descriptors, revalidators, queue, server, budget>>

Respond(h) ==
  /\ At(h, "served") /\ Done(h)
  /\ UNCHANGED <<stored, disabled, descriptors, revalidators, queue, server, budget>>

(***************************************************************************)
(* The browser refuses a write: the operation rejects and leaves what is    *)
(* stored alone.  A refresh that is refused fails or, after a recovery,     *)
(* falls back, which settles alike.                                         *)
(***************************************************************************)
AfterTombstone(x) == IF proc[x].back = "refused" THEN "failed" ELSE proc[x].back

AfterRefusal(x) ==
  CASE proc[x].at = "observe" -> "idle"
    [] proc[x].at \in {"commit", "activate"} -> "discard"
    [] proc[x].at \in {"refresh", "discard", "restore"} -> "failed"
    [] proc[x].at = "putShell" -> "persisted"
    [] proc[x].at = "put" ->
         IF proc[x].content = "shell" /\ ~ Off(x) THEN "fallback" ELSE "idle"
    [] proc[x].at = "tombstone" -> AfterTombstone(x)

\* x leaves the queue of q with a rejection.
LeaveWith(x, q, label) ==
  /\ Holds(x, q)
  /\ Goto(x, label)
  /\ queue' = [queue EXCEPT ![q] = IF label = "discard" THEN Append(Tail(@), x) ELSE Tail(@)]

Refuse(x) ==
  /\ budget.faults > 0
  /\ proc[x].at \in {"observe", "commit", "activate", "refresh", "discard",
                     "restore", "putShell", "put", "tombstone"}
  /\ LeaveWith(x, IF At(x, "tombstone") THEN proc[x].on ELSE proc[x].p, AfterRefusal(x))
  /\ budget' = [budget EXCEPT !.faults = @ - 1]
  /\ UNCHANGED <<stored, disabled, descriptors, revalidators, server>>

(***************************************************************************)
(* An operation rejects at an await after its metadata write, when the      *)
(* database or the caches cannot be opened or listed: what it has written   *)
(* stays.  An activate that rejects returns no token, so that the candidate *)
(* it has just made active is discarded.                                    *)
(***************************************************************************)
AfterRejection(x) ==
  CASE proc[x].at \in {"pruneGenerations", "pruneCaches", "evict"} -> "discard"
    [] proc[x].at \in {"restoredCaches", "restored"} -> "failed"
    [] proc[x].at \in {"purgeCaches", "purgeGenerations"} -> AfterTombstone(x)

Reject(x) ==
  /\ budget.rejections > 0
  /\ proc[x].at \in {"pruneGenerations", "pruneCaches", "evict", "restoredCaches", "restored",
                     "purgeCaches", "purgeGenerations"}
  /\ LeaveWith(x, IF proc[x].at \in {"purgeCaches", "purgeGenerations"}
                    THEN proc[x].on ELSE proc[x].p, AfterRejection(x))
  /\ budget' = [budget EXCEPT !.rejections = @ - 1]
  /\ UNCHANGED <<stored, disabled, descriptors, revalidators, server>>

(***************************************************************************)
(* The specification.                                                       *)
(***************************************************************************)
TombstoneStep(x) ==
  WriteTombstone(x) \/ PurgeTombstonedCaches(x) \/ PurgeTombstonedGenerations(x)

HandlerStep(h) ==
  \/ Admit(h) \/ ObserveDescriptor(h) \/ Configured(h) \/ CacheAssets(h)
  \/ ShellAnswer(h) \/ PutShell(h) \/ PersistedShell(h)
  \/ DirectAnswer(h) \/ NetworkAnswer(h) \/ PutFetched(h)
  \/ Fallback(h) \/ Read(h) \/ Serve(h) \/ Respond(h)
  \/ TombstoneStep(h)

RevalidationStep(p) ==
  \/ Load(p) \/ ManifestAnswer(p) \/ Recover(p) \/ Refresh(p) \/ Compare(p)
  \/ Commit(p) \/ ActivateCandidate(p) \/ PruneAfterActivation(p)
  \/ Evict(p) \/ EvictNext(p) \/ Activated(p)
  \/ Restore(p) \/ PruneAfterRestore(p) \/ Discard(p) \/ Settle(p)
  \/ TombstoneStep(p)

Message ==
  \E h \in Handlers, p \in Visited :
    \/ \E d \in DescriptorsOf[p] : ConfigureMessage(h, p, d)
    \/ RevalidateMessage(h, p)
    \/ DisableMessage(h, p)
    \/ \E content \in {"document", "shell", "asset"} : FetchEvent(h, p, content)

ServerChange ==
  \E p \in Changing :
    Withdraw(p) \/ \E d \in DescriptorsOf[p] : Publish(p, d)

Next ==
  \/ Message
  \/ \E h \in Handlers : HandlerStep(h)
  \/ \E p \in Publications : RevalidationStep(p)
  \/ \E x \in Procs : Refuse(x) \/ Reject(x)
  \/ ServerChange
  \/ Kill

Spec == Init /\ [][Next]_vars

\* The event loop runs every continuation and every request settles.
FairSpec ==
  /\ Spec
  /\ \A h \in Handlers : WF_vars(HandlerStep(h))
  /\ \A p \in Publications : WF_vars(RevalidationStep(p))

(***************************************************************************)
(* Properties.                                                              *)
(***************************************************************************)

\* Every variable has its type, and the head of a queue is a process whose
\* storage operation is running or about to.
TypeOK ==
  /\ \A p \in Publications : Inv_Metadata(db[p])
  /\ recent \in Seq(Publications)
  /\ disabled \subseteq Publications
  /\ descriptors \in [Publications -> Pointers]
  /\ revalidators \in [Publications -> Pointers]
  /\ \A x \in Procs : DOMAIN proc[x] = DOMAIN Idle
  /\ \A p \in Publications : \A i \in 1 .. Len(queue[p]) :
       Running(queue[p][i]) /\ p \in {proc[queue[p][i]].p, proc[queue[p][i]].on}

\* The revision of d has no other projection.
Sole(d) == \A c \in Descriptors : RevisionOf[c] = RevisionOf[d] => c = d

\* The active pointer of an enabled publication names a stored generation,
\* however commits, activations, rollbacks, discards, evictions, refused writes
\* and ends of the worker interleave: the last known good generation can be
\* loaded.  Two cases are excepted.  Generations are keyed by revision, so that
\* another projection of the active revision overwrites its record before it
\* is activated, and takes it along when it is discarded.  And an activate that
\* rejects after its metadata write has the active generation discarded.
ActiveIsStored ==
  \A p \in Publications :
    /\ ~ db[p].disabled /\ db[p].active # None
    /\ Sole(db[p].active) /\ budget.rejections = MaxRejections
    => db[p].active \in db[p].generations

\* A withdrawal wins over everything it races with: once the worker has seen
\* it and the publication's queue has drained, the publication is disabled,
\* and no pointer, generation or cached response of it is left (unless a
\* storage operation was refused or rejected).
WithdrawalWins ==
  \A p \in disabled :
    queue[p] = <<>> /\ budget.faults = MaxFaults /\ budget.rejections = MaxRejections =>
      /\ db[p].disabled
      /\ {db[p].active, db[p].previous, db[p].candidate} = {None}
      /\ db[p].generations = {} /\ db[p].cached = {}

\* Local bytes are not returned once a withdrawal was seen by this worker or
\* persisted by an earlier one, however long ago they were read: a disabled
\* publication is served locally only when an eviction disabled it meanwhile.
WithdrawnIsNotServed ==
  [][\A h \in Handlers :
       proc[h].at = "serve" /\ proc'[h].at = "served" =>
         /\ proc[h].p \notin disabled
         /\ db[proc[h].p].disabled => db[proc[h].p].evicted]_vars

\* A publication that is disabled comes back only with a revision other than
\* the one its tombstone names: not by a late commit, activation or rollback.
ReenabledByAnotherRevision ==
  [][\A p \in Publications :
       db[p].disabled /\ ~ db'[p].disabled =>
         Revision(db'[p].active) # db[p].tombstone]_vars

\* The activation of p, which holds p's queue, evicts q and is not at the head
\* of q's queue.
EvictionWaits(p, q) ==
  At(p, "tombstone") /\ proc[p].back = "evicting" /\ proc[p].on = q /\ ~ Holds(p, q)

\* No activations wait for each other's queue in a circle while they evict.
NoCircularWait ==
  \A S \in SUBSET Publications \ {{}} :
    \E p \in S : \A q \in S : ~ EvictionWaits(p, q)

\* Every event the worker handles is settled: no handler waits for ever for a
\* queue, a revalidation or a request, unless activations wait in a circle.
EveryEventSettles ==
  \A h \in Handlers : Running(h) ~> (~ Running(h) \/ ~ NoCircularWait)

\* Who is told "ready" can load the very revision it was configured with, as
\* the active or the previous generation, unless the publication has been
\* disabled since.
ReadyIsExact ==
  \A p \in Publications : At(p, "ready") /\ ~ db[p].disabled =>
    \A h \in Handlers : At(h, "join") /\ proc[h].p = p =>
      proc[h].d \in LoadActive(db[p]) \cup LoadPrevious(db[p])
=============================================================================
