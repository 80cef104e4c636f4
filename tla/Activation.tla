------------------------------ MODULE Activation ------------------------------
(***************************************************************************)
(* The activation coordinator of the snapshot catalog                      *)
(* (internal/adapters/catalogstore) together with the in-process runtime   *)
(* it drives (application/catalog/runtime.go).  The coordinator publishes  *)
(* content-addressed snapshot directories, moves mounts from one snapshot  *)
(* to the next, withdraws and reauthorizes mounts, quarantines corrupt     *)
(* snapshots, collects garbage, and recovers all of it from disk.          *)
(*                                                                         *)
(* Grain.  One action per durable effect (a file or directory rename with  *)
(* the fsync of its parent) and per step of the in-process state; between  *)
(* any two the process may stop, the machine may lose power, a snapshot    *)
(* may rot and requests may come and go.  The coordinator's commit mutex   *)
(* admits one operation at a time, held in job.                            *)
(*                                                                         *)
(* Unconfirmed renames.  DurableAtomicWrite fsyncs a temporary file,       *)
(* renames it and fsyncs the directory.  When the last fsync fails the new *)
(* file is visible but a power loss may bring an older one back: routesOld *)
(* and journalOld are the older versions that may come back.  Both files   *)
(* live in state/, so a later successful fsync of either settles both.     *)
(***************************************************************************)
EXTENDS RouteTables

CONSTANTS
  NoJob,        \* no operation is running
  NoRoutes,     \* routes.json does not exist
  NoAck,
  MaxRefs,      \* bound on concurrent admissions of one snapshot
  MaxStored,    \* MaxStoredBytes, in snapshot directories
  MaxOld,       \* bound on the older versions of one file that may come back
  Rotting,      \* the snapshots whose directory may rot
  Operations,   \* the coordinator calls that clients make
  Unconfirmed   \* the writes outside the journaled steps of a running operation whose fsync
                \* may fail after the rename: of a snapshot ("publish"), by
                \* HandleCorruption ("report"), and during recovery ("open")

ASSUME ActivationConstants ==
  /\ MaxRefs \in Nat
  /\ MaxStored \in Nat
  /\ MaxOld \in Nat
  /\ Operations \subseteq {"activate", "withdraw", "reauthorize", "report", "collect"}
  /\ Unconfirmed \subseteq {"publish", "report", "open"}
  /\ Rotting \subseteq Snapshots
  /\ NoAck \notin Routes
  /\ NoRoutes \notin Tables

\* activationJournalV1, and the arguments of the operation that is running.
Jobs == [op : {"activate", "withdraw", "reauthorize", "report"},
         mount : Mounts, cand : SnapshotOrNone, old : SnapshotOrNone,
         tomb : Tombstones \cup {NoTombstone}]

Journals == {j \in Jobs : j.op # "report"}

ASSUME NoJobAssumption == NoJob \notin Jobs

VARIABLES
  table,        \* runtime.table
  refs,         \* runtime.refs: admissions holding each snapshot
  routes,       \* state/routes.json
  routesOld,
  journal,      \* state/activation-journal.json
  journalOld,
  dir,          \* snapshots/<id>: absent, ok (passes Preflight) or corrupt
  loose,        \* snapshots/<id> renamed into place, snapshots/ not yet fsynced
  cut,          \* ... and the Publish that renamed it ended before the fsync
  quarantined,  \* quarantine/<id> exists
  pc,           \* where the coordinator stands
  job,          \* the operation holding the commit mutex
  scan,         \* snapshots the operation still has to look at
  todo,         \* mounts restoreDurableRoutes still has to look at
  rebuilt,      \* the table restoreDurableRoutes is building
  repaired,     \* mounts for which restoreDurableRoutes departs from what it read
  ack           \* the last outcome reported to the client of each mount and not put in
                \* doubt since: by a later operation on it, by rot of its snapshot, or by
                \* a power loss that took its directory after a Publish that was cut off

memory == <<table, refs>>
files == <<routes, routesOld, journal, journalOld>>
store == <<dir, loose, cut, quarantined>>
control == <<pc, job, scan>>
restoring == <<todo, rebuilt, repaired>>
vars == <<table, refs, routes, routesOld, journal, journalOld, dir, loose, cut, quarantined,
          pc, job, scan, todo, rebuilt, repaired, ack>>

Stopped == {"down", "refusedQuarantine", "refusedCandidate"}
Opening == {"restore", "recover", "drop", "openGC"}
Serving == {"idle", "publish", "confirm", "collect", "retry", "check", "journal", "pointer", "store",
            "remove", "quarantine"}

TypeOK ==
  /\ table \in Tables
  /\ refs \in [Snapshots -> 0..MaxRefs]
  /\ routes \in Tables \cup {NoRoutes}
  /\ routesOld \subseteq Tables \cup {NoRoutes}
  /\ journal \in Journals \cup {NoJob}
  /\ journalOld \subseteq Journals \cup {NoJob}
  /\ dir \in [Snapshots -> {"absent", "ok", "corrupt"}]
  /\ loose \subseteq Snapshots
  /\ cut \subseteq Snapshots
  /\ quarantined \subseteq Snapshots
  /\ pc \in Stopped \cup Opening \cup Serving
  /\ job \in Jobs \cup {NoJob}
  /\ scan \subseteq Snapshots
  /\ todo \subseteq Mounts
  /\ rebuilt \in Tables
  /\ repaired \subseteq Mounts
  /\ ack \in [Mounts -> Routes \cup {NoAck}]

Init ==
  /\ table = EmptyTable
  /\ refs = [s \in Snapshots |-> 0]
  /\ routes = NoRoutes /\ routesOld = {}
  /\ journal = NoJob /\ journalOld = {}
  /\ dir = [s \in Snapshots |-> "absent"]
  /\ loose = {} /\ cut = {} /\ quarantined = {}
  /\ pc = "down" /\ job = NoJob /\ scan = {}
  /\ todo = {} /\ rebuilt = EmptyTable /\ repaired = {}
  /\ ack = [m \in Mounts |-> NoAck]

-------------------------------------------------------------------------------
\* Shared pieces

Present == {s \in Snapshots : dir[s] # "absent"}
Healthy == {s \in Snapshots : dir[s] = "ok"}
Base(r) == IF r = NoRoutes THEN EmptyTable ELSE r
Durable == Base(routes)

\* The table an operation installs.
Apply(j, t) ==
  CASE j.op = "activate"    -> ActivateMount(t, j.mount, j.cand)
    [] j.op = "withdraw"    -> WithdrawMount(t, j.mount, j.tomb)
    [] j.op = "reauthorize" -> ReauthorizeMount(t, j.mount, j.cand)
    [] j.op = "report"      -> FallbackMount(t, j.mount, j.cand # NoSnapshot)

Doubt(m) == [ack EXCEPT ![m] = NoAck]
\* A success is reported; rot of the snapshot since its Preflight puts it in doubt at once.
Report(a, m) ==
  [a EXCEPT ![m] = IF HasMount(table, m) /\ dir[table.active[m]] # "ok" THEN NoAck
                   ELSE Route(table, m)]
DoubtSnapshots(S) ==
  [m \in Mounts |-> IF ack[m] # NoAck /\ ack[m].active \in S THEN NoAck ELSE ack[m]]

\* DurableAtomicWrite and removeJournal: the directory fsync succeeds ...
Settle(r, j) ==
  /\ routes' = r /\ routesOld' = {}
  /\ journal' = j /\ journalOld' = {}

\* ... or fails after the rename.
Loosen(r, j) ==
  /\ routes' = r /\ routesOld' = IF r = routes THEN routesOld ELSE routesOld \cup {routes}
  /\ journal' = j /\ journalOld' = IF j = journal THEN journalOld ELSE journalOld \cup {journal}
  /\ Cardinality(routesOld') <= MaxOld /\ Cardinality(journalOld') <= MaxOld

Goto(label) == pc' = label /\ UNCHANGED <<job, scan>>
Idle == pc' = "idle" /\ job' = NoJob /\ scan' = {}

\* The process ends or Open returns an error: only the disk remains.
Halt(label) ==
  /\ pc' = label /\ job' = NoJob /\ scan' = {}
  /\ table' = EmptyTable /\ refs' = [s \in Snapshots |-> 0]
  /\ todo' = {} /\ rebuilt' = EmptyTable /\ repaired' = {}

-------------------------------------------------------------------------------
\* Client calls: the checks each operation makes before its first effect.

CanBegin(op) == op \in Operations /\ pc = "idle"
Begin(label, j, S) == pc' = label /\ job' = j /\ scan' = S

\* rejectPendingJournal
NoPendingJournal == journal = NoJob

BeginActivate(m, c, old) ==
  /\ CanBegin("activate") /\ NoPendingJournal
  /\ CheckMount(table, m, old)
  /\ c # old => Encodable(ActivateMount(table, m, c))
  /\ Begin("publish", [op |-> "activate", mount |-> m, cand |-> c, old |-> old,
                       tomb |-> NoTombstone], {})
  /\ UNCHANGED <<memory, files, store, restoring, ack>>

BeginWithdraw(m, state, old) ==
  LET tombstone == [state |-> state, snap |-> table.active[m]] IN
  /\ CanBegin("withdraw") /\ NoPendingJournal
  /\ HasMount(table, m)
  /\ CheckMount(table, m, old)
  /\ Encodable(WithdrawMount(table, m, tombstone))
  /\ Begin("journal", [op |-> "withdraw", mount |-> m, cand |-> NoSnapshot,
                       old |-> old, tomb |-> tombstone], {})
  /\ UNCHANGED <<memory, files, store, restoring, ack>>

BeginReauthorize(m, c) ==
  /\ CanBegin("reauthorize") /\ NoPendingJournal
  /\ Withdrawn(table, m)
  /\ CatalogOf[table.tomb[m].snap] = CatalogOf[c]
  /\ Encodable(ReauthorizeMount(table, m, c))
  /\ Begin("publish", [op |-> "reauthorize", mount |-> m, cand |-> c,
                       old |-> table.tomb[m].snap, tomb |-> NoTombstone], {})
  /\ UNCHANGED <<memory, files, store, restoring, ack>>

\* Mutant: the previous snapshot is quarantined whether there is one or not.
BeginReportAnyPrevious(m) ==
  /\ CanBegin("report") /\ NoPendingJournal
  /\ HasMount(table, m)
  /\ Begin("pointer", [op |-> "report", mount |-> m, cand |-> NoSnapshot,
                       old |-> table.active[m], tomb |-> NoTombstone],
           {table.active[m], table.prev[m]})
  /\ UNCHANGED <<memory, files, store, restoring, ack>>

\* HandleCorruption: the previous snapshot takes over if it passes Preflight; what is
\* left in scan goes to quarantine.
BeginReport(m) ==
  LET p == table.prev[m]
      next == IF p # NoSnapshot /\ dir[p] = "ok" THEN p ELSE NoSnapshot
  IN
  /\ CanBegin("report") /\ NoPendingJournal
  /\ HasMount(table, m)
  /\ Begin("pointer", [op |-> "report", mount |-> m, cand |-> next,
                       old |-> table.active[m], tomb |-> NoTombstone],
           ({table.active[m], p} \ {next}) \cap Snapshots)
  /\ UNCHANGED <<memory, files, store, restoring, ack>>

BeginCollect ==
  /\ CanBegin("collect")
  /\ Begin("collect", NoJob, Present)
  /\ UNCHANGED <<memory, files, store, restoring, ack>>

-------------------------------------------------------------------------------
\* The steps of a running operation

OverBudget == Cardinality(Present) >= MaxStored

\* Publish finds the directory, and Preflight accepts it.
PublishExisting ==
  /\ pc \in {"publish", "retry"} /\ dir[job.cand] = "ok"
  /\ Goto("check")
  /\ UNCHANGED <<memory, files, store, restoring, ack>>

\* Mutant: the rename is not followed by an fsync of snapshots/.
PublishNewUnsynced ==
  /\ pc \in {"publish", "retry"} /\ dir[job.cand] = "absent" /\ ~OverBudget
  /\ dir' = [dir EXCEPT ![job.cand] = "ok"]
  /\ loose' = loose \cup {job.cand}
  /\ Goto("check")
  /\ UNCHANGED <<memory, files, cut, quarantined, restoring, ack>>

\* Publish stages the directory and renames it into place ...
PublishNew ==
  /\ pc \in {"publish", "retry"} /\ dir[job.cand] = "absent" /\ ~OverBudget
  /\ dir' = [dir EXCEPT ![job.cand] = "ok"]
  /\ loose' = loose \cup {job.cand}
  /\ Goto("confirm")
  /\ UNCHANGED <<memory, files, cut, quarantined, restoring, ack>>

\* ... and fsyncs snapshots/, which settles every directory in it; or the fsync fails.
CutOff == IF pc = "confirm" THEN cut \cup {job.cand} ELSE cut
ConfirmNew ==
  /\ pc = "confirm"
  /\ \/ Goto("check") /\ loose' = {} /\ cut' = {}
     \/ "publish" \in Unconfirmed /\ Idle /\ loose' = loose /\ cut' = CutOff
  /\ UNCHANGED <<memory, files, dir, quarantined, restoring, ack>>

\* ErrStorageBudget: collect garbage once, then publish again.
PublishOverBudget ==
  /\ pc = "publish" /\ dir[job.cand] = "absent" /\ OverBudget
  /\ Begin("collect", job, Present)
  /\ UNCHANGED <<memory, files, store, restoring, ack>>

\* Mutant: admissions do not keep a snapshot.
CollectableAdmitted(s) == s \notin Retained(table)

\* garbageCollectLocked, one directory entry at a time.
Collectable(s) == s \notin Retained(table) /\ refs[s] = 0

CollectEntry(s) ==
  /\ pc \in {"collect", "openGC"} /\ s \in scan
  /\ scan' = scan \ {s}
  /\ dir' = IF Collectable(s) THEN [dir EXCEPT ![s] = "absent"] ELSE dir
  /\ loose' = IF Collectable(s) THEN loose \ {s} ELSE loose
  /\ cut' = IF Collectable(s) THEN cut \ {s} ELSE cut
  /\ UNCHANGED <<memory, files, quarantined, pc, job, restoring, ack>>

EndCollect ==
  /\ pc \in {"collect", "openGC"} /\ scan = {}
  /\ IF job = NoJob THEN Idle ELSE Goto("retry")
  /\ UNCHANGED <<memory, files, store, restoring, ack>>

\* Mutant: the catalog identity of the candidate is not compared.
AdmissibleAnyCatalog(j) ==
  /\ dir[j.cand] = "ok"
  /\ j.op = "activate" => CheckMount(table, j.mount, j.old)
  /\ j.op = "reauthorize" => CanReauthorize(table, j.mount, j.cand)

\* The second Preflight, the identity checks, and the call of the runtime: it takes the
\* runtime's lock and starts persist unless the candidate already is the active snapshot.
Admissible(j) ==
  /\ dir[j.cand] = "ok"
  /\ j.op = "activate" =>
       /\ CheckMount(table, j.mount, j.old)
       /\ HasMount(table, j.mount) => CatalogOf[table.active[j.mount]] = CatalogOf[j.cand]
  /\ j.op = "reauthorize" => CanReauthorize(table, j.mount, j.cand)

CheckCandidate ==
  /\ pc = "check" /\ Admissible(job) /\ job.cand # table.active[job.mount]
  /\ Goto("journal")
  /\ UNCHANGED <<memory, files, store, restoring, ack>>

ActivateUnchanged ==
  /\ pc = "check" /\ Admissible(job) /\ job.cand = table.active[job.mount]
  /\ Idle
  /\ ack' = Report(ack, job.mount)
  /\ UNCHANGED <<memory, files, store, restoring>>

\* Mutant: the transition is not journaled.
WriteJournalSkipped ==
  /\ pc = "journal"
  /\ Goto("pointer")
  /\ ack' = Doubt(job.mount)
  /\ UNCHANGED <<memory, files, store, restoring>>

WriteJournal ==
  /\ pc = "journal"
  /\ \/ Settle(routes, job) /\ Goto("pointer")
     \/ Loosen(routes, job) /\ Idle
  /\ ack' = Doubt(job.mount)
  /\ UNCHANGED <<memory, store, restoring>>

WritePointer ==
  /\ pc = "pointer"
  /\ \/ Settle(Apply(job, table), journal) /\ Goto("store")
     \/ /\ job.op = "report" => "report" \in Unconfirmed
        /\ Loosen(Apply(job, table), journal) /\ Idle
  /\ ack' = Doubt(job.mount)
  /\ UNCHANGED <<memory, store, restoring>>

\* runtime.table.Store, after persist returned nil.
StoreTable ==
  /\ pc = "store"
  /\ table' = Apply(job, table)
  /\ Goto(IF job.op = "report" THEN "quarantine" ELSE "remove")
  /\ UNCHANGED <<refs, files, store, restoring, ack>>

\* removeJournal; the operation reports success only if the fsync does.
RemoveJournal ==
  /\ pc = "remove" /\ Idle
  /\ \/ /\ Settle(routes, NoJob)
        /\ ack' = Report(ack, job.mount)
     \/ Loosen(routes, NoJob) /\ UNCHANGED ack
  /\ UNCHANGED <<memory, store, restoring>>

\* quarantine: os.Rename of a directory onto an existing one fails, of a missing one is
\* ignored.
QuarantineBlocked(s) == dir[s] # "absent" /\ s \in quarantined
Quarantine(S) ==
  /\ \A s \in S : ~QuarantineBlocked(s)
  /\ dir' = [s \in Snapshots |-> IF s \in S THEN "absent" ELSE dir[s]]
  /\ quarantined' = quarantined \cup (S \cap Present)
  /\ loose' = loose \ S /\ cut' = cut \ S

\* HandleCorruption quarantines a corrupt previous snapshot before the reported one.
QuarantineReported(s) ==
  /\ pc = "quarantine" /\ s \in scan
  /\ s = job.old => scan = {s}
  /\ Quarantine({s})
  /\ ack' = IF scan = {s} THEN Report(DoubtSnapshots({s}), job.mount) ELSE DoubtSnapshots({s})
  /\ IF scan = {s} THEN Idle ELSE Begin(pc, job, scan \ {s})
  /\ UNCHANGED <<memory, files, restoring>>

\* Any other failure of a step, before it had an effect: the operation returns an error.
Abort ==
  /\ pc \in Serving \ {"idle", "confirm", "store"}
  /\ Idle
  /\ UNCHANGED <<memory, files, store, restoring, ack>>

-------------------------------------------------------------------------------
\* Requests.  The runtime's lock is held from the start of persist to the table store.

RuntimeUnlocked == pc \in Serving \ {"journal", "pointer", "store"}

AdmitSnapshot(m, s) ==
  /\ RuntimeUnlocked
  /\ s \in {table.active[m], table.prev[m]} \cap Snapshots
  /\ refs[s] < MaxRefs
  /\ refs' = [refs EXCEPT ![s] = @ + 1]
  /\ UNCHANGED <<table, files, store, control, restoring, ack>>

Release(s) ==
  /\ RuntimeUnlocked /\ refs[s] > 0
  /\ refs' = [refs EXCEPT ![s] = @ - 1]
  /\ UNCHANGED <<table, files, store, control, restoring, ack>>

-------------------------------------------------------------------------------
\* OpenActivationCoordinator: recover, then collect garbage.

\* The mount whose withdrawal is journaled; its tombstone wins over the routes on disk.
Protected == IF journal # NoJob /\ journal.op = "withdraw" THEN {journal.mount} ELSE {}

\* recover reads the journal and restoreDurableRoutes the routes; tombstones first.
Start ==
  /\ pc \in Stopped
  /\ pc' = "restore" /\ UNCHANGED <<job, scan>>
  /\ todo' = {m \in Mounts : HasMount(Durable, m)} \ Protected
  /\ rebuilt' = [active |-> EmptyTable.active, prev |-> EmptyTable.prev,
                 tomb |-> [m \in Mounts |-> IF m \in Protected THEN journal.tomb
                                           ELSE Durable.tomb[m]]]
  /\ repaired' = Protected
  /\ UNCHANGED <<memory, files, store, ack>>

\* The snapshots of a durable mount that fail Preflight or belong to another catalog.
Spoiled(m) ==
  LET a == Durable.active[m]
      p == Durable.prev[m]
  IN {s \in {a, p} \cap Snapshots : dir[s] # "ok" \/ CatalogOf[s] # CatalogOf[a]}

\* A healthy active snapshot stays, with its previous one if that is healthy too; else
\* the previous one takes its place; else the mount is dropped.
RestoredActive(m) ==
  IF Durable.active[m] \notin Spoiled(m) THEN Durable.active[m]
  ELSE IF Durable.prev[m] \notin Spoiled(m) THEN Durable.prev[m]
  ELSE NoSnapshot
RestoredPrev(m) ==
  IF Durable.active[m] \notin Spoiled(m) /\ Durable.prev[m] \notin Spoiled(m)
  THEN Durable.prev[m] ELSE NoSnapshot

RestoreMount(m) ==
  /\ pc = "restore" /\ m \in todo /\ ~Withdrawn(rebuilt, m)
  /\ Quarantine(Spoiled(m))
  /\ todo' = todo \ {m}
  /\ rebuilt' = [active |-> [rebuilt.active EXCEPT ![m] = RestoredActive(m)],
                 prev   |-> [rebuilt.prev EXCEPT ![m] = RestoredPrev(m)],
                 tomb   |-> rebuilt.tomb]
  /\ repaired' = IF Spoiled(m) = {} THEN repaired ELSE repaired \cup {m}
  /\ UNCHANGED <<memory, files, control, ack>>

\* quarantine fails because quarantine/<id> exists: so does Open.  The active snapshot is
\* moved before the previous one is tried.
RestoreRefused(m) ==
  /\ pc = "restore" /\ m \in todo
  /\ \E s \in Spoiled(m) : QuarantineBlocked(s)
  /\ Quarantine({s \in Spoiled(m) : s = Durable.active[m] /\ ~QuarantineBlocked(s)})
  /\ Halt("refusedQuarantine")
  /\ UNCHANGED <<files, ack>>

\* Open stops between the two renames, or after them.
RestoreInterrupted(m) ==
  /\ pc = "restore" /\ m \in todo
  /\ \/ Quarantine(Spoiled(m) \cap {Durable.active[m]})
     \/ Quarantine(Spoiled(m))
  /\ Halt("down")
  /\ UNCHANGED <<files, ack>>

InstallRestored ==
  /\ pc = "restore" /\ todo = {}
  /\ \/ repaired = {} /\ UNCHANGED files
     \/ repaired # {} /\ Settle(rebuilt, journal)
  /\ table' = rebuilt /\ Goto("recover")
  /\ rebuilt' = EmptyTable /\ repaired' = {}
  /\ UNCHANGED <<refs, store, todo, ack>>

InstallUnconfirmed ==
  /\ pc = "restore" /\ todo = {} /\ repaired # {} /\ "open" \in Unconfirmed
  /\ Loosen(rebuilt, journal)
  /\ Halt("down")
  /\ UNCHANGED <<store, ack>>

\* recoverJournal: the journaled transition is already in the routes ...
Completed(j, t) ==
  CASE j.op = "activate"    -> t.active[j.mount] = j.cand
    [] j.op = "withdraw"    -> ~HasMount(t, j.mount) /\ t.tomb[j.mount] = j.tomb
    [] j.op = "reauthorize" -> t.active[j.mount] = j.cand /\ t.prev[j.mount] = NoSnapshot

\* ... or starts from a state other than the one in the routes (it is archived) ...
Current(j, t) ==
  IF j.op = "reauthorize"
  THEN IF Withdrawn(t, j.mount) THEN t.tomb[j.mount].snap ELSE NoSnapshot
  ELSE t.active[j.mount]
Stale(j, t) == Current(j, t) # j.old

\* ... or is rolled forward.
Resumable(j) ==
  CASE j.op = "activate" ->
         /\ dir[j.cand] = "ok" /\ CheckMount(table, j.mount, j.old)
         /\ HasMount(table, j.mount) => CatalogOf[table.active[j.mount]] = CatalogOf[j.cand]
    [] j.op = "reauthorize" -> dir[j.cand] = "ok" /\ CanReauthorize(table, j.mount, j.cand)
    [] OTHER -> HasMount(table, j.mount)

MustResume == journal # NoJob /\ ~Completed(journal, table) /\ ~Stale(journal, table)

RecoverNothing ==
  /\ pc = "recover" /\ journal = NoJob
  /\ Begin("openGC", NoJob, Present)
  /\ UNCHANGED <<memory, files, store, restoring, ack>>

RecoverSettled ==
  /\ pc = "recover" /\ journal # NoJob
  /\ Completed(journal, table) \/ Stale(journal, table)
  /\ Goto("drop")
  /\ UNCHANGED <<memory, files, store, restoring, ack>>

RollForward ==
  /\ pc = "recover" /\ MustResume /\ Resumable(journal)
  /\ Settle(Apply(journal, table), journal)
  /\ table' = Apply(journal, table) /\ Goto("drop")
  /\ UNCHANGED <<refs, store, restoring, ack>>

RollForwardUnconfirmed ==
  /\ pc = "recover" /\ MustResume /\ Resumable(journal) /\ "open" \in Unconfirmed
  /\ Loosen(Apply(journal, table), journal)
  /\ Halt("down")
  /\ UNCHANGED <<store, ack>>

\* The candidate no longer passes Preflight: Open fails and the journal stays.
RecoverRefused ==
  /\ pc = "recover" /\ MustResume /\ ~Resumable(journal)
  /\ Halt("refusedCandidate")
  /\ UNCHANGED <<files, store, ack>>

DropJournal ==
  /\ pc = "drop"
  /\ Settle(routes, NoJob)
  /\ Begin("openGC", NoJob, Present)
  /\ UNCHANGED <<memory, store, restoring, ack>>

DropUnconfirmed ==
  /\ pc = "drop" /\ "open" \in Unconfirmed
  /\ Loosen(routes, NoJob)
  /\ Halt("down")
  /\ UNCHANGED <<store, ack>>

-------------------------------------------------------------------------------
\* The environment

\* The process is closed or killed, or Open fails on a transient error.
Stop ==
  /\ pc \notin Stopped
  /\ Halt("down")
  /\ cut' = CutOff
  /\ UNCHANGED <<files, dir, loose, quarantined, ack>>

\* Every rename that was not confirmed may be undone.
PowerLoss ==
  /\ \E r \in {routes} \cup routesOld, j \in {journal} \cup journalOld : Settle(r, j)
  /\ \E lost \in SUBSET loose :
       /\ dir' = [s \in Snapshots |-> IF s \in lost THEN "absent" ELSE dir[s]]
       /\ ack' = DoubtSnapshots(lost \cap cut)
  /\ loose' = {} /\ cut' = {}
  /\ Halt("down")
  /\ UNCHANGED quarantined

Corrupt(s) ==
  /\ s \in Rotting /\ dir[s] = "ok"
  /\ dir' = [dir EXCEPT ![s] = "corrupt"]
  /\ ack' = DoubtSnapshots({s})
  /\ UNCHANGED <<memory, files, loose, cut, quarantined, control, restoring>>

-------------------------------------------------------------------------------
Call ==
  \/ \E m \in Mounts, c \in Snapshots, old \in SnapshotOrNone : BeginActivate(m, c, old)
  \/ \E m \in Mounts, st \in TombstoneStates, old \in Snapshots : BeginWithdraw(m, st, old)
  \/ \E m \in Mounts, c \in Snapshots : BeginReauthorize(m, c)
  \/ \E m \in Mounts : BeginReport(m)
  \/ BeginCollect

Work ==
  \/ PublishExisting \/ PublishNew \/ ConfirmNew \/ PublishOverBudget
  \/ \E s \in Snapshots : CollectEntry(s)
  \/ EndCollect
  \/ CheckCandidate \/ ActivateUnchanged
  \/ WriteJournal \/ WritePointer \/ StoreTable \/ RemoveJournal
  \/ \E s \in Snapshots : QuarantineReported(s)
  \/ Abort

Request ==
  \/ \E m \in Mounts, s \in Snapshots : AdmitSnapshot(m, s)
  \/ \E s \in Snapshots : Release(s)

Open ==
  \/ Start
  \/ \E m \in Mounts : RestoreMount(m) \/ RestoreRefused(m) \/ RestoreInterrupted(m)
  \/ InstallRestored \/ InstallUnconfirmed
  \/ RecoverNothing \/ RecoverSettled \/ RollForward \/ RollForwardUnconfirmed
  \/ RecoverRefused \/ DropJournal \/ DropUnconfirmed

Environment == Stop \/ PowerLoss \/ \E s \in Snapshots : Corrupt(s)

Next == Call \/ Work \/ Request \/ Open \/ Environment

Spec == Init /\ [][Next]_vars

\* A supervisor starts a stopped process again, and Open runs to its end: it is sequential
\* code that waits for nothing once it has the directory lock.
Opened ==
  \/ Start
  \/ \E m \in Mounts : RestoreMount(m) \/ RestoreRefused(m)
  \/ InstallRestored
  \/ RecoverNothing \/ RecoverSettled \/ RollForward \/ RecoverRefused \/ DropJournal
  \/ pc = "openGC" /\ ((\E s \in Snapshots : CollectEntry(s)) \/ EndCollect)

FairSpec == Spec /\ WF_vars(Opened)

-------------------------------------------------------------------------------
\* Properties

RouteSurvivors == {Base(r) : r \in {routes} \cup routesOld}
JournalSurvivors == {journal} \cup journalOld

\* No mount is served and withdrawn at once: not by the running process, not by any table
\* a power loss may leave on disk, and not by the table recovery is building.  The code
\* keeps both maps side by side and Open refuses a file that says both.
ServedNotWithdrawn ==
  /\ Exclusive(table) /\ Exclusive(rebuilt)
  /\ \A r \in {routes} \cup routesOld : Exclusive(Base(r))

\* What Open computes from a route table and a journal while no snapshot has rotted:
\* restoreDurableRoutes keeps the routes, except that a journaled withdrawal wins, and
\* recoverJournal completes the journaled transition unless it is done or stale.
Recovered(t, j) ==
  IF j = NoJob THEN t
  ELSE IF j.op = "withdraw" THEN WithdrawMount(t, j.mount, j.tomb)
  ELSE IF Completed(j, t) \/ Stale(j, t) THEN t
  ELSE Apply(j, t)

\* A power loss is atomic with respect to what is being served: whichever versions of the
\* two files survive it, the restarted process serves the table served before, or that
\* table after the one transition that is running or pending - never a mixture, never an
\* older state.
InFlight == {job, journal} \ {NoJob}
RestartIsAtomic ==
  pc \in Serving =>
    \A t \in RouteSurvivors, j \in JournalSurvivors :
      Recovered(t, j) \in {table} \cup {Apply(i, table) : i \in InFlight}

\* Once an operation has reported success on a mount, the process serves that outcome, now
\* and after any number of stops and power losses, until another operation on the mount
\* writes or its snapshot rots.  One power loss may take it back: Publish accepts a
\* directory that an earlier Publish renamed and did not fsync (cut).
AckedDurable ==
  pc \in Serving =>
    \A m \in Mounts : ack[m] # NoAck => Route(table, m) = ack[m]

\* A request never loses its snapshot to garbage collection, and neither does a mount: a
\* served or admitted snapshot is gone only if it is in quarantine.
NothingServedIsCollected ==
  pc \in Serving =>
    \A s \in Snapshots :
      (refs[s] > 0 \/ s \in Retained(table)) /\ dir[s] = "absent" => s \in quarantined

\* The rollback target is another snapshot of the same catalog.
PreviousIsRollback ==
  \A t \in {table} \cup RouteSurvivors : \A m \in Mounts :
    t.prev[m] # NoSnapshot =>
      /\ t.prev[m] # t.active[m]
      /\ HasMount(t, m)
      /\ CatalogOf[t.prev[m]] = CatalogOf[t.active[m]]

\* While the process serves, a mount is withdrawn and served again only by Reauthorize.
OnlyReauthorizeRevives ==
  [][\A m \in Mounts :
       pc \in Serving /\ pc' \in Serving /\ Withdrawn(table, m) /\ ~Withdrawn(table', m)
         => job # NoJob /\ job.op = "reauthorize" /\ job.mount = m /\ HasMount(table', m)]_vars

\* Whatever an operation left on disk when the process died, a process that is restarted and
\* not interrupted forever serves again: no journal an operation can write makes every later
\* Open fail.  (No snapshot rots in this run.)
Interruption ==
  \/ Stop \/ PowerLoss
  \/ \E m \in Mounts : RestoreInterrupted(m)
CatalogComesBack == []<><<Interruption>>_vars \/ []<>(pc \in Serving)

-------------------------------------------------------------------------------
\* What the repository says of the coordinator and the code does not keep

\* A corrupt active snapshot found at startup is quarantined and its healthy predecessor
\* serves the mount: Open does not fail because the snapshot has been in quarantine before.
StartupFallsBack ==
  pc = "refusedQuarantine" => \A m \in Mounts : Durable.prev[m] \notin Healthy
===============================================================================
