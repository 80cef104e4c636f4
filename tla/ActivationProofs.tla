--------------------------- MODULE ActivationProofs ---------------------------
(***************************************************************************)
(* Theorems about Activation, for any mounts, snapshots, catalogs and      *)
(* bounds: first what its steps keep, then what a power loss and the       *)
(* restart after it leave of its operations.  The second part holds when   *)
(* the writes of HandleCorruption and of recovery itself are confirmed:    *)
(* those are not journaled, and one whose fsync fails may be undone later. *)
(***************************************************************************)
EXTENDS Activation, TLAPS

-------------------------------------------------------------------------------
\* The operators on route tables return route tables.

\* Activating a mount gives a table.
LEMMA ActivateMountType ==
  ASSUME NEW t \in Tables, NEW m \in Mounts, NEW c \in SnapshotOrNone
  PROVE  ActivateMount(t, m, c) \in Tables
BY DEF ActivateMount, Tables

\* Withdrawing a mount gives a table.
LEMMA WithdrawMountType ==
  ASSUME NEW t \in Tables, NEW m \in Mounts, NEW w \in Tombstones \cup {NoTombstone}
  PROVE  WithdrawMount(t, m, w) \in Tables
BY DEF WithdrawMount, Tables, SnapshotOrNone

\* Reauthorizing a mount gives a table.
LEMMA ReauthorizeMountType ==
  ASSUME NEW t \in Tables, NEW m \in Mounts, NEW c \in SnapshotOrNone
  PROVE  ReauthorizeMount(t, m, c) \in Tables
BY DEF ReauthorizeMount, Tables, SnapshotOrNone

\* Falling back on a mount gives a table.
LEMMA FallbackMountType ==
  ASSUME NEW t \in Tables, NEW m \in Mounts, NEW u \in BOOLEAN
  PROVE  FallbackMount(t, m, u) \in Tables
BY DEF FallbackMount, Tables, SnapshotOrNone

\* The table of a new store is a table.
LEMMA EmptyTableType == EmptyTable \in Tables
BY DEF EmptyTable, Tables, SnapshotOrNone

\* What an operation writes is a table.
LEMMA ApplyType ==
  ASSUME NEW j \in Jobs, NEW t \in Tables
  PROVE  Apply(j, t) \in Tables
BY ActivateMountType, WithdrawMountType, ReauthorizeMountType, FallbackMountType, Zenon
DEF Apply, Jobs

-------------------------------------------------------------------------------
\* Types.  Whether journal' = job is well typed depends on where the operation stands, so
\* the invariant says which operations can stand where.

WithJob == {"publish", "confirm", "retry", "check", "journal", "pointer", "store", "remove",
            "quarantine"}

JobOK ==
  /\ pc \in WithJob => job \in Jobs
  /\ pc \in {"journal", "remove"} => job.op # "report"
  /\ pc \in {"publish", "confirm", "retry", "check"} \/ (pc = "collect" /\ job # NoJob) =>
       job.op \in {"activate", "reauthorize"} /\ job.cand \in Snapshots
  /\ pc \in Stopped \cup Opening \cup {"idle"} => job = NoJob

Shape == TypeOK /\ JobOK

\* A new store has the types and the control of Shape.
LEMMA ShapeInit == Init => Shape
BY EmptyTableType, ActivationConstants
DEF Init, Shape, TypeOK, JobOK, WithJob, Stopped, Opening, Serving

\* Every step keeps the types and the control of Shape.
LEMMA ShapeNext == Shape /\ [Next]_vars => Shape'
<1> SUFFICES ASSUME Shape, [Next]_vars PROVE Shape'
  OBVIOUS
<1> USE DEF Shape, TypeOK, JobOK, WithJob, Stopped, Opening, Serving, memory, files, store,
            control, restoring
<1>1. ASSUME NEW m \in Mounts, NEW c \in Snapshots, NEW old \in SnapshotOrNone,
             BeginActivate(m, c, old)
      PROVE  Shape'
  BY <1>1 DEF BeginActivate, Begin, Jobs, SnapshotOrNone
<1>2. ASSUME NEW m \in Mounts, NEW st \in TombstoneStates, NEW old \in Snapshots,
             BeginWithdraw(m, st, old)
      PROVE  Shape'
  BY <1>2 DEF BeginWithdraw, Begin, Jobs, SnapshotOrNone, Tombstones, HasMount, Tables
<1>3. ASSUME NEW m \in Mounts, NEW c \in Snapshots, BeginReauthorize(m, c)
      PROVE  Shape'
  BY <1>3, RouteConstants DEF BeginReauthorize, Begin, Jobs, SnapshotOrNone, Tombstones, Withdrawn, Tables
<1>4. ASSUME NEW m \in Mounts, BeginReport(m)
      PROVE  Shape'
  BY <1>4 DEF BeginReport, Begin, Jobs, SnapshotOrNone, Tables
<1>5. CASE BeginCollect
  BY <1>5 DEF BeginCollect, Begin, Present
<1>6. CASE PublishExisting
  BY <1>6 DEF PublishExisting, Goto
<1>7. CASE PublishNew \/ ConfirmNew
  BY <1>7 DEF PublishNew, ConfirmNew, CutOff, Goto, Idle
<1>8. CASE PublishOverBudget
  BY <1>8 DEF PublishOverBudget, Begin, Present
<1>9. ASSUME NEW s \in Snapshots, CollectEntry(s)
      PROVE  Shape'
  BY <1>9 DEF CollectEntry
<1>10. CASE EndCollect
  BY <1>10 DEF EndCollect, Idle, Goto
<1>11. CASE CheckCandidate
  BY <1>11 DEF CheckCandidate, Goto
<1>12. CASE ActivateUnchanged
  BY <1>12 DEF ActivateUnchanged, Idle, Report, Route, Routes, Tables, Jobs
<1>13. CASE WriteJournal
  BY <1>13, Zenon DEF WriteJournal, Settle, Loosen, Goto, Idle, Doubt, Journals
<1>14. CASE WritePointer
  <2>1. Apply(job, table) \in Tables
    BY <1>14, ApplyType DEF WritePointer
  <2> QED
    BY <1>14, <2>1, Zenon DEF WritePointer, Settle, Loosen, Goto, Idle, Doubt
<1>15. CASE StoreTable
  BY <1>15, ApplyType DEF StoreTable, Goto
<1>16. CASE RemoveJournal
  BY <1>16 DEF RemoveJournal, Settle, Loosen, Idle, Report, Route, Routes, Tables, Jobs
<1>17. ASSUME NEW s \in Snapshots, QuarantineReported(s)
       PROVE  Shape'
  BY <1>17 DEF QuarantineReported, Quarantine, Present, Idle, Begin, Report, DoubtSnapshots,
               Route, Routes, Tables, Jobs
<1>18. CASE Abort
  BY <1>18 DEF Abort, Idle
<1>19. ASSUME NEW m \in Mounts, NEW s \in Snapshots, AdmitSnapshot(m, s)
       PROVE  Shape'
  BY <1>19, ActivationConstants DEF AdmitSnapshot
<1>20. ASSUME NEW s \in Snapshots, Release(s)
       PROVE  Shape'
  BY <1>20, ActivationConstants DEF Release
<1>21. CASE Start
  BY <1>21, EmptyTableType DEF Start, Protected, Durable, Base, Tables, Journals, Jobs
<1>22. ASSUME NEW m \in Mounts, RestoreMount(m)
       PROVE  Shape'
  <2>1. RestoredActive(m) \in SnapshotOrNone /\ RestoredPrev(m) \in SnapshotOrNone
    BY EmptyTableType DEF RestoredActive, RestoredPrev, SnapshotOrNone, Durable, Base, Tables
  <2> QED
    BY <1>22, <2>1 DEF RestoreMount, Quarantine, Present, Tables
<1>23. ASSUME NEW m \in Mounts, RestoreRefused(m)
       PROVE  Shape'
  BY <1>23, EmptyTableType, ActivationConstants DEF RestoreRefused, Quarantine, Present, Halt
<1>24. ASSUME NEW m \in Mounts, RestoreInterrupted(m)
       PROVE  Shape'
  BY <1>24, EmptyTableType, ActivationConstants DEF RestoreInterrupted, Quarantine, Present, Halt
<1>25. CASE InstallRestored
  BY <1>25, EmptyTableType DEF InstallRestored, Settle, Goto
<1>26. CASE InstallUnconfirmed
  BY <1>26, EmptyTableType, ActivationConstants DEF InstallUnconfirmed, Loosen, Halt
<1>27. CASE RecoverNothing
  BY <1>27 DEF RecoverNothing, Begin, Present
<1>28. CASE RecoverSettled
  BY <1>28 DEF RecoverSettled, Goto
<1>29. CASE RollForward
  BY <1>29, ApplyType DEF RollForward, MustResume, Settle, Goto, Journals
<1>30. CASE RollForwardUnconfirmed
  BY <1>30, ApplyType, EmptyTableType, ActivationConstants
  DEF RollForwardUnconfirmed, MustResume, Loosen, Halt, Journals
<1>31. CASE RecoverRefused
  BY <1>31, EmptyTableType, ActivationConstants DEF RecoverRefused, Halt
<1>32. CASE DropJournal
  BY <1>32 DEF DropJournal, Settle, Begin, Present
<1>33. CASE DropUnconfirmed
  BY <1>33, EmptyTableType, ActivationConstants DEF DropUnconfirmed, Loosen, Halt
<1>34. CASE Stop
  BY <1>34, EmptyTableType, ActivationConstants DEF Stop, CutOff, Halt
<1>35. CASE PowerLoss
  BY <1>35, EmptyTableType, ActivationConstants DEF PowerLoss, Settle, Halt, DoubtSnapshots
<1>36. ASSUME NEW s \in Snapshots, Corrupt(s)
       PROVE  Shape'
  BY <1>36 DEF Corrupt, DoubtSnapshots
<1>37. CASE UNCHANGED vars
  BY <1>37 DEF vars
<1> HIDE DEF Shape
<1> QED
  BY <1>1, <1>2, <1>3, <1>4, <1>5, <1>6, <1>7, <1>8, <1>9, <1>10, <1>11, <1>12, <1>13, <1>14,
     <1>15, <1>16, <1>17, <1>18, <1>19, <1>20, <1>21, <1>22, <1>23, <1>24, <1>25, <1>26, <1>27,
     <1>28, <1>29, <1>30, <1>31, <1>32, <1>33, <1>34, <1>35, <1>36, <1>37
  DEF Next, Call, Work, Request, Open, Environment

\* Every state of every behaviour is well typed.
THEOREM TypeCorrect == Spec => []TypeOK
<1>1. Spec => []Shape
  BY ShapeInit, ShapeNext, PTL DEF Spec
<1> QED
  BY <1>1, PTL DEF Shape

-------------------------------------------------------------------------------
\* A mount is never served and withdrawn.  The write of a route table trusts the checks
\* made when the operation began, so the invariant carries them to the write.

Checked ==
  pc \in {"journal", "pointer", "store"} =>
    /\ job.op = "activate" => ~Withdrawn(table, job.mount)
    /\ job.op = "report" => HasMount(table, job.mount)
    /\ job.op = "withdraw" => job.tomb # NoTombstone
    /\ job.op \in {"activate", "reauthorize"} => job.cand \in Snapshots

Apart == Shape /\ Checked /\ ServedNotWithdrawn

\* An empty table serves nothing that is withdrawn.
LEMMA EmptyExclusive == Exclusive(EmptyTable)
BY DEF Exclusive, EmptyTable, HasMount, Withdrawn

\* An operation that applies keeps served and withdrawn mounts apart.
LEMMA ApplyExclusive ==
  ASSUME NEW j \in Jobs, NEW t \in Tables, Exclusive(t),
         j.op = "activate" => ~Withdrawn(t, j.mount),
         j.op = "report" => HasMount(t, j.mount)
  PROVE  Exclusive(Apply(j, t))
<1>1. CASE j.op = "activate"
  BY <1>1 DEF Exclusive, Apply, ActivateMount, HasMount, Withdrawn, Tables, Jobs
<1>2. CASE j.op = "withdraw"
  BY <1>2 DEF Exclusive, Apply, WithdrawMount, HasMount, Withdrawn, Tables, Jobs
<1>3. CASE j.op = "reauthorize"
  BY <1>3 DEF Exclusive, Apply, ReauthorizeMount, HasMount, Withdrawn, Tables, Jobs
<1>4. CASE j.op = "report"
  BY <1>4 DEF Exclusive, Apply, FallbackMount, HasMount, Withdrawn, Tables, Jobs
<1> QED
  BY <1>1, <1>2, <1>3, <1>4 DEF Jobs

\* A new store keeps served and withdrawn mounts apart.
LEMMA ApartInit == Init => Apart
BY ShapeInit, EmptyExclusive, Zenon DEF Init, Apart, Checked, ServedNotWithdrawn, Base

\* Every step keeps served and withdrawn mounts apart, in memory and in the files.
LEMMA ApartNext == Apart /\ [Next]_vars => Apart'
<1> SUFFICES ASSUME Apart, [Next]_vars PROVE (Checked /\ ServedNotWithdrawn)'
  BY ShapeNext DEF Apart
<1> USE DEF Apart, Checked, ServedNotWithdrawn, memory, files, store, control, restoring
<1>1. ASSUME NEW m \in Mounts, NEW c \in Snapshots, NEW old \in SnapshotOrNone,
             BeginActivate(m, c, old)
      PROVE  (Checked /\ ServedNotWithdrawn)'
  BY <1>1, Zenon DEF BeginActivate, Begin
<1>2. ASSUME NEW m \in Mounts, NEW st \in TombstoneStates, NEW old \in Snapshots,
             BeginWithdraw(m, st, old)
      PROVE  (Checked /\ ServedNotWithdrawn)'
  BY <1>2, RouteConstants, SMTT(30) DEF BeginWithdraw, Begin, Tombstones, HasMount, Shape, TypeOK, Tables,
     SnapshotOrNone
<1>3. ASSUME NEW m \in Mounts, NEW c \in Snapshots, BeginReauthorize(m, c)
      PROVE  (Checked /\ ServedNotWithdrawn)'
  BY <1>3, Zenon DEF BeginReauthorize, Begin
<1>4. ASSUME NEW m \in Mounts, BeginReport(m)
      PROVE  (Checked /\ ServedNotWithdrawn)'
  BY <1>4, ZenonT(60) DEF BeginReport, Begin
<1>5. CASE CheckCandidate
  BY <1>5 DEF CheckCandidate, Goto, Admissible, CheckMount, Shape, JobOK
<1>6. CASE WriteJournal
  BY <1>6 DEF WriteJournal, Settle, Loosen, Goto, Idle
<1>7. CASE WritePointer
  <2>1. Apply(job, table) \in Tables /\ Exclusive(Apply(job, table))
    BY <1>7, ApplyType, ApplyExclusive DEF WritePointer, Shape, JobOK, TypeOK, WithJob
  <2> QED
    BY <1>7, <2>1, ActivationConstants DEF WritePointer, Settle, Loosen, Goto, Idle, Base
<1>8. CASE StoreTable
  BY <1>8, ApplyExclusive, Zenon DEF StoreTable, Goto, Shape, JobOK, TypeOK, WithJob
<1>9. CASE PublishExisting \/ PublishNew \/ ConfirmNew \/ PublishOverBudget \/ EndCollect
           \/ ActivateUnchanged \/ RemoveJournal \/ Abort \/ BeginCollect
  BY <1>9, Zenon DEF PublishExisting, PublishNew, ConfirmNew, PublishOverBudget, EndCollect, ActivateUnchanged,
     RemoveJournal, Abort, BeginCollect, Goto, Idle, Begin, Settle, Loosen
<1>10. ASSUME NEW s \in Snapshots,
              CollectEntry(s) \/ QuarantineReported(s) \/ Release(s) \/ Corrupt(s)
       PROVE  (Checked /\ ServedNotWithdrawn)'
  BY <1>10, Zenon DEF CollectEntry, QuarantineReported, Release, Corrupt, Quarantine, Idle, Begin
<1>11. ASSUME NEW m \in Mounts, NEW s \in Snapshots, AdmitSnapshot(m, s)
       PROVE  (Checked /\ ServedNotWithdrawn)'
  BY <1>11, Zenon DEF AdmitSnapshot
<1>12. CASE Start
  BY <1>12, Zenon DEF Start, Exclusive, HasMount, Withdrawn, EmptyTable
<1>13. ASSUME NEW m \in Mounts, RestoreMount(m)
       PROVE  (Checked /\ ServedNotWithdrawn)'
  BY <1>13, SMTT(30) DEF RestoreMount, Exclusive, HasMount, Withdrawn, Shape, TypeOK, Tables
<1>14. ASSUME NEW m \in Mounts, RestoreRefused(m) \/ RestoreInterrupted(m)
       PROVE  (Checked /\ ServedNotWithdrawn)'
  BY <1>14, EmptyExclusive, Zenon DEF RestoreRefused, RestoreInterrupted, Halt
<1>15. CASE InstallRestored \/ InstallUnconfirmed
  BY <1>15, EmptyExclusive, ActivationConstants
  DEF InstallRestored, InstallUnconfirmed, Settle, Loosen, Goto, Halt, Base, Shape, TypeOK
<1>16. CASE RollForward \/ RollForwardUnconfirmed
  <2>1. journal \in Jobs
    BY <1>16 DEF RollForward, RollForwardUnconfirmed, MustResume, Shape, TypeOK, Journals
  <2>2. journal.op = "activate" => ~Withdrawn(table, journal.mount)
    BY <1>16 DEF RollForward, RollForwardUnconfirmed, Resumable, CheckMount
  <2>3. Apply(journal, table) \in Tables /\ Exclusive(Apply(journal, table))
    BY <1>16, <2>1, <2>2, ApplyType, ApplyExclusive, Zenon DEF RollForward, RollForwardUnconfirmed, MustResume, Shape, TypeOK, Journals
  <2> QED
    BY <1>16, <2>3, EmptyExclusive, ActivationConstants
    DEF RollForward, RollForwardUnconfirmed, Settle, Loosen, Goto, Halt, Base
<1>17. CASE RecoverNothing \/ RecoverSettled \/ RecoverRefused \/ DropJournal \/ DropUnconfirmed
            \/ Stop \/ PowerLoss
  BY <1>17, EmptyExclusive DEF RecoverNothing, RecoverSettled, RecoverRefused, DropJournal,
     DropUnconfirmed, Stop, PowerLoss, Settle, Loosen, Goto, Begin, Halt
<1>18. CASE UNCHANGED vars
  BY <1>18 DEF vars
<1> HIDE DEF Checked, ServedNotWithdrawn
<1> QED
  BY <1>1, <1>2, <1>3, <1>4, <1>5, <1>6, <1>7, <1>8, <1>9, <1>10, <1>11, <1>12, <1>13, <1>14,
     <1>15, <1>16, <1>17, <1>18
  DEF Next, Call, Work, Request, Open, Environment

\* No running process, no table under reconstruction and no route table that a power loss
\* may leave on disk serves a withdrawn mount.
THEOREM NeverServedWithdrawn == Spec => []ServedNotWithdrawn
<1>1. Spec => []Apart
  BY ApartInit, ApartNext, PTL DEF Spec
<1> QED
  BY <1>1, PTL DEF Apart

-------------------------------------------------------------------------------
\* While the process serves, a tombstone disappears only when Reauthorize stores its table.
THEOREM RevivedByReauthorize == Spec => OnlyReauthorizeRevives
<1> DEFINE Revival ==
      \A m \in Mounts :
        pc \in Serving /\ pc' \in Serving /\ Withdrawn(table, m) /\ ~Withdrawn(table', m)
          => job # NoJob /\ job.op = "reauthorize" /\ job.mount = m /\ HasMount(table', m)
<1>1. Apart /\ [Next]_vars => [Revival]_vars
  <2> SUFFICES ASSUME Apart, Next, pc \in Serving, pc' \in Serving, table' # table
               PROVE  Revival
    BY SMTT(30) DEF vars
  <2>1. StoreTable
    BY Zenon DEF Next, Call, Work, Request, Open, Environment, BeginActivate, BeginWithdraw,
       BeginReauthorize, BeginReport, BeginCollect, PublishExisting, PublishNew, ConfirmNew,
       PublishOverBudget, CollectEntry, EndCollect, CheckCandidate, ActivateUnchanged,
       WriteJournal, WritePointer, RemoveJournal, QuarantineReported, Abort, AdmitSnapshot,
       Release, Start, RestoreMount, RestoreRefused, RestoreInterrupted, InstallRestored,
       InstallUnconfirmed, RecoverNothing, RecoverSettled, RollForward, RollForwardUnconfirmed,
       RecoverRefused, DropJournal, DropUnconfirmed, Stop, PowerLoss, Corrupt, memory, Halt,
       Stopped, Serving
  <2>2. job \in Jobs /\ table \in Tables
    BY <2>1 DEF StoreTable, Apart, Shape, JobOK, WithJob, TypeOK
  <2>3. CASE job.op = "reauthorize"
    BY <2>1, <2>2, <2>3, RouteConstants, NoJobAssumption
    DEF StoreTable, Apply, ReauthorizeMount, HasMount, Withdrawn, Tables, Jobs, Apart, Checked
  <2>4. CASE job.op \in {"activate", "report"}
    BY <2>1, <2>2, <2>4 DEF StoreTable, Apply, ActivateMount, FallbackMount, Withdrawn
  <2>5. CASE job.op = "withdraw"
    BY <2>1, <2>2, <2>5
    DEF StoreTable, Apply, WithdrawMount, Withdrawn, Tables, Jobs, Apart, Checked
  <2> QED
    BY <2>2, <2>3, <2>4, <2>5 DEF Jobs
<1>2. Spec => []Apart
  BY ApartInit, ApartNext, PTL DEF Spec
<1> QED
  BY <1>1, <1>2, PTL DEF Spec, OnlyReauthorizeRevives
-------------------------------------------------------------------------------
\* Garbage collection.  A directory goes only when the running table does not retain it and
\* no request holds it; but a candidate is in no table until its operation stores one, and
\* the table recovery builds is not the running one, so the invariant follows both.

Kept(s) == dir[s] # "absent" \/ s \in quarantined

Held ==
  /\ \A s \in Snapshots : refs[s] > 0 => Kept(s)
  /\ \A s \in Snapshots \cap (Retained(table) \cup Retained(rebuilt)) : Kept(s)
  /\ pc \in {"journal", "pointer", "store"} /\ job.op \in {"activate", "reauthorize"} =>
       Kept(job.cand)
  /\ pc # "restore" => rebuilt = EmptyTable

\* An operation adds at most its candidate to the snapshots a table retains.
LEMMA ApplyRetained ==
  ASSUME NEW j \in Jobs, NEW t \in Tables, NEW s \in Snapshots, s \in Retained(Apply(j, t))
  PROVE  s \in Retained(t) \/ (j.op \in {"activate", "reauthorize"} /\ s = j.cand)
<1>1. CASE j.op = "activate"
  BY <1>1 DEF Apply, ActivateMount, Retained, Tables, Jobs
<1>2. CASE j.op = "withdraw"
  BY <1>2, RouteConstants DEF Apply, WithdrawMount, Retained, Tables, Jobs
<1>3. CASE j.op = "reauthorize"
  BY <1>3, RouteConstants DEF Apply, ReauthorizeMount, Retained, Tables, Jobs
<1>4. CASE j.op = "report"
  BY <1>4, RouteConstants DEF Apply, FallbackMount, Retained, Tables, Jobs
<1> QED
  BY <1>1, <1>2, <1>3, <1>4 DEF Jobs

\* An empty table retains nothing.
LEMMA EmptyRetained == Retained(EmptyTable) \cap Snapshots = {}
BY RouteConstants DEF Retained, EmptyTable

\* Moving directories to quarantine loses none.
LEMMA QuarantineKeeps ==
  ASSUME Shape, NEW S, Quarantine(S), NEW s \in Snapshots, Kept(s)
  PROVE  Kept(s)'
BY Zenon DEF Quarantine, QuarantineBlocked, Present, Kept, Shape, TypeOK

\* A new store holds nothing.
LEMMA HeldInit == Init => Held
BY EmptyRetained, SMTT(30) DEF Init, Held

\* Every step keeps the directories that a request, a mount or the running operation needs.
LEMMA HeldNext == Shape /\ Held /\ [Next]_vars => Held'
<1> SUFFICES ASSUME Shape, Held, [Next]_vars PROVE Held'
  BY SMTT(30)
<1> USE DEF Held, memory, files, store, control, restoring
<1>1. ASSUME NEW m \in Mounts, NEW c \in Snapshots, NEW old \in SnapshotOrNone,
             BeginActivate(m, c, old)
      PROVE  Held'
  BY <1>1, Zenon DEF BeginActivate, CanBegin, Begin, Kept
<1>2. ASSUME NEW m \in Mounts, NEW st \in TombstoneStates, NEW old \in Snapshots,
             BeginWithdraw(m, st, old)
      PROVE  Held'
  BY <1>2, Zenon DEF BeginWithdraw, CanBegin, Begin, Kept
<1>3. ASSUME NEW m \in Mounts, NEW c \in Snapshots, BeginReauthorize(m, c)
      PROVE  Held'
  BY <1>3, ZenonT(60) DEF BeginReauthorize, CanBegin, Begin, Kept
<1>4. ASSUME NEW m \in Mounts, BeginReport(m)
      PROVE  Held'
  <2>1. /\ pc = "idle" /\ pc' = "pointer" /\ job'.op = "report"
        /\ UNCHANGED <<table, rebuilt, refs, dir, quarantined>>
    <3> HIDE DEF Held
    <3> QED BY <1>4, SMTT(30) DEF BeginReport, CanBegin, Begin
  <2> QED
    BY <2>1, SMTT(30) DEF Kept
<1>5. CASE PublishNew \/ ConfirmNew
  BY <1>5, Zenon DEF PublishNew, ConfirmNew, Goto, Idle, Kept, Shape, TypeOK
<1>6. CASE CheckCandidate
  <2>1. /\ Kept(job.cand) /\ job' = job /\ pc = "check" /\ pc' = "journal"
        /\ UNCHANGED <<table, rebuilt, refs, dir, quarantined>>
    BY <1>6, Zenon DEF CheckCandidate, Admissible, Goto, Kept
  <2> QED
    BY <2>1, Zenon DEF Kept
<1>7. CASE PublishExisting \/ PublishOverBudget \/ EndCollect \/ ActivateUnchanged \/ Abort
           \/ BeginCollect \/ WriteJournal \/ WritePointer \/ RemoveJournal
  BY <1>7, Zenon DEF PublishExisting, PublishOverBudget, EndCollect, ActivateUnchanged, Abort,
     BeginCollect, WriteJournal, WritePointer, RemoveJournal, CanBegin, Goto, Idle,
     Begin, Kept, Serving
<1>8. CASE StoreTable
  <2>1. job \in Jobs /\ table \in Tables
    BY <1>8, SMTT(30) DEF StoreTable, Shape, JobOK, WithJob, TypeOK
  <2>2. ASSUME NEW s \in Snapshots, s \in Retained(Apply(job, table)) PROVE Kept(s)
    BY <1>8, <2>1, <2>2, ApplyRetained, Zenon DEF StoreTable
  <2> QED
    BY <1>8, <2>2, Zenon DEF StoreTable, Goto, Kept
<1>9. ASSUME NEW s \in Snapshots, CollectEntry(s)
      PROVE  Held'
  <2>1. rebuilt = EmptyTable
    BY <1>9, Zenon DEF CollectEntry
  <2>2. ASSUME NEW x \in Snapshots, x # s \/ ~Collectable(s), Kept(x) PROVE Kept(x)'
    BY <1>9, <2>2, Zenon DEF CollectEntry, Kept, Shape, TypeOK
  <2> QED
    BY <1>9, <2>1, <2>2, EmptyRetained, SMTT(30) DEF CollectEntry, Collectable, Shape, TypeOK
<1>10. ASSUME NEW s \in Snapshots, QuarantineReported(s)
       PROVE  Held'
  <2>1. ASSUME NEW x \in Snapshots, Kept(x) PROVE Kept(x)'
    BY <1>10, <2>1, QuarantineKeeps, SMTT(30) DEF QuarantineReported
  <2> QED
    BY <1>10, <2>1, Zenon DEF QuarantineReported, Idle, Begin
<1>11. ASSUME NEW s \in Snapshots, Corrupt(s)
       PROVE  Held'
  BY <1>11, SMTT(30) DEF Corrupt, Kept, Shape, TypeOK
<1>12. ASSUME NEW m \in Mounts, NEW s \in Snapshots, AdmitSnapshot(m, s)
       PROVE  Held'
  BY <1>12, SMTT(30) DEF AdmitSnapshot, Retained, Kept, Shape, TypeOK
<1>13. ASSUME NEW s \in Snapshots, Release(s)
       PROVE  Held'
  BY <1>13, ActivationConstants, SMTT(30) DEF Release, Kept, Shape, TypeOK
<1>14. CASE Start
  BY <1>14, EmptyRetained, Zenon DEF Start, Retained, Kept, EmptyTable, Stopped, Opening
<1>15. ASSUME NEW m \in Mounts, RestoreMount(m)
       PROVE  Held'
  <2>1. ASSUME NEW x \in Snapshots, Kept(x) PROVE Kept(x)'
    BY <1>15, <2>1, QuarantineKeeps DEF RestoreMount
  <2>2. Durable \in Tables
    BY EmptyTableType, SMTT(30) DEF Durable, Base, Shape, TypeOK
  <2>3. ASSUME NEW x \in Snapshots, x \in {RestoredActive(m), RestoredPrev(m)} PROVE Kept(x)
    BY <1>15, <2>2, <2>3, RouteConstants, Zenon DEF RestoredActive, RestoredPrev, Spoiled, Kept
  <2>4. ASSUME NEW x \in Snapshots, x \in Retained(rebuilt') PROVE Kept(x)
    BY <1>15, <2>3, <2>4, ZenonT(60) DEF RestoreMount, Retained, Shape, TypeOK, Tables
  <2> QED
    BY <1>15, <2>1, <2>4, Zenon DEF RestoreMount
<1>16. ASSUME NEW m \in Mounts, RestoreRefused(m) \/ RestoreInterrupted(m)
       PROVE  Held'
  <2>1. /\ table' = EmptyTable /\ rebuilt' = EmptyTable /\ refs' = [s \in Snapshots |-> 0]
        /\ pc' \in Stopped
    <3> HIDE DEF Held
    <3> QED BY <1>16, Zenon DEF RestoreRefused, RestoreInterrupted, Halt, Stopped
  <2> QED BY <2>1, EmptyRetained, SMTT(30) DEF Stopped
<1>17. CASE InstallRestored
  BY <1>17, EmptyRetained, Zenon DEF InstallRestored, Goto, Kept
<1>18. CASE InstallUnconfirmed \/ RollForwardUnconfirmed \/ RecoverRefused \/ DropUnconfirmed
            \/ Stop \/ PowerLoss
  <2>1. /\ table' = EmptyTable /\ rebuilt' = EmptyTable /\ refs' = [s \in Snapshots |-> 0]
        /\ pc' \in Stopped
    <3> HIDE DEF Held
    <3> QED BY <1>18, Zenon DEF InstallUnconfirmed, RollForwardUnconfirmed, RecoverRefused,
               DropUnconfirmed, Stop, PowerLoss, Halt, Stopped
  <2> QED BY <2>1, EmptyRetained, SMTT(30) DEF Stopped
<1>19. CASE RollForward
  <2>1. journal \in Jobs /\ table \in Tables /\ journal.op \in {"activate", "withdraw", "reauthorize"}
    BY <1>19 DEF RollForward, MustResume, Shape, TypeOK, Journals, Jobs
  <2>2. journal.op \in {"activate", "reauthorize"} => Kept(journal.cand)
    BY <1>19, <2>1, Zenon DEF RollForward, Resumable, Kept
  <2>3. ASSUME NEW s \in Snapshots, s \in Retained(Apply(journal, table)) PROVE Kept(s)
    BY <2>1, <2>2, <2>3, ApplyRetained, Zenon
  <2> QED
    BY <1>19, <2>3, Zenon DEF RollForward, Goto, Kept
<1>20. CASE RecoverNothing \/ RecoverSettled \/ DropJournal
  BY <1>20, Zenon DEF RecoverNothing, RecoverSettled, DropJournal, Begin, Goto, Kept
<1>21. CASE UNCHANGED vars
  BY <1>21, Zenon DEF vars, Kept
<1> HIDE DEF Held
<1> QED
  BY <1>1, <1>2, <1>3, <1>4, <1>5, <1>6, <1>7, <1>8, <1>9, <1>10, <1>11, <1>12, <1>13, <1>14,
     <1>15, <1>16, <1>17, <1>18, <1>19, <1>20, <1>21
  DEF Next, Call, Work, Request, Open, Environment

\* No snapshot that a request holds or a mount can be served from is lost to garbage
\* collection, whatever fsync fails and however often recovery is interrupted: only
\* quarantine takes it.
THEOREM NeverCollected == Spec => []NothingServedIsCollected
<1>1. Spec => [](Shape /\ Held)
  BY ShapeInit, ShapeNext, HeldInit, HeldNext, PTL DEF Spec
<1>2. Held => NothingServedIsCollected
  BY DEF Held, Kept, NothingServedIsCollected
<1> QED
  BY <1>1, <1>2, PTL
-------------------------------------------------------------------------------
\* Rollback targets.  The candidate of an activation is compared with the active snapshot
\* before the journal is written, so the invariant carries the comparison to the write.

RollsBack(t) ==
  \A m \in Mounts :
    t.prev[m] # NoSnapshot =>
      /\ t.prev[m] # t.active[m]
      /\ HasMount(t, m)
      /\ CatalogOf[t.prev[m]] = CatalogOf[t.active[m]]

Succeeds ==
  pc \in {"journal", "pointer", "store"} /\ job.op = "activate" =>
    /\ job.cand # table.active[job.mount]
    /\ HasMount(table, job.mount) => CatalogOf[table.active[job.mount]] = CatalogOf[job.cand]

Named ==
  \A j \in JournalSurvivors :
    j # NoJob /\ j.op \in {"activate", "reauthorize"} => j.cand \in Snapshots

Rollback ==
  /\ RollsBack(table) /\ RollsBack(rebuilt)
  /\ \A r \in {routes} \cup routesOld : RollsBack(Base(r))
  /\ Succeeds /\ Named

\* An empty table has no rollback target.
LEMMA EmptyRollsBack == RollsBack(EmptyTable)
BY Zenon DEF RollsBack, EmptyTable

\* An operation whose candidate is another snapshot of the catalog keeps the rollback
\* targets right.
LEMMA ApplyRollsBack ==
  ASSUME NEW j \in Jobs, NEW t \in Tables, RollsBack(t),
         j.op = "activate" =>
           /\ j.cand \in Snapshots
           /\ j.cand # t.active[j.mount]
           /\ HasMount(t, j.mount) => CatalogOf[t.active[j.mount]] = CatalogOf[j.cand]
  PROVE  RollsBack(Apply(j, t))
<1>1. CASE j.op = "activate"
  BY <1>1, RouteConstants DEF RollsBack, Apply, ActivateMount, HasMount, Tables, Jobs
<1>2. CASE j.op = "withdraw"
  BY <1>2 DEF RollsBack, Apply, WithdrawMount, HasMount, Tables, Jobs
<1>3. CASE j.op = "reauthorize"
  BY <1>3 DEF RollsBack, Apply, ReauthorizeMount, HasMount, Tables, Jobs
<1>4. CASE j.op = "report"
  BY <1>4, Zenon DEF RollsBack, Apply, FallbackMount, HasMount, Tables, Jobs
<1> QED
  BY <1>1, <1>2, <1>3, <1>4 DEF Jobs

\* A table stays right when one mount is given a right pair of snapshots.
LEMMA PutRollsBack ==
  ASSUME NEW t \in Tables, RollsBack(t), NEW m \in Mounts, NEW a, NEW p,
         p # NoSnapshot => p # a /\ a # NoSnapshot /\ CatalogOf[p] = CatalogOf[a],
         NEW u, u = [active |-> [t.active EXCEPT ![m] = a], prev |-> [t.prev EXCEPT ![m] = p],
                     tomb |-> t.tomb]
  PROVE  RollsBack(u)
BY Zenon DEF RollsBack, HasMount, Tables

\* A new store has no rollback target.
LEMMA RollbackInit == Init => Rollback
BY EmptyRollsBack, Zenon DEF Init, Rollback, Succeeds, Named, JournalSurvivors, Base

\* Every step keeps the rollback targets right, in memory and in the files.
LEMMA RollbackNext == Apart /\ Rollback /\ [Next]_vars => Rollback'
<1> SUFFICES ASSUME Apart, Rollback, [Next]_vars PROVE Rollback'
  OBVIOUS
<1> USE DEF Rollback, Succeeds, Named, JournalSurvivors, memory, files, store, control, restoring
<1>1. ASSUME NEW m \in Mounts, NEW c \in Snapshots, NEW old \in SnapshotOrNone,
             BeginActivate(m, c, old)
      PROVE  Rollback'
  BY <1>1, Zenon DEF BeginActivate, Begin
<1>2. ASSUME NEW m \in Mounts, NEW st \in TombstoneStates, NEW old \in Snapshots,
             BeginWithdraw(m, st, old)
      PROVE  Rollback'
  BY <1>2, Zenon DEF BeginWithdraw, Begin
<1>3. ASSUME NEW m \in Mounts, NEW c \in Snapshots, BeginReauthorize(m, c)
      PROVE  Rollback'
  BY <1>3, Zenon DEF BeginReauthorize, Begin
<1>4. ASSUME NEW m \in Mounts, BeginReport(m)
      PROVE  Rollback'
  BY <1>4, Zenon DEF BeginReport, Begin
<1>5. CASE CheckCandidate
  BY <1>5, Zenon DEF CheckCandidate, Admissible, Goto
<1>6. CASE WriteJournal
  BY <1>6, Zenon DEF WriteJournal, Settle, Loosen, Goto, Idle, Apart, Checked
<1>7. CASE WritePointer
  <2>1. job \in Jobs /\ table \in Tables /\ (job.op = "activate" => job.cand \in Snapshots)
    BY <1>7, Zenon DEF WritePointer, Apart, Checked, Shape, JobOK, WithJob, TypeOK
  <2>2. Apply(job, table) \in Tables /\ RollsBack(Apply(job, table))
    BY <1>7, <2>1, ApplyType, ApplyRollsBack, Zenon DEF WritePointer
  <2> QED
    BY <1>7, <2>2, ActivationConstants, Zenon DEF WritePointer, Settle, Loosen, Goto, Idle, Base
<1>8. CASE StoreTable
  <2>1. job \in Jobs /\ table \in Tables /\ (job.op = "activate" => job.cand \in Snapshots)
    BY <1>8, Zenon DEF StoreTable, Apart, Checked, Shape, JobOK, WithJob, TypeOK
  <2>2. RollsBack(Apply(job, table))
    BY <1>8, <2>1, ApplyRollsBack, Zenon DEF StoreTable
  <2> QED
    BY <1>8, <2>2, Zenon DEF StoreTable, Goto
<1>9. CASE PublishExisting \/ PublishNew \/ ConfirmNew \/ PublishOverBudget \/ EndCollect
           \/ ActivateUnchanged \/ RemoveJournal \/ Abort \/ BeginCollect
  BY <1>9, Zenon DEF PublishExisting, PublishNew, ConfirmNew, PublishOverBudget, EndCollect, ActivateUnchanged,
     RemoveJournal, Abort, BeginCollect, Goto, Idle, Begin, Settle, Loosen
<1>10. ASSUME NEW s \in Snapshots,
              CollectEntry(s) \/ QuarantineReported(s) \/ Release(s) \/ Corrupt(s)
       PROVE  Rollback'
  BY <1>10, Zenon DEF CollectEntry, QuarantineReported, Release, Corrupt, Quarantine, Idle, Begin
<1>11. ASSUME NEW m \in Mounts, NEW s \in Snapshots, AdmitSnapshot(m, s)
       PROVE  Rollback'
  BY <1>11, Zenon DEF AdmitSnapshot
<1>12. CASE Start
  BY <1>12, Zenon DEF Start, RollsBack, EmptyTable
<1>13. ASSUME NEW m \in Mounts, RestoreMount(m)
       PROVE  Rollback'
  <2>1. Durable \in Tables /\ RollsBack(Durable)
    BY EmptyTableType, Zenon DEF Durable, Base, Apart, Shape, TypeOK
  <2>2. RestoredPrev(m) # NoSnapshot =>
          RestoredPrev(m) = Durable.prev[m] /\ RestoredActive(m) = Durable.active[m]
    BY Zenon DEF RestoredPrev, RestoredActive
  <2>3. /\ rebuilt \in Tables /\ RollsBack(rebuilt)
        /\ rebuilt' = [active |-> [rebuilt.active EXCEPT ![m] = RestoredActive(m)],
                       prev |-> [rebuilt.prev EXCEPT ![m] = RestoredPrev(m)],
                       tomb |-> rebuilt.tomb]
    BY <1>13, Zenon DEF RestoreMount, Apart, Shape, TypeOK
  <2>4. RestoredPrev(m) # NoSnapshot =>
          /\ RestoredPrev(m) # RestoredActive(m) /\ RestoredActive(m) # NoSnapshot
          /\ CatalogOf[RestoredPrev(m)] = CatalogOf[RestoredActive(m)]
    BY <2>1, <2>2 DEF RollsBack, HasMount
  <2>5. RollsBack(rebuilt')
    BY <2>3, <2>4, PutRollsBack, Zenon
  <2> QED
    BY <1>13, <2>5, Zenon DEF RestoreMount
<1>14. ASSUME NEW m \in Mounts, RestoreRefused(m) \/ RestoreInterrupted(m)
       PROVE  Rollback'
  BY <1>14, EmptyRollsBack, Zenon DEF RestoreRefused, RestoreInterrupted, Halt
<1>15. CASE InstallRestored \/ InstallUnconfirmed
  <2>1. Base(rebuilt) = rebuilt
    BY ActivationConstants, Zenon DEF Base, Apart, Shape, TypeOK
  <2>2. /\ table' \in {rebuilt, EmptyTable} /\ rebuilt' = EmptyTable
        /\ {routes'} \cup routesOld' \subseteq {routes, rebuilt} \cup routesOld
        /\ {journal'} \cup journalOld' \subseteq {journal} \cup journalOld
        /\ pc' \in {"recover", "down"}
    BY <1>15, SMTT(30) DEF InstallRestored, InstallUnconfirmed, Settle, Loosen, Goto, Halt
  <2> QED
    BY <2>1, <2>2, EmptyRollsBack, Zenon
<1>16. CASE RollForward \/ RollForwardUnconfirmed
  <2>1. journal \in Jobs /\ table \in Tables
    BY <1>16, Zenon DEF RollForward, RollForwardUnconfirmed, MustResume, Apart, Shape, TypeOK, Journals
  <2>2. journal.op = "activate" =>
          /\ journal.cand \in Snapshots
          /\ journal.cand # table.active[journal.mount]
          /\ HasMount(table, journal.mount) =>
               CatalogOf[table.active[journal.mount]] = CatalogOf[journal.cand]
    BY <1>16 DEF RollForward, RollForwardUnconfirmed, MustResume, Completed, Resumable
  <2>3. Apply(journal, table) \in Tables /\ RollsBack(Apply(journal, table))
    BY <2>1, <2>2, ApplyType, ApplyRollsBack, Zenon
  <2> QED
    BY <1>16, <2>3, EmptyRollsBack, ActivationConstants
    DEF RollForward, RollForwardUnconfirmed, Settle, Loosen, Goto, Halt, Base
<1>17. CASE RecoverNothing \/ RecoverSettled \/ RecoverRefused \/ DropJournal \/ DropUnconfirmed
            \/ Stop \/ PowerLoss
  BY <1>17, EmptyRollsBack, Zenon DEF RecoverNothing, RecoverSettled, RecoverRefused, DropJournal,
     DropUnconfirmed, Stop, PowerLoss, Settle, Loosen, Goto, Begin, Halt
<1>18. CASE UNCHANGED vars
  BY <1>18, Zenon DEF vars
<1> HIDE DEF Rollback
<1> QED
  BY <1>1, <1>2, <1>3, <1>4, <1>5, <1>6, <1>7, <1>8, <1>9, <1>10, <1>11, <1>12, <1>13, <1>14,
     <1>15, <1>16, <1>17, <1>18
 , Zenon DEF Next, Call, Work, Request, Open, Environment

\* The previous snapshot of a mount is another snapshot of the catalog that is being served,
\* in memory and in every route table a power loss may leave.
THEOREM AlwaysRollback == Spec => []PreviousIsRollback
<1>1. Spec => [](Apart /\ Rollback)
  BY ApartInit, ApartNext, RollbackInit, RollbackNext, PTL DEF Spec
<1>2. Rollback => PreviousIsRollback
  BY DEF Rollback, RollsBack, PreviousIsRollback, RouteSurvivors
<1> QED
  BY <1>1, <1>2, PTL

-------------------------------------------------------------------------------
\* Recovery from a journal

\* Recovery leaves the table as it is.
Inert(j, t) ==
  \/ j = NoJob
  \/ Completed(j, t)
  \/ j.op # "withdraw" /\ Stale(j, t)

\* A transition is completed by the table that applies it.
LEMMA ApplyCompletes ==
  ASSUME NEW j \in Journals, NEW t \in Tables
  PROVE  Completed(j, Apply(j, t))
<1>1. CASE j.op = "activate"
  BY <1>1 DEF Completed, Apply, ActivateMount, Tables, Jobs, Journals
<1>2. CASE j.op = "withdraw"
  BY <1>2 DEF Completed, Apply, WithdrawMount, HasMount, Tables, Jobs, Journals
<1>3. CASE j.op = "reauthorize"
  BY <1>3 DEF Completed, Apply, ReauthorizeMount, Tables, Jobs, Journals
<1> QED
  BY <1>1, <1>2, <1>3 DEF Journals, Jobs

\* An inert journal is no transition: recovery returns the table.
LEMMA InertRecovered ==
  ASSUME NEW j \in Journals \cup {NoJob}, NEW t \in Tables, RollsBack(t), Inert(j, t)
  PROVE  Recovered(t, j) = t
<1>1. CASE j # NoJob /\ j.op = "withdraw"
  <2>1. /\ j.mount \in Mounts
        /\ t.active[j.mount] = NoSnapshot /\ t.prev[j.mount] = NoSnapshot
        /\ t.tomb[j.mount] = j.tomb
    BY <1>1 DEF Inert, Completed, HasMount, RollsBack, Journals, Jobs
  <2>2. WithdrawMount(t, j.mount, j.tomb) = t
    BY <2>1 DEF WithdrawMount, Tables
  <2> QED
    BY <1>1, <2>2 DEF Recovered
<1>2. CASE ~(j # NoJob /\ j.op = "withdraw")
  BY <1>2 DEF Inert, Recovered
<1> QED
  BY <1>1, <1>2

\* Recovery returns the table, or the table after the journaled transition.
LEMMA RecoveredEither ==
  ASSUME NEW j \in Journals, NEW t \in Tables
  PROVE  Recovered(t, j) \in {t, Apply(j, t)}
BY NoJobAssumption DEF Recovered, Apply, Journals, Jobs

\* A transition that is in the table is not applied a second time.
LEMMA ApplyTwice ==
  ASSUME NEW j \in Journals, NEW t \in Tables
  PROVE  Recovered(Apply(j, t), j) = Apply(j, t)
<1>1. CASE j.op = "withdraw"
  <2> DEFINE u == WithdrawMount(t, j.mount, j.tomb)
  <2>1. u \in Tables /\ j.mount \in Mounts /\ u.active[j.mount] = NoSnapshot
        /\ u.prev[j.mount] = NoSnapshot /\ u.tomb[j.mount] = j.tomb
    BY <1>1, WithdrawMountType DEF WithdrawMount, Tables, Jobs, Journals
  <2>2. WithdrawMount(u, j.mount, j.tomb) = u
    <3> HIDE DEF u
    <3> QED BY <2>1 DEF WithdrawMount, Tables
  <2>3. Apply(j, t) = u
    BY <1>1 DEF Apply
  <2> QED
    BY <1>1, <2>2, <2>3, NoJobAssumption DEF Recovered, Journals
<1>2. CASE j.op # "withdraw"
  BY <1>2, ApplyCompletes, NoJobAssumption DEF Recovered, Journals
<1> QED
  BY <1>1, <1>2
-------------------------------------------------------------------------------
\* What the two files say, by where the coordinator stands.

\* A route table that may come back misses exactly the journaled transition, and a journal
\* that may come back is inert; the two are never in doubt together.
Recoverable ==
  /\ routesOld # {} => journal # NoJob /\ journalOld = {}
  /\ \A r \in routesOld : Durable = Apply(journal, Base(r))
  /\ \A j \in journalOld : Inert(j, Durable)

Clean == routesOld = {} /\ journalOld = {}

\* Where the running operation has not touched the routes, and where no journal is pending.
Untouched ==
  \/ pc \in {"idle", "publish", "confirm", "collect", "retry", "check", "journal", "openGC"}
  \/ pc = "pointer" /\ job.op = "report"

Unjournaled ==
  \/ pc \in {"publish", "confirm", "retry", "check", "journal", "openGC", "quarantine"}
  \/ pc = "collect" /\ job # NoJob
  \/ pc \in {"pointer", "store"} /\ job.op = "report"

Standing ==
  /\ Unjournaled => journal = NoJob
  /\ Untouched => IF routesOld = {} THEN Durable = table ELSE \A r \in routesOld : Base(r) = table
  /\ pc = "pointer" /\ job.op # "report" => journal = job /\ Clean /\ Durable = table
  /\ pc = "store" => Clean /\ Durable = Apply(job, table) /\ (job.op # "report" => journal = job)
  /\ pc = "remove" => Clean /\ Durable = table /\ journal = job /\ Completed(job, table)
  /\ pc = "quarantine" => Clean /\ Durable = table /\ job.op = "report"
  /\ pc \in {"recover", "drop"} => Durable = table

\* Until restoreDurableRoutes departs from the routes, it copies them.
Copying ==
  pc = "restore" /\ repaired = {} =>
    /\ Protected = {}
    /\ \A m \in Mounts :
         /\ rebuilt.tomb[m] = Durable.tomb[m]
         /\ m \notin todo => rebuilt.active[m] = Durable.active[m] /\ rebuilt.prev[m] = Durable.prev[m]

Whole == Recoverable /\ Standing /\ Copying

\* A table on disk is what the file says.
LEMMA BaseTable ==
  ASSUME NEW t \in Tables
  PROVE  Base(t) = t
BY ActivationConstants DEF Base

\* Tables that agree on every mount are the same.
LEMMA SameTable ==
  ASSUME NEW t \in Tables, NEW u \in Tables,
         \A m \in Mounts : t.active[m] = u.active[m] /\ t.prev[m] = u.prev[m] /\ t.tomb[m] = u.tomb[m]
  PROVE  t = u
<1>1. t.active = u.active /\ t.prev = u.prev /\ t.tomb = u.tomb
  BY SMTT(30) DEF Tables
<1> QED
  BY <1>1 DEF Tables

\* A new store is whole.
LEMMA WholeInit == Init => Whole
BY DEF Init, Whole, Recoverable, Standing, Copying, Untouched, Unjournaled

\* A step that touches neither the tables, the files nor the place of the coordinator.
LEMMA WholeStays ==
  ASSUME Whole, UNCHANGED <<table, routes, routesOld, journal, journalOld, pc, job, todo, rebuilt, repaired>>
  PROVE  Whole'
BY Zenon DEF Whole, Recoverable, Standing, Copying, Untouched, Unjournaled, Clean, Durable, Protected

\* The process stops, and the files stay as they are.
LEMMA WholeStops ==
  ASSUME Whole, UNCHANGED files, pc' \in Stopped
  PROVE  Whole'
<1>1. Recoverable'
  BY Zenon DEF Whole, Recoverable, Durable, files
<1>2. Standing' /\ Copying'
  BY Zenon DEF Standing, Copying, Untouched, Unjournaled, Stopped
<1> QED BY <1>1, <1>2, Zenon DEF Whole

\* The process stops, and what is on disk is settled.
LEMMA WholeSettles ==
  ASSUME routesOld' = {}, journalOld' = {}, pc' \in Stopped
  PROVE  Whole'
<1>1. Recoverable'
  BY Zenon DEF Recoverable
<1>2. Standing' /\ Copying'
  BY Zenon DEF Standing, Copying, Untouched, Unjournaled, Stopped
<1> QED BY <1>1, <1>2, Zenon DEF Whole

\* Recovery has installed the routes and looks at the journal.
LEMMA WholeRestored ==
  ASSUME Whole, pc' = "recover", table' = Durable',
         (UNCHANGED files) \/ (routesOld' = {} /\ journalOld' = {})
  PROVE  Whole'
<1>1. Recoverable'
  BY Zenon DEF Whole, Recoverable, Durable, files
<1>2. Standing' /\ Copying'
  BY Zenon DEF Standing, Copying, Untouched, Unjournaled
<1> QED BY <1>1, <1>2, Zenon DEF Whole

\* Recovery goes on to drop the journal, or is done with it.
LEMMA WholeRecovers ==
  ASSUME Whole, pc \in {"recover", "drop"}, UNCHANGED <<table, routes>>,
         \/ pc' = "drop" /\ UNCHANGED files
         \/ /\ pc' = "openGC" /\ journal' = NoJob
            /\ \/ journal = NoJob /\ UNCHANGED files
               \/ routesOld' = {} /\ journalOld' = {}
  PROVE  Whole'
<1>1. Durable' = Durable /\ Durable = table
  BY Zenon DEF Whole, Standing, Durable
<1>2. Recoverable' /\ (pc' = "openGC" => routesOld' = {})
  BY Zenon DEF Whole, Recoverable, Durable, files
<1>3. Standing' /\ Copying'
  BY <1>1, <1>2, Zenon DEF Standing, Copying, Untouched, Unjournaled
<1> QED BY <1>2, <1>3, Zenon DEF Whole

\* Every step keeps the files recoverable when the writes without a journal are confirmed.
LEMMA WholeNext ==
  ASSUME Unconfirmed \subseteq {"publish"}, Apart, Rollback, Whole, [Next]_vars
  PROVE  Whole'
<1> USE DEF Whole, Recoverable, Standing, Copying, Untouched, Unjournaled, Clean, Durable,
            memory, files, store, control, restoring
<1>t. /\ table \in Tables /\ (pc \in WithJob => job \in Jobs) /\ job \in Jobs \cup {NoJob}
      /\ journal \in Journals \cup {NoJob} /\ routes \in Tables \cup {NoRoutes}
      /\ Durable \in Tables /\ (pc \in {"journal", "remove"} => job \in Journals)
  <2> HIDE DEF Whole, Durable
  <2>1. /\ TypeOK /\ (pc \in WithJob => job \in Jobs)
        /\ (pc \in {"journal", "remove"} => job \in Jobs /\ job.op # "report")
    BY Zenon DEF Apart, Shape, JobOK, WithJob
  <2>2. Durable \in Tables
    BY <2>1, EmptyTableType, Zenon DEF TypeOK, Durable, Base
  <2> QED BY <2>1, <2>2, Zenon DEF TypeOK, Journals
<1>1. ASSUME NEW m \in Mounts, NEW c \in Snapshots, NEW old \in SnapshotOrNone,
             BeginActivate(m, c, old)
      PROVE  Whole'
  BY <1>1, ZenonT(60) DEF BeginActivate, CanBegin, NoPendingJournal, Begin
<1>2. ASSUME NEW m \in Mounts, NEW st \in TombstoneStates, NEW old \in Snapshots,
             BeginWithdraw(m, st, old)
      PROVE  Whole'
  BY <1>2, ZenonT(60) DEF BeginWithdraw, CanBegin, NoPendingJournal, Begin
<1>3. ASSUME NEW m \in Mounts, NEW c \in Snapshots, BeginReauthorize(m, c)
      PROVE  Whole'
  BY <1>3, Zenon DEF BeginReauthorize, CanBegin, NoPendingJournal, Begin
<1>4. ASSUME NEW m \in Mounts, BeginReport(m)
      PROVE  Whole'
  BY <1>4, Zenon DEF BeginReport, CanBegin, NoPendingJournal, Begin
<1>5. CASE BeginCollect \/ PublishExisting \/ PublishNew \/ ConfirmNew \/ PublishOverBudget
           \/ EndCollect \/ CheckCandidate \/ ActivateUnchanged
  <2>1. /\ UNCHANGED <<table, routes, routesOld, journal, journalOld>>
        /\ pc' \in {"idle", "publish", "confirm", "collect", "retry", "check", "journal", "openGC"}
    BY <1>5, Zenon DEF BeginCollect, PublishExisting, PublishNew, ConfirmNew, PublishOverBudget, EndCollect,
       CheckCandidate, ActivateUnchanged, CanBegin, Begin, Goto, Idle
  <2>2. pc \in {"idle", "publish", "confirm", "collect", "retry", "check", "openGC"}
    BY <1>5, Zenon DEF BeginCollect, PublishExisting, PublishNew, ConfirmNew, PublishOverBudget, EndCollect,
       CheckCandidate, ActivateUnchanged, CanBegin
  <2>3. Unjournaled' => Unjournaled
    BY <1>5, ZenonT(60) DEF BeginCollect, PublishExisting, PublishNew, ConfirmNew, PublishOverBudget, EndCollect,
       CheckCandidate, ActivateUnchanged, CanBegin, Begin, Goto, Idle
  <2> QED
    BY <2>1, <2>2, <2>3, Zenon
<1>6. CASE WriteJournal
  <2>1. journal = NoJob /\ Durable = table /\ routesOld = {}
    BY <1>6, SMTT(30) DEF WriteJournal
  <2>2. CASE Settle(routes, job) /\ Goto("pointer")
    BY <1>6, <1>t, <2>1, <2>2, Zenon DEF WriteJournal, Settle, Goto, Journals
  <2>3. CASE Loosen(routes, job) /\ Idle
    BY <1>6, <1>t, <2>1, <2>3, NoJobAssumption, ZenonT(60) DEF WriteJournal, Loosen, Idle, Inert, Journals
  <2> QED
    BY <1>6, <2>2, <2>3, ZenonT(60) DEF WriteJournal
<1>7. CASE WritePointer
  <2>1. Apply(job, table) \in Tables /\ Base(Apply(job, table)) = Apply(job, table)
    BY <1>7, <1>t, ApplyType, BaseTable, Zenon DEF WritePointer, WithJob
  <2>2. CASE Settle(Apply(job, table), journal) /\ Goto("store")
    BY <1>7, <2>1, <2>2, Zenon DEF WritePointer, Settle, Goto
  <2>3. CASE Loosen(Apply(job, table), journal) /\ Idle /\ job.op # "report"
    BY <1>7, <1>t, <2>1, <2>3, NoJobAssumption, ZenonT(60) DEF WritePointer, WithJob, Loosen, Idle
  <2> QED
    BY <1>7, <2>2, <2>3, Zenon DEF WritePointer
<1>8. CASE StoreTable
  <2>1. job.op # "report" => Completed(job, Apply(job, table))
    BY <1>8, <1>t, ApplyCompletes, Zenon DEF StoreTable, WithJob, Journals
  <2> QED
    BY <1>8, <2>1, Zenon DEF StoreTable, Goto
<1>9. CASE RemoveJournal
  BY <1>9, <1>t, NoJobAssumption, Zenon DEF RemoveJournal, Settle, Loosen, Idle, Inert
<1>10. CASE Abort
  BY <1>10, ZenonT(60) DEF Abort, Idle, Serving
<1>11. ASSUME NEW s \in Snapshots, CollectEntry(s) \/ Release(s) \/ Corrupt(s)
       PROVE  Whole'
  <2>1. UNCHANGED <<table, routes, routesOld, journal, journalOld, pc, job, todo, rebuilt, repaired>>
    <3> HIDE DEF Whole
    <3> QED BY <1>11, Zenon DEF CollectEntry, Release, Corrupt
  <2> HIDE DEF Whole
  <2> QED BY <2>1, WholeStays, Zenon
<1>12. ASSUME NEW s \in Snapshots, QuarantineReported(s)
       PROVE  Whole'
  BY <1>12, Zenon DEF QuarantineReported, Idle, Begin
<1>13. ASSUME NEW m \in Mounts, NEW s \in Snapshots, AdmitSnapshot(m, s)
       PROVE  Whole'
  BY <1>13, Zenon DEF AdmitSnapshot, Protected
<1>14. CASE Start
  <2>1. RollsBack(Durable)
    BY ZenonT(60) DEF Rollback
  <2> QED
    BY <1>14, <1>t, <2>1, Zenon DEF Start, Protected, EmptyTable, HasMount, RollsBack
<1>15. ASSUME NEW m \in Mounts, RestoreMount(m)
       PROVE  Whole'
  <2>1. Spoiled(m) = {} => RestoredActive(m) = Durable.active[m] /\ RestoredPrev(m) = Durable.prev[m]
    BY Zenon DEF RestoredActive, RestoredPrev
  <2>2. repaired' = {} => repaired = {} /\ Spoiled(m) = {}
    BY <1>15, ZenonT(60) DEF RestoreMount
  <2> QED
    BY <1>15, <2>1, <2>2, Zenon DEF RestoreMount, Protected, Apart, Shape, TypeOK, Tables
<1>16. ASSUME NEW m \in Mounts, RestoreRefused(m) \/ RestoreInterrupted(m)
       PROVE  Whole'
  <2> HIDE DEF Whole
  <2>1. UNCHANGED files /\ pc' \in Stopped
    BY <1>16, Zenon DEF RestoreRefused, RestoreInterrupted, Halt, Stopped
  <2> QED BY <2>1, WholeStops, Zenon
<1>17. CASE InstallRestored
  <2>1. rebuilt \in Tables /\ Base(rebuilt) = rebuilt
    BY BaseTable, Zenon DEF Apart, Shape, TypeOK
  <2>2. repaired = {} =>
          \A m \in Mounts : /\ rebuilt.active[m] = Durable.active[m] /\ rebuilt.prev[m] = Durable.prev[m]
                            /\ rebuilt.tomb[m] = Durable.tomb[m]
    <3>1. pc = "restore" /\ todo = {} /\ Copying
      BY <1>17, Zenon DEF InstallRestored
    <3> HIDE DEF Whole, Durable
    <3> QED BY <3>1, Zenon
  <2> HIDE DEF Whole, Durable
  <2>3. repaired = {} => rebuilt = Durable
    BY <1>t, <2>1, <2>2, SameTable, Zenon
  <2>4. /\ pc' = "recover" /\ table' = rebuilt
        /\ \/ repaired = {} /\ UNCHANGED files
           \/ routes' = rebuilt /\ routesOld' = {} /\ journalOld' = {}
    BY <1>17, Zenon DEF InstallRestored, Settle, Goto
  <2>5. table' = Durable'
    BY <2>1, <2>3, <2>4, Zenon DEF Durable
  <2> QED BY <2>4, <2>5, WholeRestored, Zenon
<1>18. CASE RecoverNothing \/ RecoverSettled \/ DropJournal
  <2> HIDE DEF Whole
  <2>1. /\ pc \in {"recover", "drop"} /\ UNCHANGED <<table, routes>>
        /\ \/ pc' = "drop" /\ UNCHANGED files
           \/ /\ pc' = "openGC" /\ journal' = NoJob
              /\ \/ journal = NoJob /\ UNCHANGED files
                 \/ routesOld' = {} /\ journalOld' = {}
    BY <1>18, Zenon DEF RecoverNothing, RecoverSettled, DropJournal, Settle, Goto, Begin
  <2> QED BY <2>1, WholeRecovers, Zenon
<1>19. CASE RollForward
  <2>1. Apply(journal, table) \in Tables /\ Base(Apply(journal, table)) = Apply(journal, table)
    BY <1>19, <1>t, ApplyType, BaseTable, ZenonT(60) DEF RollForward, MustResume, Journals
  <2> QED
    BY <1>19, <2>1, Zenon DEF RollForward, Settle, Goto
<1>20. CASE RecoverRefused \/ Stop \/ PowerLoss
  <2> HIDE DEF Whole
  <2>1. /\ pc' \in Stopped
        /\ (UNCHANGED files) \/ (routesOld' = {} /\ journalOld' = {})
    BY <1>20, Zenon DEF RecoverRefused, Stop, PowerLoss, Settle, Halt, Stopped
  <2> QED BY <2>1, WholeStops, WholeSettles, Zenon
<1>21. CASE InstallUnconfirmed \/ RollForwardUnconfirmed \/ DropUnconfirmed
  BY <1>21, ZenonT(60) DEF InstallUnconfirmed, RollForwardUnconfirmed, DropUnconfirmed
<1>22. CASE UNCHANGED vars
  BY <1>22, Zenon DEF vars, Protected
<1> HIDE DEF Whole
<1> QED
  BY <1>1, <1>2, <1>3, <1>4, <1>5, <1>6, <1>7, <1>8, <1>9, <1>10, <1>11, <1>12, <1>13, <1>14,
     <1>15, <1>16, <1>17, <1>18, <1>19, <1>20, <1>21, <1>22
 , ZenonT(60) DEF Next, Call, Work, Request, Open, Environment

\* A whole state restarts with the table being served, or with that table after the running
\* or the pending transition.
LEMMA WholeRestarts == Apart /\ Rollback /\ Whole => RestartIsAtomic
<1> SUFFICES ASSUME Apart, Rollback, Whole, pc \in Serving,
                    NEW t \in RouteSurvivors, NEW j \in JournalSurvivors
             PROVE  Recovered(t, j) \in {table} \cup {Apply(i, table) : i \in InFlight}
  BY Zenon DEF RestartIsAtomic
<1> USE DEF Whole, Recoverable, Standing, Durable
<1>t. /\ table \in Tables /\ RollsBack(table) /\ (pc \in WithJob => job \in Jobs)
      /\ journal \in Journals \cup {NoJob} /\ journalOld \subseteq Journals \cup {NoJob}
  BY DEF Apart, Shape, TypeOK, JobOK, Rollback
<1>1. journal # NoJob => journal \in InFlight
  BY DEF InFlight
<1>2. ASSUME routesOld = {}, Durable = table
      PROVE  Recovered(t, j) \in {table} \cup {Apply(i, table) : i \in InFlight}
  <2>1. t = table
    BY <1>2 DEF RouteSurvivors
  <2>2. CASE Inert(j, table)
    BY <1>t, <2>1, <2>2, InertRecovered DEF JournalSurvivors
  <2>3. CASE j = journal /\ journal # NoJob
    BY <1>t, <1>1, <2>1, <2>3, RecoveredEither
  <2> QED
    BY <1>2, <2>2, <2>3 DEF JournalSurvivors, Inert
<1>3. CASE Untouched
  <2>1. CASE routesOld = {}
    BY <1>2, <1>3, <2>1
  <2>2. CASE routesOld # {}
    <3>1. j = journal /\ journal \in Journals
      BY <1>t, <2>2, SMTT(30) DEF JournalSurvivors
    <3>2. t \in {table, Apply(journal, table)}
      BY <1>3, <2>2 DEF RouteSurvivors
    <3> QED
      BY <1>t, <1>1, <2>2, <3>1, <3>2, RecoveredEither, ApplyTwice
  <2> QED
    BY <2>1, <2>2
<1>4. CASE (pc = "pointer" /\ job.op # "report") \/ pc \in {"remove", "quarantine"}
  BY <1>2, <1>4 DEF Clean
<1>5. CASE pc = "store"
  <2>1. t = Apply(job, table) /\ j = journal /\ job \in Jobs /\ job \in InFlight
    BY <1>5, <1>t, NoJobAssumption DEF RouteSurvivors, JournalSurvivors, Clean, InFlight, WithJob
  <2>2. CASE job.op = "report"
    BY <1>5, <2>1, <2>2 DEF Unjournaled, Recovered
  <2>3. CASE job.op # "report"
    BY <1>5, <1>t, <2>1, <2>3, ApplyTwice DEF Journals
  <2> QED
    BY <2>2, <2>3, SMTT(30)
<1> QED
  BY <1>3, <1>4, <1>5 DEF Serving, Untouched

\* Whichever versions of the two files survive a power loss, the restarted process serves the
\* table served before, or that table after the one transition running or pending: as long
\* as no write of HandleCorruption or of recovery goes unconfirmed.
THEOREM AtomicRestart ==
  ASSUME Unconfirmed \subseteq {"publish"}
  PROVE  Spec => []RestartIsAtomic
<1>1. Spec => [](Apart /\ Rollback /\ Whole)
  BY ApartInit, ApartNext, RollbackInit, RollbackNext, WholeInit, WholeNext, PTL DEF Spec
<1> QED
  BY <1>1, WholeRestarts, PTL
-------------------------------------------------------------------------------
\* Reported outcomes.  The client's outcome is in the routes on disk, in the running table
\* and in the part of the table that recovery has built; its snapshot is healthy; and a journal for its mount can neither change it nor be behind it.

OnDisk(m) == Route(Durable, m) = ack[m]

InMemory(m) ==
  pc \in Serving \cup {"recover", "drop", "openGC"} => Route(table, m) = ack[m]

Rebuilding(m) ==
  pc = "restore" =>
    /\ rebuilt.tomb[m] = ack[m].tomb
    /\ rebuilt.prev[m] \in {Durable.prev[m], NoSnapshot}
    /\ m \notin todo => rebuilt.active[m] = ack[m].active

Sound(m) == ack[m].active \in Snapshots => dir[ack[m].active] = "ok"

Unthreatened(m) ==
  journal # NoJob /\ journal.mount = m => routesOld = {} /\ Inert(journal, Durable)

Acked(m) == OnDisk(m) /\ InMemory(m) /\ Rebuilding(m) /\ Sound(m) /\ Unthreatened(m)

\* HandleCorruption quarantines what is left in scan, which is never what it falls back on.
Falling ==
  /\ pc \in {"pointer", "store"} /\ job.op = "report" =>
       job.cand \notin scan /\ job.cand \in {NoSnapshot, table.prev[job.mount]}
  /\ pc = "quarantine" => table.active[job.mount] \notin scan

Stored ==
  /\ pc = "store" => ack[job.mount] = NoAck
  /\ Falling
  /\ \A m \in Mounts : ack[m] # NoAck => Acked(m)

\* A directory that a power loss may take was renamed by a Publish that was cut off, or by
\* the one that is running, whose snapshot no reported mount serves yet.
Published ==
  /\ loose \subseteq CutOff
  /\ pc = "confirm" => \A m \in Mounts : ack[m] # NoAck => ack[m].active # job.cand

\* An operation changes the route of its own mount only.
LEMMA ApplyElsewhere ==
  ASSUME NEW j \in Jobs, NEW t \in Tables, NEW m \in Mounts, m # j.mount
  PROVE  Route(Apply(j, t), m) = Route(t, m)
<1>1. CASE j.op = "activate"
  BY <1>1 DEF Route, Apply, ActivateMount, Tables, Jobs
<1>2. CASE j.op = "withdraw"
  BY <1>2 DEF Route, Apply, WithdrawMount, Tables, Jobs
<1>3. CASE j.op = "reauthorize"
  BY <1>3 DEF Route, Apply, ReauthorizeMount, Tables, Jobs
<1>4. CASE j.op = "report"
  BY <1>4 DEF Route, Apply, FallbackMount, Tables, Jobs
<1> QED
  BY <1>1, <1>2, <1>3, <1>4 DEF Jobs

\* An inert journal stays inert when recovery keeps the route of its mount.
LEMMA InertKept ==
  ASSUME NEW j \in Journals \cup {NoJob}, NEW t \in Tables, NEW u \in Tables, Inert(j, t),
         j # NoJob => /\ Route(u, j.mount) = Route(t, j.mount)
                      /\ u.prev[j.mount] \in {t.prev[j.mount], NoSnapshot}
  PROVE  Inert(j, u)
<1>1. j # NoJob => u.active[j.mount] = t.active[j.mount] /\ u.tomb[j.mount] = t.tomb[j.mount]
  BY DEF Route
<1>2. j # NoJob => Stale(j, u) = Stale(j, t)
  BY <1>1 DEF Stale, Current, Withdrawn
<1>3. j # NoJob /\ Completed(j, t) => Completed(j, u)
  BY <1>1, Zenon DEF Completed, HasMount, Journals, Jobs
<1> QED
  BY <1>2, <1>3, SMTT(30) DEF Inert

\* restoreDurableRoutes rejects no snapshot that passes Preflight: a rollback target is of the
\* catalog of the active snapshot.
LEMMA SpoiledFails ==
  ASSUME Rollback, NEW m \in Mounts, NEW s \in Spoiled(m)
  PROVE  dir[s] # "ok"
BY RouteConstants DEF Rollback, RollsBack, Spoiled, Durable, HasMount

\* Steps of a publication that only look, and the ends of a collection.
LEMMA LooksOnly ==
  ASSUME BeginCollect \/ EndCollect \/ PublishExisting \/ PublishOverBudget
  PROVE  /\ UNCHANGED <<table, routes, routesOld, journal, dir, ack>>
         /\ pc \in {"idle", "publish", "collect", "retry", "openGC"}
         /\ pc' \in {"idle", "retry", "check", "collect"}
BY DEF BeginCollect, EndCollect, PublishExisting, PublishOverBudget, CanBegin, Begin, Goto, Idle,
   memory, files, store, control, restoring

\* A route is the active snapshot and the tombstone.
LEMMA RouteIs ==
  ASSUME NEW t, NEW m
  PROVE  Route(t, m).active = t.active[m] /\ Route(t, m).tomb = t.tomb[m]
BY Zenon DEF Route

\* ... and nothing else.
LEMMA RouteFrom ==
  ASSUME NEW t, NEW m, NEW a \in Routes, t.active[m] = a.active, t.tomb[m] = a.tomb
  PROVE  Route(t, m) = a
BY DEF Route, Routes

\* A report gives its mount the route being served, of a healthy snapshot, or nothing.
LEMMA ReportGives ==
  ASSUME NEW a \in [Mounts -> Routes \cup {NoAck}], NEW n \in Mounts, NEW m \in Mounts
  PROVE  \/ Report(a, n)[m] = NoAck
         \/ m # n /\ Report(a, n)[m] = a[m]
         \/ /\ m = n /\ Report(a, n)[m] = Route(table, m)
            /\ table.active[m] # NoSnapshot => dir[table.active[m]] = "ok"
BY DEF Report, HasMount

\* An operation ends and reports the route it serves, or nothing new.
LEMMA ReportAcked ==
  ASSUME NEW m \in Mounts, NEW n \in Mounts, ack \in [Mounts -> Routes \cup {NoAck}],
         ack[m] # NoAck => Acked(m), ack' = Report(ack, n) \/ ack' = ack, ack'[m] # NoAck,
         Durable = table, Durable' = Durable, journal' = NoJob, pc \in Serving, pc' = "idle",
         UNCHANGED <<table, dir>>
  PROVE  Acked(m)'
<1>1. \/ ack'[m] = ack[m] /\ ack[m] # NoAck
      \/ /\ ack'[m] = Route(table, m)
         /\ table.active[m] # NoSnapshot => dir[table.active[m]] = "ok"
  <2>1. CASE ack' = ack
    BY <2>1, Zenon
  <2>2. CASE ack' = Report(ack, n)
    <3>1. Report(ack, n)[m] # NoAck
      BY <2>2, Zenon
    <3>2. \/ Report(ack, n)[m] = NoAck
          \/ m # n /\ Report(ack, n)[m] = ack[m]
          \/ /\ m = n /\ Report(ack, n)[m] = Route(table, m)
             /\ table.active[m] # NoSnapshot => dir[table.active[m]] = "ok"
      BY ReportGives
    <3> QED BY <2>2, <3>1, <3>2, Zenon
  <2> QED BY <2>1, <2>2, Zenon
<1>2. ack'[m] = Route(table, m)
  BY <1>1, Zenon DEF Acked, InMemory
<1>3. ack'[m].active = table.active[m]
  BY <1>2, RouteIs, Zenon
<1>4. Sound(m)'
  <2>1. table.active[m] \in Snapshots => table.active[m] # NoSnapshot
    BY RouteConstants, Zenon
  <2> QED BY <1>1, <1>3, <2>1, Zenon DEF Acked, Sound
<1>5. OnDisk(m)' /\ InMemory(m)' /\ Rebuilding(m)' /\ Unthreatened(m)'
  BY <1>2, Zenon DEF OnDisk, InMemory, Rebuilding, Unthreatened
<1> QED BY <1>4, <1>5, Zenon DEF Acked

\* A new store has reported nothing.
LEMMA StoredInit == Init => Stored
BY Zenon DEF Init, Stored, Falling

\* A new store holds no directory.
LEMMA PublishedInit == Init => Published
BY Zenon DEF Init, Published

\* Every step keeps track of the directories that a power loss may take.
LEMMA PublishedNext ==
  ASSUME Apart, Stored, Published, [Next]_vars
  PROVE  Published'
<1> USE DEF Published, CutOff, memory, files, store, control, restoring
<1>t. ack \in [Mounts -> Routes \cup {NoAck}] /\ pc # "confirm" => loose \subseteq cut
  BY Zenon DEF Apart, Shape, TypeOK
<1>1. ASSUME pc # "confirm", pc' # "confirm",
             \/ UNCHANGED <<loose, cut>>
             \/ \E S : loose' = loose \ S /\ cut' = cut \ S
      PROVE  Published'
  BY <1>1
<1>2. ASSUME NEW S, ack' = DoubtSnapshots(S) \/ ack' = ack, UNCHANGED <<loose, cut, pc, job>>
      PROVE  Published'
  BY <1>t, <1>2 DEF DoubtSnapshots
<1>3. CASE Call
  BY <1>1, <1>3, Zenon DEF Call, BeginActivate, BeginWithdraw, BeginReauthorize, BeginReport,
     BeginCollect, CanBegin, Begin
<1>4. CASE PublishNew
  <2>1. /\ loose' = loose \cup {job.cand} /\ pc' = "confirm" /\ pc # "confirm" /\ cut' = cut
        /\ dir[job.cand] = "absent" /\ job' = job /\ ack' = ack /\ job.cand \in Snapshots
    BY <1>4, SMTT(30) DEF PublishNew, Goto, Apart, Shape, JobOK
  <2>2. ASSUME NEW m \in Mounts, ack[m] # NoAck PROVE ack[m].active # job.cand
    BY <2>1, <2>2, SMTT(30) DEF Stored, Acked, Sound
  <2> QED BY <2>1, <2>2
<1>5. CASE ConfirmNew
  BY <1>5 DEF ConfirmNew, Goto, Idle
<1>6. CASE PublishExisting \/ PublishOverBudget \/ EndCollect \/ CheckCandidate \/ ActivateUnchanged
           \/ WriteJournal \/ WritePointer \/ StoreTable \/ RemoveJournal \/ Abort
  BY <1>1, <1>6, ZenonT(60) DEF PublishExisting, PublishOverBudget, EndCollect, CheckCandidate,
     ActivateUnchanged, WriteJournal, WritePointer, StoreTable, RemoveJournal, Abort, Goto, Idle,
     Begin
<1>7. ASSUME NEW s \in Snapshots, CollectEntry(s) \/ QuarantineReported(s)
      PROVE  Published'
  BY <1>1, <1>7, ZenonT(60) DEF CollectEntry, QuarantineReported, Quarantine, Idle, Begin
<1>8. CASE Request \/ \E s \in Snapshots : Corrupt(s)
  BY <1>2, <1>8, Zenon DEF Request, AdmitSnapshot, Release, Corrupt
<1>9. ASSUME NEW m \in Mounts, RestoreMount(m) \/ RestoreRefused(m) \/ RestoreInterrupted(m)
      PROVE  Published'
  BY <1>1, <1>9, ZenonT(60) DEF RestoreMount, RestoreRefused, RestoreInterrupted, Quarantine, Halt
<1>10. CASE Start \/ InstallRestored \/ InstallUnconfirmed \/ RecoverNothing \/ RecoverSettled
            \/ RollForward \/ RollForwardUnconfirmed \/ RecoverRefused \/ DropJournal
            \/ DropUnconfirmed
  BY <1>1, <1>10, ZenonT(60) DEF Start, InstallRestored, InstallUnconfirmed, RecoverNothing,
     RecoverSettled, RollForward, RollForwardUnconfirmed, RecoverRefused, DropJournal,
     DropUnconfirmed, Goto, Begin, Halt, Stopped
<1>11. CASE Stop
  BY <1>11, Zenon DEF Stop, Halt
<1>12. CASE PowerLoss
  BY <1>12, Zenon DEF PowerLoss, Halt
<1>13. CASE UNCHANGED vars
  BY <1>13, Zenon DEF vars
<1> QED
  BY <1>3, <1>4, <1>5, <1>6, <1>7, <1>8, <1>9, <1>10, <1>11, <1>12, <1>13, Zenon
  DEF Next, Work, Open, Environment

\* Every step keeps the reported outcomes when every write of HandleCorruption and of
\* recovery is confirmed.
LEMMA StoredNext ==
  ASSUME Unconfirmed \subseteq {"publish"}, Apart, Rollback, Whole, Stored, Published, [Next]_vars
  PROVE  Stored'
<1> USE DEF Stored, Falling, Acked, OnDisk, InMemory, Rebuilding, Sound, Unthreatened,
            memory, files, store, control, restoring
<1>t. /\ table \in Tables /\ (pc \in WithJob => job \in Jobs) /\ Durable \in Tables
      /\ journal \in Journals \cup {NoJob} /\ routes \in Tables \cup {NoRoutes}
      /\ ack \in [Mounts -> Routes \cup {NoAck}] /\ rebuilt \in Tables
      /\ dir \in [Snapshots -> {"absent", "ok", "corrupt"}] /\ scan \subseteq Snapshots
      /\ todo \subseteq Mounts
  BY EmptyTableType, Zenon DEF Apart, Shape, TypeOK, JobOK, Base, Durable
<1>1. ASSUME NEW m \in Mounts, NEW c \in Snapshots, NEW old \in SnapshotOrNone,
             BeginActivate(m, c, old)
      PROVE  Stored'
  BY <1>1, Zenon DEF BeginActivate, CanBegin, Begin, Serving, Durable
<1>2. ASSUME NEW m \in Mounts, NEW st \in TombstoneStates, NEW old \in Snapshots,
             BeginWithdraw(m, st, old)
      PROVE  Stored'
  BY <1>2, Zenon DEF BeginWithdraw, CanBegin, Begin, Serving, Durable
<1>3. ASSUME NEW m \in Mounts, NEW c \in Snapshots, BeginReauthorize(m, c)
      PROVE  Stored'
  BY <1>3, Zenon DEF BeginReauthorize, CanBegin, Begin, Serving, Durable
<1>4. ASSUME NEW m \in Mounts, BeginReport(m)
      PROVE  Stored'
  BY <1>4, Zenon DEF BeginReport, CanBegin, Begin, Serving, Durable
<1>5. CASE BeginCollect \/ PublishExisting \/ PublishOverBudget \/ EndCollect \/ CheckCandidate
  <2>1. CASE BeginCollect \/ EndCollect
    BY <2>1, LooksOnly, ZenonT(60) DEF Serving, Durable
  <2>2. CASE PublishExisting \/ PublishOverBudget
    BY <2>2, LooksOnly, ZenonT(60) DEF Serving, Durable
  <2>3. CASE CheckCandidate
    BY <2>3, ZenonT(60) DEF CheckCandidate, Goto, Serving, Durable, Apart, Shape, JobOK
  <2> QED
    BY <1>5, <2>1, <2>2, <2>3, Zenon
<1>6. CASE PublishNew \/ ConfirmNew
  <2>1. /\ pc' \in {"confirm", "check", "idle"} /\ pc \in Serving /\ Durable' = Durable
        /\ UNCHANGED <<table, routesOld, journal, ack>>
    <3> HIDE DEF Stored
    <3> QED BY <1>6, Zenon DEF PublishNew, ConfirmNew, Goto, Idle, Serving, Durable
  <2>2. \A x \in Snapshots : dir[x] = "ok" => dir'[x] = "ok"
    <3> HIDE DEF Stored
    <3> QED BY <1>6, <1>t, Zenon DEF PublishNew, ConfirmNew
  <2> QED
    BY <2>1, <2>2, Zenon
<1>7. CASE ActivateUnchanged
  <2>1. Durable = table /\ journal = NoJob /\ routesOld = {}
    BY <1>7, Zenon DEF ActivateUnchanged, Whole, Recoverable, Standing, Unjournaled, Untouched
  <2>2. /\ pc' = "idle" /\ pc \in Serving /\ job.mount \in Mounts /\ ack' = Report(ack, job.mount)
        /\ Durable' = Durable /\ UNCHANGED <<table, dir, routesOld, journal>>
    <3> HIDE DEF Stored
    <3> QED BY <1>7, <1>t, Zenon DEF ActivateUnchanged, Idle, WithJob, Durable, Serving, Jobs
  <2>3. ASSUME NEW m \in Mounts, ack'[m] # NoAck PROVE Acked(m)'
    <3>1. ack[m] # NoAck => Acked(m)
      BY Zenon
    <3> HIDE DEF Stored, Acked
    <3> QED BY <1>t, <2>1, <2>2, <2>3, <3>1, ReportAcked, Zenon
  <2> QED
    BY <2>2, <2>3, Zenon
<1>8. CASE WriteJournal
  <2>1. ack' = Doubt(job.mount) /\ routes' = routes /\ journal' = job /\ pc' \in {"pointer", "idle"}
    BY <1>8, Zenon DEF WriteJournal, Settle, Loosen, Goto, Idle
  <2>2. job \in Jobs /\ (pc' = "pointer" => job' = job /\ job.op # "report")
    BY <1>8, <1>t, ZenonT(60) DEF WriteJournal, WithJob, Settle, Loosen, Goto, Idle, Apart, Shape, JobOK
  <2>3. Durable' = Durable /\ pc \in Serving /\ UNCHANGED <<table, dir>>
    <3> HIDE DEF Stored
    <3> QED BY <1>8, <2>1, Zenon DEF WriteJournal, Settle, Loosen, Durable, Serving
  <2>4. ASSUME NEW m \in Mounts, ack'[m] # NoAck PROVE Acked(m)'
    <3>1. m # job.mount /\ ack'[m] = ack[m] /\ ack[m] # NoAck
      <4> HIDE DEF Stored
      <4> QED BY <1>t, <2>1, <2>4, Zenon DEF Doubt
    <3>2. Acked(m)
      BY <3>1, Zenon
    <3> HIDE DEF Stored
    <3> QED BY <2>1, <2>3, <3>1, <3>2, Zenon
  <2> QED
    BY <2>1, <2>2, <2>3, <2>4, Zenon
<1>9. CASE WritePointer
  <2>1. /\ Apply(job, table) \in Tables /\ Base(Apply(job, table)) = Apply(job, table)
        /\ job \in Jobs
    BY <1>9, <1>t, ApplyType, BaseTable, Zenon DEF WritePointer, WithJob
  <2>2. /\ ack' = Doubt(job.mount) /\ Durable' = Apply(job, table) /\ journal' = journal
        /\ (pc' = "store" /\ job' = job /\ scan' = scan) \/ pc' = "idle"
    BY <1>9, <2>1, Zenon DEF WritePointer, Settle, Loosen, Goto, Idle, Durable
  <2>3. journal # NoJob => journal.mount = job.mount
    BY <1>9, ZenonT(60) DEF WritePointer, Whole, Standing, Unjournaled
  <2>4. \A m \in Mounts : m # job.mount => Route(Durable', m) = Route(table, m)
    <3> HIDE DEF Stored
    <3> QED BY <2>1, <2>2, <1>t, ApplyElsewhere, Zenon
  <2>5. pc = "pointer" /\ UNCHANGED <<table, dir>>
    <3> HIDE DEF Stored
    <3> QED BY <1>9, Zenon DEF WritePointer
  <2>6. ASSUME NEW m \in Mounts, ack'[m] # NoAck PROVE Acked(m)'
    <3>1. m # job.mount /\ ack'[m] = ack[m] /\ ack[m] # NoAck
      <4> HIDE DEF Stored
      <4> QED BY <1>t, <2>2, <2>6, Zenon DEF Doubt
    <3>2. Acked(m)
      BY <3>1, Zenon
    <3>3. Route(table, m) = ack[m]
      <4> HIDE DEF Stored
      <4> QED BY <2>5, <3>2, Zenon DEF Serving
    <3> HIDE DEF Stored
    <3> QED BY <2>2, <2>3, <2>4, <2>5, <3>1, <3>2, <3>3, Zenon
  <2>7. ack'[job.mount] = NoAck
    <3> HIDE DEF Stored
    <3> QED BY <1>t, <2>1, <2>2, Zenon DEF Doubt, Jobs
  <2> QED
    BY <2>2, <2>5, <2>6, <2>7, Zenon
<1>10. CASE StoreTable
  <2>1. job \in Jobs /\ table' = Apply(job, table) /\ ack[job.mount] = NoAck
    BY <1>10, <1>t, Zenon DEF StoreTable, WithJob
  <2>2. \A m \in Mounts : m # job.mount => Route(table', m) = Route(table, m)
    <3> HIDE DEF Stored
    <3> QED BY <1>t, <2>1, ApplyElsewhere, Zenon
  <2>3. job.op = "report" => table'.active[job.mount] \notin scan
    BY <1>10, <1>t, <2>1, RouteConstants, SMTT(30) DEF StoreTable, Apply, FallbackMount, Tables, Jobs
  <2> QED
    BY <1>10, <1>t, <2>1, <2>2, <2>3, ZenonT(60) DEF StoreTable, Goto, Serving, Durable
<1>11. CASE RemoveJournal
  <2>1. /\ Durable = table /\ routes' = routes /\ journal' = NoJob /\ job.mount \in Mounts
        /\ pc' = "idle"
    <3> HIDE DEF Stored
    <3> QED BY <1>11, <1>t, Zenon DEF RemoveJournal, Whole, Standing, Settle, Loosen, WithJob, Idle, Jobs
  <2>2. /\ ack' = Report(ack, job.mount) \/ ack' = ack
        /\ Durable' = Durable /\ pc \in Serving /\ UNCHANGED <<table, dir>>
    BY <1>11, Zenon DEF RemoveJournal, Settle, Loosen, Durable, Serving
  <2>3. ASSUME NEW m \in Mounts, ack'[m] # NoAck PROVE Acked(m)'
    <3>1. ack[m] # NoAck => Acked(m)
      BY Zenon
    <3> HIDE DEF Stored, Acked
    <3> QED BY <1>t, <2>1, <2>2, <2>3, <3>1, ReportAcked, Zenon
  <2> QED
    BY <2>1, <2>2, <2>3, Zenon
<1>12. CASE Abort
  BY <1>12, Zenon DEF Abort, Idle, Durable, Serving
<1>13. ASSUME NEW s \in Snapshots, CollectEntry(s)
       PROVE  Stored'
  <2>1. ASSUME NEW m \in Mounts, ack[m] # NoAck, ack[m].active \in Snapshots
        PROVE  dir'[ack[m].active] = "ok"
    <3>1. Acked(m)
      BY <2>1, Zenon
    <3> HIDE DEF Stored
    <3>2. Route(table, m) = ack[m] /\ dir[ack[m].active] = "ok"
      BY <1>13, <2>1, <3>1, Zenon DEF CollectEntry, Serving
    <3>3. table.active[m] = ack[m].active
      BY <3>2, RouteIs, ZenonT(30)
    <3>4. Collectable(s) => s # ack[m].active
      BY <2>1, <3>3, Zenon DEF Collectable, Retained
    <3> QED BY <1>13, <1>t, <2>1, <3>2, <3>4, Zenon DEF CollectEntry
  <2> QED
    BY <1>13, <2>1, ZenonT(60) DEF CollectEntry, Durable, Serving
<1>14. ASSUME NEW s \in Snapshots, QuarantineReported(s)
       PROVE  Stored'
  <2>1. /\ Durable = table /\ journal = NoJob /\ routesOld = {} /\ job \in Jobs
        /\ table.active[job.mount] \notin scan /\ s \in scan
    BY <1>14, <1>t, Zenon DEF QuarantineReported, Whole, Standing, Unjournaled, Clean, WithJob
  <2>2. dir' = [x \in Snapshots |-> IF x = s THEN "absent" ELSE dir[x]]
    <3> HIDE DEF Stored
    <3>1. Quarantine({s})
      BY <1>14, Zenon DEF QuarantineReported
    <3> QED BY <3>1 DEF Quarantine
  <2>3. /\ UNCHANGED <<table, routes, routesOld, journal, journalOld, todo, rebuilt, repaired>>
        /\ pc' = "idle" \/ (pc' = "quarantine" /\ job' = job /\ scan' \subseteq scan)
    <3> HIDE DEF Stored
    <3> QED BY <1>14, Zenon DEF QuarantineReported, Idle, Begin
  <2>4. /\ DoubtSnapshots({s}) \in [Mounts -> Routes \cup {NoAck}]
        /\ \A m \in Mounts : \/ DoubtSnapshots({s})[m] = NoAck
                             \/ DoubtSnapshots({s})[m] = ack[m] /\ ack[m].active # s
    BY <1>t, Zenon DEF DoubtSnapshots
  <2>5. ASSUME NEW m \in Mounts, ack'[m] # NoAck
        PROVE  \/ ack'[m] = ack[m] /\ ack[m].active # s
               \/ /\ m = job.mount /\ ack'[m] = Route(table, m)
                  /\ table.active[m] # NoSnapshot => dir[table.active[m]] = "ok"
    <3>1. ack' = Report(DoubtSnapshots({s}), job.mount) \/ ack' = DoubtSnapshots({s})
      BY <1>14, Zenon DEF QuarantineReported
    <3>2. PICK a : a = DoubtSnapshots({s})
      BY Zenon
    <3>3. /\ a \in [Mounts -> Routes \cup {NoAck}]
          /\ a[m] = NoAck \/ (a[m] = ack[m] /\ ack[m].active # s)
      BY <2>4, <3>2, Zenon
    <3>4. job.mount \in Mounts
      BY <2>1, ZenonT(60) DEF Jobs
    <3>5. CASE ack' = a
      BY <2>5, <3>3, <3>5, Zenon
    <3>6. CASE ack' = Report(a, job.mount)
      <4> HIDE DEF Stored
      <4> QED BY <2>5, <3>3, <3>4, <3>6, ReportGives, SMTT(30)
    <3> QED
      BY <3>1, <3>2, <3>5, <3>6, Zenon
  <2>6. ASSUME NEW m \in Mounts, ack'[m] # NoAck PROVE Acked(m)'
    <3>1. pc = "quarantine" /\ Durable' = Durable
      BY <1>14, <2>3, Zenon DEF QuarantineReported, Durable
    <3>2. CASE ack'[m] = ack[m] /\ ack[m].active # s
      BY <1>t, <2>1, <2>2, <2>3, <2>6, <3>1, <3>2, ZenonT(60) DEF Serving
    <3>3. CASE m = job.mount /\ ack'[m] = Route(table, m)
               /\ (table.active[m] # NoSnapshot => dir[table.active[m]] = "ok")
      <4> HIDE DEF Stored
      <4>1. ack'[m].active = table.active[m]
        <5>1. Route(table, m).active = table.active[m]
          BY RouteIs, Zenon
        <5> QED BY <3>3, <5>1
      <4>2. ack'[m].active \in Snapshots => dir'[ack'[m].active] = "ok"
        <5>1. table.active[m] \in Snapshots => table.active[m] # NoSnapshot
          BY RouteConstants, Zenon
        <5>2. table.active[m] # s
          BY <2>1, <3>3, Zenon
        <5> QED BY <2>2, <3>3, <4>1, <5>1, <5>2, Zenon
      <4> QED BY <2>1, <2>3, <3>1, <3>3, <4>2, Zenon
    <3> QED
      BY <2>5, <2>6, <3>2, <3>3, Zenon
  <2> QED
    BY <1>14, <2>1, <2>2, <2>3, <2>6, Zenon
<1>15. ASSUME NEW s \in Snapshots, Release(s)
       PROVE  Stored'
  BY <1>15, Zenon DEF Release, Durable
<1>16. ASSUME NEW s \in Snapshots, Corrupt(s)
       PROVE  Stored'
  BY <1>16, <1>t, Zenon DEF Corrupt, DoubtSnapshots, Durable, WithJob, Jobs
<1>17. ASSUME NEW m \in Mounts, NEW s \in Snapshots, AdmitSnapshot(m, s)
       PROVE  Stored'
  BY <1>17, Zenon DEF AdmitSnapshot, Durable
<1>18. CASE Start
  <2>1. pc' = "restore" /\ Durable' = Durable
    BY <1>18, Zenon DEF Start, Durable
  <2>2. /\ ack' = ack /\ todo' = {m \in Mounts : HasMount(Durable, m)} \ Protected
        /\ \A m \in Mounts :
             /\ rebuilt'.active[m] = NoSnapshot /\ rebuilt'.prev[m] = NoSnapshot
             /\ rebuilt'.tomb[m] = IF m \in Protected THEN journal.tomb ELSE Durable.tomb[m]
    BY <1>18, Zenon DEF Start, EmptyTable
  <2>3. \A m \in Mounts : ack[m] # NoAck =>
          Durable.active[m] = ack[m].active /\ Durable.tomb[m] = ack[m].tomb
    <3> SUFFICES ASSUME NEW m \in Mounts, ack[m] # NoAck
                 PROVE  Durable.active[m] = ack[m].active /\ Durable.tomb[m] = ack[m].tomb
      BY ZenonT(60)
    <3>1. Route(Durable, m) = ack[m]
      BY Zenon
    <3> HIDE DEF Stored
    <3> QED
      BY <3>1, RouteIs, Zenon
  <2>4. ASSUME NEW m \in Mounts, ack[m] # NoAck PROVE Rebuilding(m)'
    <3>1. CASE m \in Protected
      <4>1. journal # NoJob /\ journal.op = "withdraw" /\ journal.mount = m
        BY <3>1, Zenon DEF Protected
      <4>2. Durable.active[m] = NoSnapshot /\ Durable.tomb[m] = journal.tomb
        BY <2>4, <4>1, Zenon DEF Inert, Completed, HasMount
      <4> QED
        BY <2>1, <2>2, <2>3, <2>4, <3>1, <4>2, Zenon
    <3>2. CASE m \notin Protected
      BY <2>1, <2>2, <2>3, <2>4, <3>2, Zenon DEF HasMount
    <3> QED
      BY <3>1, <3>2, Zenon
  <2> QED
    BY <1>18, <2>1, <2>4, ZenonT(60) DEF Start, Serving
<1>19. ASSUME NEW n \in Mounts, RestoreMount(n)
       PROVE  Stored'
  <2>1. /\ pc = "restore" /\ pc' = "restore" /\ Durable' = Durable
        /\ UNCHANGED <<ack, journal, routesOld>>
    BY <1>19, Zenon DEF RestoreMount, Durable
  <2>2. \A x \in Snapshots : dir[x] = "ok" => dir'[x] = "ok"
    BY <1>19, <1>t, SpoiledFails, Zenon DEF RestoreMount, Quarantine
  <2>3. ASSUME ack[n] # NoAck PROVE RestoredActive(n) = ack[n].active
    <3>a. Route(Durable, n) = ack[n]
      BY <2>3, Zenon
    <3>1. Durable.active[n] = ack[n].active
      <4> HIDE DEF Stored
      <4> QED
        BY <3>a, RouteIs, Zenon
    <3>2. rebuilt.tomb[n] = ack[n].tomb /\ ~Withdrawn(rebuilt, n)
      BY <1>19, <2>3, ZenonT(60) DEF RestoreMount
    <3> QED
      BY <1>t, <2>3, <3>1, <3>2, SpoiledFails, Zenon DEF RestoredActive, Spoiled
  <2>4. RestoredPrev(n) \in {Durable.prev[n], NoSnapshot}
    BY DEF RestoredPrev
  <2>5. ASSUME NEW m \in Mounts, ack[m] # NoAck PROVE Rebuilding(m)'
    <3>1. /\ todo' = todo \ {n} /\ rebuilt'.tomb[m] = rebuilt.tomb[m]
          /\ rebuilt'.active[m] = IF m = n THEN RestoredActive(n) ELSE rebuilt.active[m]
          /\ rebuilt'.prev[m] = IF m = n THEN RestoredPrev(n) ELSE rebuilt.prev[m]
      <4> HIDE DEF Stored
      <4> QED BY <1>19, <1>t, Zenon DEF RestoreMount, Tables
    <3> QED
      BY <2>1, <2>3, <2>4, <2>5, <3>1, Zenon
  <2> QED
    BY <2>1, <2>2, <2>5, Zenon DEF Serving
<1>20. ASSUME NEW n \in Mounts, RestoreRefused(n) \/ RestoreInterrupted(n)
       PROVE  Stored'
  <2>1. \A x \in Snapshots : dir[x] = "ok" => dir'[x] = "ok"
    <3>1. PICK S \in SUBSET Spoiled(n) : Quarantine(S)
      BY <1>20, Zenon DEF RestoreRefused, RestoreInterrupted
    <3> QED
      BY <1>t, <3>1, SpoiledFails, Zenon DEF Quarantine
  <2>2. pc' \in Stopped /\ UNCHANGED <<ack, routes, routesOld, journal>>
    BY <1>20, Zenon DEF RestoreRefused, RestoreInterrupted, Quarantine, Halt, Stopped
  <2> QED
    BY <2>1, <2>2, Zenon DEF Stopped, Serving, Durable
<1>21. CASE InstallRestored
  <2>1. pc' = "recover" /\ table' = rebuilt /\ Base(rebuilt) = rebuilt
    BY <1>21, <1>t, BaseTable, Zenon DEF InstallRestored, Goto
  <2>2. (UNCHANGED files) \/ (Durable' = rebuilt /\ routesOld' = {} /\ journal' = journal)
    BY <1>21, <2>1, ZenonT(60) DEF InstallRestored, Settle, Durable
  <2>3. ASSUME NEW m \in Mounts, ack[m] # NoAck
        PROVE  /\ Route(rebuilt, m) = ack[m]
               /\ journal # NoJob /\ journal.mount = m => Inert(journal, rebuilt)
    <3>1. Route(rebuilt, m) = ack[m] /\ Route(Durable, m) = ack[m]
      <4>1. Acked(m) /\ pc = "restore" /\ todo = {}
        BY <1>21, <2>3, Zenon DEF InstallRestored
      <4> HIDE DEF Stored
      <4>2. rebuilt.active[m] = ack[m].active /\ rebuilt.tomb[m] = ack[m].tomb /\ ack[m] \in Routes
        BY <1>t, <2>3, <4>1, Zenon
      <4>3. Route(Durable, m) = ack[m]
        BY <4>1, Zenon
      <4>4. Route(rebuilt, m) = ack[m]
        BY <4>2, RouteFrom
      <4> QED BY <4>3, <4>4, Zenon
    <3>2. /\ journal # NoJob /\ journal.mount = m => Inert(journal, Durable)
          /\ rebuilt.prev[m] \in {Durable.prev[m], NoSnapshot}
      BY <1>21, <2>3, Zenon DEF InstallRestored
    <3> HIDE DEF Stored
    <3> QED
      BY <1>t, <3>1, <3>2, InertKept, Zenon
  <2> QED
    BY <1>21, <2>1, <2>2, <2>3, Zenon DEF InstallRestored, Durable
<1>22. CASE RecoverNothing \/ RecoverSettled \/ DropJournal
  BY <1>22, Zenon DEF RecoverNothing, RecoverSettled, DropJournal, Settle, Goto, Begin, Durable
<1>23. CASE RollForward
  <2>1. /\ journal \in Journals /\ journal # NoJob
        /\ Apply(journal, table) \in Tables /\ Base(Apply(journal, table)) = Apply(journal, table)
    BY <1>23, <1>t, ApplyType, BaseTable, Zenon DEF RollForward, MustResume, Journals
  <2>2. Durable = table /\ ~Inert(journal, table)
    BY <1>23, <2>1, Zenon DEF RollForward, MustResume, Inert, Whole, Standing
  <2>3. ASSUME NEW m \in Mounts, ack[m] # NoAck
        PROVE  m # journal.mount /\ Route(Apply(journal, table), m) = Route(table, m)
    <3>1. m # journal.mount
      BY <2>1, <2>2, <2>3, Zenon
    <3>2. journal \in Jobs /\ table \in Tables
      BY <1>t, <2>1, Zenon DEF Journals
    <3> HIDE DEF Stored
    <3> QED
      BY <3>1, <3>2, ApplyElsewhere, Zenon
  <2> QED
    BY <1>23, <2>1, <2>2, <2>3, Zenon DEF RollForward, Settle, Goto, Durable
<1>24. CASE RecoverRefused \/ Stop
  BY <1>24, ZenonT(60) DEF RecoverRefused, Stop, Halt, Durable, Serving
<1>25. CASE PowerLoss
  <2>1. PICK r \in {routes} \cup routesOld, j \in {journal} \cup journalOld : Settle(r, j)
    BY <1>25, Zenon DEF PowerLoss
  <2>2. /\ pc' = "down"
        /\ \A m \in Mounts : ack'[m] # NoAck =>
             ack[m] # NoAck /\ ack'[m] = ack[m] /\ Sound(m)'
    <3> HIDE DEF Stored
    <3>1. PICK lost \in SUBSET loose :
            /\ dir' = [s \in Snapshots |-> IF s \in lost THEN "absent" ELSE dir[s]]
            /\ ack' = DoubtSnapshots(lost \cap cut)
      BY <1>25, Zenon DEF PowerLoss
    <3>2. ASSUME NEW m \in Mounts, ack'[m] # NoAck
          PROVE  ack[m] # NoAck /\ ack'[m] = ack[m] /\ ack[m].active \notin lost \cap cut
      BY <1>t, <3>1, <3>2, Zenon DEF DoubtSnapshots
    <3>3. ASSUME NEW m \in Mounts, ack'[m] # NoAck, ack[m].active \in Snapshots
          PROVE  dir'[ack[m].active] = "ok"
      <4>1. dir[ack[m].active] = "ok"
        BY <3>2, <3>3, Zenon DEF Stored
      <4>2. ack[m].active \notin lost
        BY <3>2, <3>3, Zenon DEF Published, CutOff
      <4> QED BY <3>1, <3>3, <4>1, <4>2, Zenon
    <3> QED BY <1>25, <3>2, <3>3, Zenon DEF PowerLoss, Halt
  <2>3. Durable' = Base(r) /\ routesOld' = {} /\ journal' = j
    BY <2>1, Zenon DEF Settle, Durable
  <2>4. CASE r = routes
    <3>1. ASSUME NEW m \in Mounts, ack'[m] # NoAck PROVE Acked(m)'
      <4>1. Acked(m) /\ ack'[m] = ack[m] /\ Sound(m)' /\ (j = journal \/ j = NoJob \/ Inert(j, Durable))
        BY <2>2, <3>1, ZenonT(60) DEF Whole, Recoverable
      <4> HIDE DEF Stored
      <4> QED BY <2>2, <2>3, <2>4, <4>1, ZenonT(60) DEF Durable, Serving
    <3> QED BY <2>2, <3>1, Zenon
  <2>5. CASE r \in routesOld
    <3>1. j = journal /\ journal \in Journals /\ Base(r) \in Tables
          /\ Durable = Apply(journal, Base(r)) /\ routesOld # {}
      BY <1>t, <2>5, EmptyTableType, Zenon DEF Whole, Recoverable, Apart, Shape, TypeOK, Base
    <3>2. ASSUME NEW m \in Mounts, ack[m] # NoAck
          PROVE  m # journal.mount /\ Route(Base(r), m) = ack[m]
      <4>1. Route(Durable, m) = ack[m] /\ ~(journal # NoJob /\ journal.mount = m)
        BY <3>1, <3>2, Zenon
      <4> HIDE DEF Stored
      <4>2. journal \in Jobs /\ journal # NoJob
        BY <3>1, NoJobAssumption, Zenon DEF Journals
      <4> QED BY <3>1, <4>1, <4>2, ApplyElsewhere, Zenon
    <3>3. ASSUME NEW m \in Mounts, ack'[m] # NoAck PROVE Acked(m)'
      <4>1. ack'[m] = ack[m] /\ Sound(m)' /\ m # journal.mount /\ Route(Base(r), m) = ack[m]
        BY <2>2, <3>2, <3>3, Zenon
      <4> HIDE DEF Stored
      <4> QED BY <2>2, <2>3, <3>1, <4>1, ZenonT(60) DEF Serving
    <3> QED BY <2>2, <3>3, Zenon
  <2> QED
    BY <2>4, <2>5, Zenon
<1>26. CASE InstallUnconfirmed \/ RollForwardUnconfirmed \/ DropUnconfirmed
  BY <1>26, Zenon DEF InstallUnconfirmed, RollForwardUnconfirmed, DropUnconfirmed
<1>27. CASE UNCHANGED vars
  BY <1>27, Zenon DEF vars, Durable
<1> HIDE DEF Stored
<1> QED
  BY <1>1, <1>2, <1>3, <1>4, <1>5, <1>6, <1>7, <1>8, <1>9, <1>10, <1>11, <1>12, <1>13, <1>14,
     <1>15, <1>16, <1>17, <1>18, <1>19, <1>20, <1>21, <1>22, <1>23, <1>24, <1>25, <1>26, <1>27
 , Zenon DEF Next, Call, Work, Request, Open, Environment

\* An outcome reported to a client is served, now and after any number of stops and power
\* losses, until another operation on the mount writes, the snapshot rots, or a power loss
\* takes a directory that an earlier Publish renamed without fsyncing it: as long as the
\* writes of HandleCorruption and of recovery are confirmed.
THEOREM AlwaysAcked ==
  ASSUME Unconfirmed \subseteq {"publish"}
  PROVE  Spec => []AckedDurable
<1>a. Apart /\ Rollback /\ Whole /\ [Next]_vars => Whole'
  BY WholeNext
<1>b. Apart /\ Rollback /\ Whole /\ Stored /\ Published /\ [Next]_vars => Stored'
  BY StoredNext
<1>c. Apart /\ Stored /\ Published /\ [Next]_vars => Published'
  BY PublishedNext
<1>1. Spec => [](Apart /\ Rollback /\ Whole /\ Stored /\ Published)
  BY <1>a, <1>b, <1>c, ApartInit, ApartNext, RollbackInit, RollbackNext, WholeInit, StoredInit,
     PublishedInit, PTL
  DEF Spec
<1>2. Stored => AckedDurable
  BY DEF Stored, Acked, InMemory, AckedDurable
<1> QED
  BY <1>1, <1>2, PTL
===============================================================================
