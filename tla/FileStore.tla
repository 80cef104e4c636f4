------------------------------ MODULE FileStore -------------------------------
(***************************************************************************)
(* The file store of the control plane (internal/adapters/store/fs.go) and *)
(* the services that use it.  A command reads what it needs, takes the     *)
(* lock, loads operational/state.json (migrating it first when an older    *)
(* release wrote it), runs its callback on a copy, validates the copy and  *)
(* replaces the file by a rename and an fsync of the directory; a marker,  *)
(* operational/schema.json, follows.                                       *)
(*                                                                         *)
(* "dirs" is the directory operational/ as a sequence of pending contents: *)
(* the last one is what processes read, the first one what is on disk for  *)
(* certain.  A rename appends, an fsync of the directory leaves the last,  *)
(* a power loss keeps any one: renames reach the disk in order, as on a    *)
(* file system with a metadata journal.  Blobs have directories of their   *)
(* own and are "absent", "loose" (renamed, not fsynced) or "durable".      *)
(***************************************************************************)
EXTENDS ControlCommands, Sequences

CONSTANTS
  Clients, Commands, None,
  Free,          \* nobody holds the lock
  FirstDirs,     \* contents of the data directory to start from
  FirstBlobs,    \* the blobs there at the start
  Loose,         \* the fsyncs that may fail: subset of {"state", "marker", "blob"}
  MaxCalls, MaxFaults, MaxTime

VARIABLES
  dirs,    \* pending contents: [version, marker, state]
  blobs,   \* blob directory, by revision
  lock,    \* operational lock: a client or Free
  pc, goal, cmd, view, began, \* what a client is doing, and on which state
  result,  \* the last answer a client got
  clock,
  left     \* calls and faults left

vars == <<dirs, blobs, lock, pc, goal, cmd, view, began, result, clock, left>>
client == <<pc, goal, cmd, view, began, result>>

Current == 4   \* operationalStateVersion
Markers == {0, 3, Current}   \* 0: schema.json does not exist

ASSUME StoreConstants ==
  /\ Free \notin Clients
  /\ \A d \in FirstDirs : d.version \in 0..Current /\ d.marker \in Markers /\ d.marker <= d.version
Times == 1..MaxTime

Here == dirs[Len(dirs)]
Present == {r \in Revisions : blobs[r] # "absent"}

(***************************************************************************)
(* What a directory stands for                                             *)
(***************************************************************************)
\* The state a load computes from the files: of the first release (version 0,
\* no state.json), of an older version, or of the current one.
Meaning(version, raw) ==
  IF version = 0 THEN Flattened(raw)
  ELSE IF version < Current THEN Migrated(version, raw)
  ELSE raw

\* A marker newer than the file, or without a file, is refused.
RefusedByMarker(d) == d.version < d.marker

\* loadOperationalStateLocked returns a state
Loads(d, present) ==
  /\ ~RefusedByMarker(d)
  /\ d.state # Refused
  /\ CASE d.version = 0       -> FlatEvidencePresent(d.state, present)
       [] d.version = Current -> ValidTracks(d.state) /\ ValidReferences(d.state)
       [] OTHER               -> EvidencePresent(d.state, present)

\* The load has to write the state in the current version first.
MustMigrate(d) ==
  IF d.version = 0 THEN d.state # EmptyState /\ ~AwaitsEnrichment(d.state)
  ELSE d.version # Current
MustMark(d) == d.version = Current /\ d.marker # Current

\* The store is opened on a directory an earlier release left: its files load,
\* and the blobs of its complete revisions are there.  The flat files of the
\* first release hold no authorizations, and only they count as touched.
FirstDir(d) == [version |-> d.version, marker |-> d.marker, state |-> Meaning(d.version, d.raw)]
ASSUME FirstDirsAssumption ==
  \A d \in FirstDirs :
    LET S == Meaning(d.version, d.raw) IN
    /\ S \in States /\ Sound(S)
    /\ ValidTracks(S) /\ ValidReferences(S)
    /\ Loads(FirstDir(d), FirstBlobs)
    /\ \A v \in S.revs : v.level = "full" => v.id \in FirstBlobs
    /\ IF d.version = 0 THEN S.auths = {} ELSE S.touched = {}
ASSUME CommandsAssumption ==
  /\ Commands \subseteq CommandRecords
  /\ FirstBlobs \subseteq Revisions
  /\ MaxTime \in Nat \ {0} /\ MaxFaults \in Nat

Init ==
  /\ \E d \in FirstDirs : dirs = <<FirstDir(d)>>
  /\ blobs = [r \in Revisions |-> IF r \in FirstBlobs THEN "durable" ELSE "absent"]
  /\ lock = Free
  /\ pc = [p \in Clients |-> "idle"]
  /\ goal = [p \in Clients |-> "commit"]
  /\ cmd = [p \in Clients |-> None]
  /\ view = [p \in Clients |-> None]
  /\ began = [p \in Clients |-> 1]
  /\ result = [p \in Clients |-> "idle"]
  /\ clock = 1
  /\ left = [calls |-> MaxCalls, faults |-> MaxFaults]

(***************************************************************************)
(* Steps                                                                   *)
(***************************************************************************)
Spend == left.faults > 0 /\ left' = [left EXCEPT !.faults = @ - 1]

\* Replacing a file of operational/: it fails before the rename, is renamed
\* and confirmed, or is renamed and not confirmed.
Fails == Spend /\ UNCHANGED dirs
Replaced(d) == dirs' = <<d>> /\ UNCHANGED left
Unconfirmed(kind, d) == kind \in Loose /\ Spend /\ dirs' = Append(dirs, d)

StateFile(S) == [version |-> Current, marker |-> Here.marker, state |-> Plain(S)]
MarkerFile == [version |-> Here.version, marker |-> Current, state |-> Here.state]

\* A client continues at a step, or returns to its caller.
Goto(p, step) == pc' = [pc EXCEPT ![p] = step] /\ UNCHANGED <<goal, cmd, view, began, result>>
Return(p, answer) ==
  /\ pc' = [pc EXCEPT ![p] = "idle"]
  /\ result' = [result EXCEPT ![p] = answer]
  /\ cmd' = [cmd EXCEPT ![p] = None]
  /\ view' = [view EXCEPT ![p] = None]
  /\ goal' = [goal EXCEPT ![p] = "commit"]
  /\ began' = [began EXCEPT ![p] = 1]
\* An error; after the commit it is an error of the service, not of the store.
Abort(p) == Return(p, IF goal[p] = "readback" THEN "late" ELSE "error")
Unlock == lock' = Free

Start(p, c) ==
  /\ pc[p] = "idle" /\ left.calls > 0
  /\ left' = [left EXCEPT !.calls = @ - 1]
  /\ pc' = [pc EXCEPT ![p] = IF c.op = "sync" THEN "put" ELSE "wait"]
  /\ goal' = [goal EXCEPT ![p] = IF c.op = "coordinate" THEN "evidence" ELSE "commit"]
  /\ cmd' = [cmd EXCEPT ![p] = c]
  /\ began' = [began EXCEPT ![p] = IF c.op \in {"sync", "fail"} THEN clock ELSE 1]
  /\ UNCHANGED <<dirs, blobs, lock, view, result, clock>>

\* Put: a blob that is there is taken as it is, whoever wrote it and whether
\* or not its directory was fsynced; otherwise it is written and renamed.
Put(p) ==
  /\ pc[p] = "put"
  /\ LET r == cmd[p].rev IN
     \/ blobs[r] # "absent" /\ Goto(p, "wait") /\ UNCHANGED <<blobs, left>>
     \/ /\ blobs[r] = "absent" /\ UNCHANGED left
        /\ blobs' = [blobs EXCEPT ![r] = "loose"] /\ Goto(p, "confirm")
     \/ blobs[r] = "absent" /\ Spend /\ Abort(p) /\ UNCHANGED blobs
  /\ UNCHANGED <<dirs, lock, clock>>

\* confirmAtomicReplacement of the blob's directory.
ConfirmBlob(p) ==
  /\ pc[p] = "confirm"
  /\ \/ /\ blobs' = [blobs EXCEPT ![cmd[p].rev] = "durable"]
        /\ Goto(p, "wait") /\ UNCHANGED left
     \/ "blob" \in Loose /\ Spend /\ Abort(p) /\ UNCHANGED blobs
  /\ UNCHANGED <<dirs, lock, clock>>

\* acquireAdmission and acquireOperationalLock, or the context ends first.
Lock(p) ==
  /\ pc[p] = "wait"
  /\ \/ lock = Free /\ lock' = p /\ Goto(p, "load") /\ UNCHANGED left
     \/ Spend /\ Abort(p) /\ UNCHANGED lock
  /\ UNCHANGED <<dirs, blobs, clock>>

LoadFails(p) ==
  /\ pc[p] = "load" /\ Abort(p) /\ Unlock
  /\ \/ ~Loads(Here, Present) /\ UNCHANGED left
     \/ Spend
  /\ UNCHANGED <<dirs, blobs, clock>>

\* Mutant: the marker is written before the migrated state.
MigrateFileMarkerFirst(p) ==
  /\ pc[p] = "load" /\ Loads(Here, Present) /\ MustMigrate(Here)
  /\ \/ Here.marker # Current /\ Replaced(MarkerFile)
     \/ Here.marker = Current /\ Replaced(StateFile(Here.state))
  /\ UNCHANGED <<client, lock, blobs, clock>>

\* publishCurrentOperationalState of a migrated state; its marker is written
\* next, and the load goes on with the state in memory, not with the file.
MigrateFile(p) ==
  /\ pc[p] = "load" /\ Loads(Here, Present) /\ MustMigrate(Here)
  /\ LET d == StateFile(Here.state) IN
     \/ Fails /\ Abort(p) /\ Unlock
     \/ /\ Replaced(d) /\ view' = [view EXCEPT ![p] = Here.state]
        /\ UNCHANGED <<pc, goal, cmd, began, result, lock>>
     \/ Unconfirmed("state", d) /\ Abort(p) /\ Unlock
  /\ UNCHANGED <<blobs, clock>>

\* persistOperationalSchemaMarker of a load.
RecoverMarker(p) ==
  /\ pc[p] = "load" /\ Loads(Here, Present) /\ MustMark(Here)
  /\ \/ Fails /\ Abort(p) /\ Unlock
     \/ Replaced(MarkerFile) /\ UNCHANGED <<client, lock>>
     \/ Unconfirmed("marker", MarkerFile) /\ Abort(p) /\ Unlock
  /\ UNCHANGED <<blobs, clock>>

Loaded(p) == pc[p] = "load" /\ Loads(Here, Present) /\ ~MustMigrate(Here) /\ ~MustMark(Here)

\* Coordinate reads its evidence before its transaction.
ReadEvidence(p) ==
  /\ Loaded(p) /\ goal[p] = "evidence" /\ Unlock
  /\ IF EvidenceSelected(cmd[p], Here.state, Present)
     THEN /\ pc' = [pc EXCEPT ![p] = "wait"]
          /\ goal' = [goal EXCEPT ![p] = "commit"]
          /\ view' = [view EXCEPT ![p] = None]
          /\ UNCHANGED <<cmd, began, result>>
     ELSE Abort(p)
  /\ UNCHANGED <<dirs, blobs, clock, left>>

\* canonicalSyncRecord: a sync reads its record back, which an earlier sync
\* of the same revision may have written.
OwnRecord(p, n) ==
  /\ n.contract = cmd[p].contract /\ n.rev = cmd[p].rev /\ n.ref = cmd[p].ref
  /\ n.result = (IF cmd[p].op = "sync" THEN "success" ELSE "failure")
ReadBack(p) ==
  /\ Loaded(p) /\ goal[p] = "readback" /\ Unlock
  /\ Return(p, IF \E n \in Here.state.syncs : OwnRecord(p, n) THEN "ok" ELSE "late")
  /\ UNCHANGED <<dirs, blobs, clock, left>>

\* A transaction begins with the state its load returned.
Enter(p) ==
  /\ Loaded(p) /\ goal[p] = "commit"
  /\ pc' = [pc EXCEPT ![p] = "loaded"]
  /\ view' = [view EXCEPT ![p] = IF @ = None THEN Here.state ELSE @]
  /\ UNCHANGED <<goal, cmd, began, result, dirs, blobs, lock, clock, left>>

\* The callback, validateOperationalState and the replacement of state.json.
Outcome(p) == Committed(view[p], Run(cmd[p], view[p], began[p], clock), Present)
Commit(p) ==
  /\ pc[p] = "loaded"
  /\ LET S == Outcome(p) IN
     \/ S = Refused /\ Abort(p) /\ Unlock /\ UNCHANGED <<dirs, left>>
     \/ S # Refused /\ Fails /\ Abort(p) /\ Unlock
     \/ S # Refused /\ Replaced(StateFile(S)) /\ Goto(p, "written") /\ UNCHANGED lock
     \/ S # Refused /\ Unconfirmed("state", StateFile(S)) /\ Goto(p, "doubt") /\ Unlock
  /\ UNCHANGED <<blobs, clock>>

\* Within returns nil; a sync goes on to read its record back.
Succeed(p) ==
  IF cmd[p].op \in {"sync", "fail"}
  THEN /\ pc' = [pc EXCEPT ![p] = "wait"]
       /\ goal' = [goal EXCEPT ![p] = "readback"]
       /\ view' = [view EXCEPT ![p] = None]
       /\ UNCHANGED <<cmd, began, result>>
  ELSE Return(p, "ok")

\* Mutant: a marker that cannot be written is a plain error.
MarkError(p) ==
  /\ pc[p] = "written" /\ Unlock
  /\ \/ Here.marker = Current /\ UNCHANGED <<dirs, left>> /\ Succeed(p)
     \/ Fails /\ Return(p, "error")
  /\ UNCHANGED <<blobs, clock>>

\* The marker after a commit.  Whatever goes wrong here, the outcome is unknown.
Mark(p) ==
  /\ pc[p] = "written" /\ Unlock
  /\ \/ Here.marker = Current /\ UNCHANGED <<dirs, left>> /\ Succeed(p)
     \/ Here.marker # Current /\ Replaced(MarkerFile) /\ Succeed(p)
     \/ Fails /\ Return(p, "unknown")
     \/ Here.marker # Current /\ Unconfirmed("marker", MarkerFile) /\ Return(p, "unknown")
  /\ UNCHANGED <<blobs, clock>>

Doubt(p) ==
  /\ pc[p] = "doubt" /\ Return(p, "unknown")
  /\ UNCHANGED <<dirs, blobs, lock, clock, left>>

\* Mutant: the lock outlives its process.
KillKeepsLock(p) ==
  /\ pc[p] # "idle" /\ Spend
  /\ Return(p, IF goal[p] = "readback" THEN "late" ELSE "unknown")
  /\ UNCHANGED <<dirs, blobs, clock, lock>>

\* A process dies: the system releases its lock.
Kill(p) ==
  /\ pc[p] # "idle" /\ Spend
  /\ Return(p, IF goal[p] = "readback" THEN "late" ELSE "unknown")
  /\ lock' = IF lock = p THEN Free ELSE lock
  /\ UNCHANGED <<dirs, blobs, clock>>

PowerLoss ==
  /\ Spend
  /\ \E i \in DOMAIN dirs : dirs' = <<dirs[i]>>
  /\ blobs' \in {b \in [Revisions -> {"absent", "durable"}] :
                   \A r \in Revisions : blobs[r] # "loose" => b[r] = blobs[r]}
  /\ lock' = Free
  /\ pc' = [p \in Clients |-> "idle"]
  /\ goal' = [p \in Clients |-> "commit"]
  /\ cmd' = [p \in Clients |-> None]
  /\ view' = [p \in Clients |-> None]
  /\ began' = [p \in Clients |-> 1]
  /\ result' = [p \in Clients |-> "idle"]
  /\ UNCHANGED clock

Tick == clock < MaxTime /\ clock' = clock + 1 /\ UNCHANGED <<dirs, blobs, lock, client, left>>

Step(p) ==
  \/ Put(p) \/ ConfirmBlob(p) \/ Lock(p) \/ LoadFails(p) \/ MigrateFile(p) \/ RecoverMarker(p)
  \/ ReadEvidence(p) \/ ReadBack(p) \/ Enter(p) \/ Commit(p) \/ Mark(p) \/ Doubt(p)

Next ==
  \/ \E p \in Clients : (\E c \in Commands : Start(p, c)) \/ Step(p) \/ Kill(p)
  \/ PowerLoss
  \/ Tick

Spec == Init /\ [][Next]_vars

(***************************************************************************)
(* Properties                                                              *)
(***************************************************************************)
Steps == {"idle", "put", "confirm", "wait", "load", "loaded", "written", "doubt"}

\* Every variable has its type, and the client at a step inside the lock,
\* and only that one, holds it.
TypeOK ==
  /\ \A i \in DOMAIN dirs : dirs[i].marker \in Markers
  /\ blobs \in [Revisions -> {"absent", "loose", "durable"}]
  /\ lock \in Clients \cup {Free}
  /\ pc \in [Clients -> Steps]
  /\ goal \in [Clients -> {"evidence", "commit", "readback"}]
  /\ \A p \in Clients : cmd[p] \in Commands \cup {None}
  /\ result \in [Clients -> {"idle", "ok", "error", "unknown", "late"}]
  /\ \A p \in Clients : pc[p] \in {"load", "loaded", "written"} <=> lock = p

\* Whatever a power loss leaves of operational/, the next load accepts it:
\* the marker never shuts the store out of its own state.
EverySurvivorLoads == \A i \in DOMAIN dirs : Loads(dirs[i], Present)

\* Every generation a track has taken since its first authenticated decision
\* has exactly one audit event, and the same message in the outbox.
GenerationsAreRecorded ==
  \A i \in DOMAIN dirs :
    LET S == dirs[i].state IN
    S.audit = S.outbox /\ OneEvent(S) /\ GenerationsTaken(S)

\* Decisions of a track were taken in the order their reviews were evaluated,
\* however late they were coordinated.
DecisionsInReviewOrder ==
  \A i \in DOMAIN dirs :
    LET S == dirs[i].state IN
    \A e, f \in S.audit :
      e.track = f.track /\ e.kind = "considered" /\ f.kind = "considered" /\ e.gen < f.gen =>
        Review(S, e.review).at < Review(S, f.review).at

\* Coordinating a decision that is already the track's last changes nothing
\* and is never refused, at whatever time it is retried: a caller that got
\* ErrCommitOutcomeUnknown may repeat it after the review's exceptions expired.
RetryIsHarmless ==
  LET S == Here.state IN
  \A c \in Commands :
    (c.op = "coordinate" /\ EvidenceSelected(c, S, Present)) =>
      LET n == S.tracks[c.track] IN
      (n # NoTrack /\ n.last # NoDecision /\ n.last.review = c.review /\ n.last.accepted = c.accepted) =>
        \A time \in Times : Plain(S) = Committed(S, Coordinate(c, S, time), Present)

\* What a track released is the only public publication of its authorized
\* path, whatever management publishes, until a later decision on the track.
ReleasedIsPublic ==
  LET S == Here.state IN
  \A t \in Tracks :
    LET n == S.tracks[t] IN
    (n # NoTrack /\ n.last # NoDecision /\ Accepts(n.last) /\ n.cand = NoRevision) =>
       \E a \in S.auths :
          /\ a.review = n.last.review /\ a.cand = n.current
          /\ {<<q.contract, q.rev>> : q \in Claims(S, a.path)} = {<<ContractOf[t], n.current>>}

\* Evidence is never changed or removed while the machine runs: no revision
\* loses its owner or its complete evidence, and reviews, authorizations,
\* sync and audit records stay as they were first written.
EvidenceIsImmutable ==
  [][\/ lock' = Free /\ left'.faults < left.faults /\ Len(dirs') < Len(dirs)
     \/ LET S == Here.state  T == Here'.state IN
        /\ S.reviews \subseteq T.reviews /\ S.auths \subseteq T.auths
        /\ S.syncs \subseteq T.syncs /\ S.audit \subseteq T.audit
        /\ \A v \in S.revs : \E w \in T.revs : Keeps(v, w)]_vars

(***************************************************************************)
(* What the repository says of the store and the code does not keep        *)
(***************************************************************************)
\* A committed revision with evidence has its blob, also after a power loss.
CommittedBlobsExist ==
  \A i \in DOMAIN dirs : dirs[i].version # 0 =>
     \A v \in dirs[i].state.revs : v.level = "full" => v.id \in Present

\* A flat record of the first release that waits for its snapshot is completed
\* by the sync that brings it: when nothing else waits and the blob is there,
\* the transaction of that sync commits.
EnrichmentCommits ==
  \A p \in Clients :
    (pc[p] = "loaded" /\ Here.version = 0 /\ cmd[p].op = "sync" /\ cmd[p].rev \in Present) =>
      LET brought == [contract |-> cmd[p].contract, id |-> cmd[p].rev, level |-> "full", ref |-> "commit"] IN
      (\A v \in Here.state.revs : v.level = "partial" => v.id = cmd[p].rev /\ CanEnrich(v, brought)) =>
        Outcome(p) # Refused
===============================================================================
