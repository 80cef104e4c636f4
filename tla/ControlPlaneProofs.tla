-------------------------- MODULE ControlPlaneProofs --------------------------
(***************************************************************************)
(* For every set of clients and commands, any fsync failing and any number *)
(* of faults: steps on operational/ exclude each other, and the schema     *)
(* marker is never ahead of a state file a restart may find, so the store  *)
(* never refuses its own state as too old.  Then the invariant FInv, that  *)
(* every directory a restart may find holds a whole state and every client *)
(* works on what is stored.  From it follow the properties of every state  *)
(* a restart may find, and that the steps of the store are steps of the    *)
(* unit of work its port promises.                                         *)
(***************************************************************************)
EXTENDS ControlPlane, ControlCommandsProofs

\* The steps of a client that holds the lock.
Inside == {"load", "loaded", "written"}

Good(d) == d.version \in 0..Current /\ d.marker \in Markers /\ d.marker <= d.version

DirsGood ==
  /\ \E X : dirs \in Seq(X)
  /\ Len(dirs) > 0
  /\ \A i \in 1..Len(dirs) : Good(dirs[i])
LockRight ==
  /\ pc \in [Clients -> Steps]
  /\ \A p \in Clients : pc[p] \in Inside <=> lock = p
WrittenIsCurrent == \A p \in Clients : pc[p] = "written" => Here.version = Current

IInv == DirsGood /\ LockRight /\ WrittenIsCurrent

\* The directory the next process would read is good when all survivors are.
LEMMA LastIsGood == ASSUME DirsGood PROVE Good(Here)
BY DEF DirsGood, Here

\* An fsync that leaves one good directory leaves good directories.
LEMMA ReplacedGood ==
  ASSUME NEW d, Good(d), dirs' = <<d>>
  PROVE  DirsGood' /\ Here' = d
<1>1. <<d>> \in Seq({d}) /\ Len(<<d>>) = 1 /\ <<d>>[1] = d
  OBVIOUS
<1>2. Here' = d
  BY <1>1 DEF Here
<1>a. dirs' \in Seq({d}) /\ Len(dirs') > 0
  BY <1>1
<1>3. (\E X : dirs' \in Seq(X)) /\ Len(dirs') > 0
  BY <1>a, Zenon
<1>4. \A i \in 1..Len(dirs') : Good(dirs'[i])
  BY <1>1
<1> QED BY <1>2, <1>3, <1>4 DEF DirsGood, Good

\* A rename to a good directory leaves good directories.
LEMMA AppendedGood ==
  ASSUME DirsGood, NEW d, Good(d), dirs' = Append(dirs, d)
  PROVE  DirsGood' /\ Here' = d
<1>1. PICK X : dirs \in Seq(X)
  BY DEF DirsGood
<1>2. dirs \in Seq(X \cup {d})
  BY <1>1
<1>3. /\ dirs' \in Seq(X \cup {d}) /\ Len(dirs') = Len(dirs) + 1
      /\ \A i \in 1..Len(dirs) : dirs'[i] = dirs[i]
      /\ dirs'[Len(dirs) + 1] = d
  BY <1>2
<1>4. Here' = d
  BY <1>3 DEF Here
<1>5. Len(dirs) \in Nat
  BY <1>1
<1>6. \A i \in 1..Len(dirs') : Good(dirs'[i])
  BY <1>3, <1>5 DEF DirsGood
<1>7. DirsGood'
  <2>1. Len(dirs') > 0
    BY <1>3, <1>5
  <2>2. \E Y : dirs' \in Seq(Y)
    BY <1>3
  <2> QED BY <1>6, <2>1, <2>2 DEF DirsGood, Good
<1> QED BY <1>4, <1>7

\* A step that writes nothing leaves good directories.
LEMMA KeptGood ==
  ASSUME dirs' = dirs
  PROVE  (DirsGood => DirsGood') /\ Here' = Here
BY DEF DirsGood, Good, Here

\* Writing the state over a good directory gives a good one of the current version.
LEMMA StateFileGood ==
  ASSUME DirsGood, NEW S PROVE Good(StateFile(S)) /\ StateFile(S).version = Current
<1>1. Good(Here)
  BY LastIsGood
<1>2. StateFile(S).version = Current /\ StateFile(S).marker = Here.marker
  BY DEF StateFile
<1> QED BY <1>1, <1>2 DEF Good, Current, Markers

\* Writing the marker beside a current state gives a good directory.
LEMMA MarkerFileGood ==
  ASSUME Here.version = Current
  PROVE  Good(MarkerFile) /\ MarkerFile.version = Current
<1>1. MarkerFile.version = Here.version /\ MarkerFile.marker = Current
  BY DEF MarkerFile
<1> QED BY <1>1 DEF Good, Current, Markers

\* The ways a client moves with respect to the lock.
LEMMA Stay ==
  ASSUME LockRight, NEW p \in Clients, NEW s \in Steps,
         pc' = [pc EXCEPT ![p] = s], lock' = lock, pc[p] \in Inside <=> s \in Inside
  PROVE  LockRight'
BY DEF LockRight

\* A client that leaves its transaction frees the lock.
LEMMA Leave ==
  ASSUME LockRight, NEW p \in Clients, NEW s \in Steps \ Inside,
         pc' = [pc EXCEPT ![p] = s], lock' = Free, pc[p] \in Inside
  PROVE  LockRight'
BY StoreConstants DEF LockRight

\* A client that takes the free lock is alone inside.
LEMMA Take ==
  ASSUME LockRight, NEW p \in Clients, lock = Free,
         pc' = [pc EXCEPT ![p] = "load"], lock' = p
  PROVE  LockRight'
BY StoreConstants DEF LockRight, Inside, Steps

\* A step that leaves operational/ alone and writes no client "written".
LEMMA NoNewWritten ==
  ASSUME LockRight, WrittenIsCurrent, Here' = Here, NEW p \in Clients, NEW s \in Steps,
         pc' = [pc EXCEPT ![p] = s], s # "written"
  PROVE  WrittenIsCurrent'
BY DEF WrittenIsCurrent, LockRight

\* A step of the client that holds the lock, whatever it writes there.
LEMMA HolderWrites ==
  ASSUME LockRight, NEW p \in Clients, NEW s \in Steps,
         pc[p] \in Inside, pc' = [pc EXCEPT ![p] = s],
         s = "written" => Here'.version = Current
  PROVE  WrittenIsCurrent'
<1> SUFFICES ASSUME NEW q \in Clients, pc'[q] = "written" PROVE Here'.version = Current
  BY DEF WrittenIsCurrent
<1>1. CASE q = p
  BY <1>1 DEF LockRight
<1>2. CASE q # p
  BY <1>2 DEF LockRight, Inside
<1> QED BY <1>1, <1>2

(***************************************************************************)
(* Steps                                                                   *)
(***************************************************************************)
LEMMA InitRight == Init => IInv
<1> SUFFICES ASSUME Init PROVE IInv
  OBVIOUS
<1>1. PICK d \in FirstDirs : dirs = <<FirstDir(d)>>
  BY DEF Init
<1> DEFINE e == FirstDir(d)
<1>2. e.version = d.version /\ e.marker = d.marker
  BY DEF FirstDir
<1>3. Good(e)
  BY <1>2, StoreConstants DEF Good
<1>4. <<e>> \in Seq({e}) /\ Len(<<e>>) = 1 /\ <<e>>[1] = e
  OBVIOUS
<1>5. DirsGood
  <2>a. dirs \in Seq({e}) /\ Len(dirs) > 0
    BY <1>1, <1>4
  <2>1. (\E X : dirs \in Seq(X)) /\ Len(dirs) > 0
    <3> HIDE DEF e
    <3> QED BY <2>a
  <2>2. \A i \in 1..Len(dirs) : Good(dirs[i])
    BY <1>1, <1>3, <1>4
  <2> QED BY <2>1, <2>2 DEF DirsGood
<1>6. pc = [p \in Clients |-> "idle"] /\ lock = Free
  BY DEF Init
<1>7. LockRight /\ WrittenIsCurrent
  BY <1>6, StoreConstants DEF LockRight, WrittenIsCurrent, Inside, Steps
<1> QED BY <1>5, <1>7 DEF IInv

\* Steps outside the lock, and those that take it.
LEMMA OutsideRight ==
  ASSUME IInv, NEW p \in Clients,
         (\E c \in Commands : Start(p, c)) \/ Put(p) \/ ConfirmBlob(p) \/ Lock(p) \/ Doubt(p)
  PROVE  IInv'
<1> USE DEF IInv
<1>1. dirs' = dirs
  BY DEF Start, Put, ConfirmBlob, Lock, Doubt
<1>2. DirsGood' /\ Here' = Here
  BY <1>1, KeptGood
<1>3. CASE \E c \in Commands : Start(p, c)
  <2>1. PICK c \in Commands : Start(p, c)
    BY <1>3
  <2>2. PICK s \in {"put", "wait"} : pc' = [pc EXCEPT ![p] = s]
    BY <2>1, Zenon DEF Start
  <2>3. pc[p] = "idle" /\ lock' = lock
    BY <2>1 DEF Start
  <2> QED BY <1>2, <2>2, <2>3, Stay, NoNewWritten, Zenon DEF Inside, Steps
<1>4. CASE Put(p) \/ ConfirmBlob(p)
  <2>1. PICK s \in {"idle", "confirm", "wait"} : pc' = [pc EXCEPT ![p] = s]
    BY <1>4 DEF Put, ConfirmBlob, Goto, Abort, Return
  <2>2. pc[p] \in {"put", "confirm"} /\ lock' = lock
    BY <1>4 DEF Put, ConfirmBlob
  <2> QED BY <1>2, <2>1, <2>2, Stay, NoNewWritten, Zenon DEF Inside, Steps
<1>5. CASE Lock(p)
  <2>1. CASE lock = Free /\ lock' = p /\ pc' = [pc EXCEPT ![p] = "load"]
    <3>1. LockRight'
      BY <2>1, Take, Zenon
    <3>2. WrittenIsCurrent'
      BY <2>1, <1>2, NoNewWritten, Zenon DEF Steps
    <3> QED BY <1>2, <3>1, <3>2
  <2>2. CASE lock' = lock /\ pc' = [pc EXCEPT ![p] = "idle"]
    <3>1. pc[p] = "wait"
      BY <1>5 DEF Lock
    <3> QED BY <1>2, <2>2, <3>1, Stay, NoNewWritten, Zenon DEF Inside, Steps
  <2> QED BY <1>5, <2>1, <2>2 DEF Lock, Goto, Abort, Return
<1>6. CASE Doubt(p)
  <2>1. pc[p] = "doubt" /\ lock' = lock /\ pc' = [pc EXCEPT ![p] = "idle"]
    BY <1>6 DEF Doubt, Return
  <2> QED BY <1>2, <2>1, Stay, NoNewWritten, Zenon DEF Inside, Steps
<1> QED BY <1>3, <1>4, <1>5, <1>6

\* The holder goes on or leaves without writing.
LEMMA ReadingRight ==
  ASSUME IInv, NEW p \in Clients,
         LoadFails(p) \/ ReadEvidence(p) \/ ReadBack(p) \/ Enter(p)
  PROVE  IInv'
<1> USE DEF IInv
<1>1. dirs' = dirs /\ pc[p] = "load"
  BY DEF LoadFails, ReadEvidence, ReadBack, Enter, Loaded
<1>2. DirsGood' /\ Here' = Here
  BY <1>1, KeptGood
<1>3. CASE LoadFails(p) \/ ReadEvidence(p) \/ ReadBack(p)
  <2>1. lock' = Free
    BY <1>3, ZenonT(60) DEF LoadFails, ReadEvidence, ReadBack, Unlock
  <2>2. PICK s \in {"idle", "wait"} : pc' = [pc EXCEPT ![p] = s]
    BY <1>3 DEF LoadFails, ReadEvidence, ReadBack, Abort, Return
  <2> QED BY <1>1, <1>2, <2>1, <2>2, Leave, NoNewWritten, Zenon DEF Inside, Steps
<1>4. CASE Enter(p)
  <2>1. lock' = lock /\ pc' = [pc EXCEPT ![p] = "loaded"]
    BY <1>4 DEF Enter
  <2> QED BY <1>1, <1>2, <2>1, Stay, NoNewWritten, Zenon DEF Inside, Steps
<1> QED BY <1>3, <1>4

\* The holder replaces a file of operational/, or fails to, and stays inside
\* the lock or leaves it.
LEMMA WritingRight ==
  ASSUME IInv, NEW p \in Clients,
         MigrateFile(p) \/ RecoverMarker(p) \/ Commit(p) \/ Mark(p)
  PROVE  IInv'
<1> USE DEF IInv
<1>1. ASSUME NEW d, Good(d), d.version = Current,
             dirs' = dirs \/ dirs' = <<d>> \/ dirs' = Append(dirs, d)
      PROVE  DirsGood' /\ (Here' = Here \/ Here' = d)
  BY <1>1, KeptGood, ReplacedGood, AppendedGood
<1>2. CASE MigrateFile(p)
  <2> DEFINE d == StateFile(Here.state)
  <2>1. dirs' = dirs \/ dirs' = <<d>> \/ dirs' = Append(dirs, d)
    BY <1>2 DEF MigrateFile, Fails, Replaced, Unconfirmed
  <2>2. Good(d) /\ d.version = Current
    BY StateFileGood
  <2>3. pc[p] = "load" /\ ( \/ lock' = Free /\ pc' = [pc EXCEPT ![p] = "idle"]
                            \/ lock' = lock /\ pc' = pc)
    BY <1>2 DEF MigrateFile, Abort, Return, Unlock, client
  <2> HIDE DEF d
  <2>4. DirsGood'
    BY <1>1, <2>1, <2>2
  <2>5. CASE lock' = Free /\ pc' = [pc EXCEPT ![p] = "idle"]
    BY <2>3, <2>4, <2>5, Leave, HolderWrites, Zenon DEF Inside, Steps
  <2>6. CASE lock' = lock /\ pc' = pc
    <3>1. pc' = [pc EXCEPT ![p] = "load"]
      BY <2>3, <2>6 DEF LockRight
    <3> QED BY <2>3, <2>4, <2>6, <3>1, Stay, HolderWrites, Zenon DEF Inside, Steps
  <2> QED BY <2>3, <2>5, <2>6
<1>3. CASE RecoverMarker(p)
  <2>1. dirs' = dirs \/ dirs' = <<MarkerFile>> \/ dirs' = Append(dirs, MarkerFile)
    BY <1>3 DEF RecoverMarker, Fails, Replaced, Unconfirmed
  <2>2. Good(MarkerFile) /\ MarkerFile.version = Current
    BY <1>3, MarkerFileGood DEF RecoverMarker, MustMark
  <2>3. pc[p] = "load" /\ ( \/ lock' = Free /\ pc' = [pc EXCEPT ![p] = "idle"]
                            \/ lock' = lock /\ pc' = pc)
    BY <1>3 DEF RecoverMarker, Abort, Return, Unlock, client
  <2>4. DirsGood'
    BY <1>1, <2>1, <2>2, ZenonT(60)
  <2>5. CASE lock' = Free /\ pc' = [pc EXCEPT ![p] = "idle"]
    BY <2>3, <2>4, <2>5, Leave, HolderWrites, Zenon DEF Inside, Steps
  <2>6. CASE lock' = lock /\ pc' = pc
    <3>1. pc' = [pc EXCEPT ![p] = "load"]
      BY <2>3, <2>6 DEF LockRight
    <3> QED BY <2>3, <2>4, <2>6, <3>1, Stay, HolderWrites, Zenon DEF Inside, Steps
  <2> QED BY <2>3, <2>5, <2>6
<1>4. CASE Commit(p)
  <2> DEFINE d == StateFile(Outcome(p))
  <2>1. dirs' = dirs \/ dirs' = <<d>> \/ dirs' = Append(dirs, d)
    BY <1>4 DEF Commit, Fails, Replaced, Unconfirmed
  <2>2. Good(d) /\ d.version = Current
    BY StateFileGood
  <2>3. /\ pc[p] = "loaded"
        /\ \/ lock' = Free /\ \E s \in {"idle", "doubt"} : pc' = [pc EXCEPT ![p] = s]
           \/ lock' = lock /\ pc' = [pc EXCEPT ![p] = "written"] /\ dirs' = <<d>>
    BY <1>4 DEF Commit, Abort, Return, Unlock, Goto, Replaced
  <2> HIDE DEF d
  <2>4. DirsGood'
    BY <1>1, <2>1, <2>2
  <2>5. CASE lock' = Free /\ \E s \in {"idle", "doubt"} : pc' = [pc EXCEPT ![p] = s]
    BY <2>3, <2>4, <2>5, Leave, HolderWrites, Zenon DEF Inside, Steps
  <2>6. CASE lock' = lock /\ pc' = [pc EXCEPT ![p] = "written"] /\ dirs' = <<d>>
    <3>1. Here' = d
      BY <2>2, <2>6, ReplacedGood
    <3> QED BY <2>2, <2>3, <2>4, <2>6, <3>1, Stay, HolderWrites, Zenon DEF Inside, Steps
  <2> QED BY <2>3, <2>5, <2>6
<1>5. CASE Mark(p)
  <2>1. dirs' = dirs \/ dirs' = <<MarkerFile>> \/ dirs' = Append(dirs, MarkerFile)
    BY <1>5 DEF Mark, Fails, Replaced, Unconfirmed
  <2>2. pc[p] = "written" /\ lock' = Free
    BY <1>5 DEF Mark, Unlock
  <2>3. Good(MarkerFile) /\ MarkerFile.version = Current
    BY <2>2, MarkerFileGood, Zenon DEF WrittenIsCurrent
  <2>4. \E s \in {"idle", "wait"} : pc' = [pc EXCEPT ![p] = s]
    BY <1>5 DEF Mark, Succeed, Return
  <2>5. DirsGood'
    BY <1>1, <2>1, <2>3
  <2> QED BY <2>2, <2>4, <2>5, Leave, HolderWrites, Zenon DEF Inside, Steps
<1> QED BY <1>2, <1>3, <1>4, <1>5

\* A process dies, the machine loses power, the clock moves.
LEMMA FaultRight ==
  ASSUME IInv, (\E p \in Clients : Kill(p)) \/ PowerLoss \/ Tick \/ UNCHANGED vars
  PROVE  IInv'
<1> USE DEF IInv
<1>1. CASE \E p \in Clients : Kill(p)
  <2>1. PICK p \in Clients : Kill(p)
    BY <1>1
  <2>2. /\ dirs' = dirs
        /\ pc[p] # "idle" /\ pc' = [pc EXCEPT ![p] = "idle"]
        /\ lock' = IF lock = p THEN Free ELSE lock
    BY <2>1 DEF Kill, Return
  <2>3. DirsGood' /\ Here' = Here
    BY <2>2, KeptGood
  <2>4. WrittenIsCurrent'
    BY <2>2, <2>3, NoNewWritten, Zenon DEF Steps
  <2>5. CASE lock = p
    <3>1. pc[p] \in Inside
      BY <2>5 DEF LockRight
    <3> QED BY <2>2, <2>3, <2>4, <2>5, <3>1, Leave, Zenon DEF Inside, Steps
  <2>6. CASE lock # p
    <3>1. pc[p] \notin Inside
      BY <2>6 DEF LockRight
    <3> QED BY <2>2, <2>3, <2>4, <2>6, <3>1, Stay, Zenon DEF Inside, Steps
  <2> QED BY <2>5, <2>6
<1>2. CASE PowerLoss
  <2>1. PICK i \in DOMAIN dirs : dirs' = <<dirs[i]>>
    BY <1>2 DEF PowerLoss
  <2>2. DOMAIN dirs = 1..Len(dirs)
    BY DEF DirsGood
  <2>3. Good(dirs[i])
    BY <2>1, <2>2 DEF DirsGood
  <2>4. DirsGood'
    BY <2>1, <2>3, ReplacedGood
  <2>5. pc' = [p \in Clients |-> "idle"] /\ lock' = Free
    BY <1>2 DEF PowerLoss
  <2>6. LockRight' /\ WrittenIsCurrent'
    BY <2>5, StoreConstants DEF LockRight, WrittenIsCurrent, Inside, Steps
  <2> QED BY <2>4, <2>6
<1>3. CASE Tick \/ UNCHANGED vars
  <2>1. dirs' = dirs /\ pc' = pc /\ lock' = lock
    BY <1>3 DEF Tick, vars, client
  <2>2. DirsGood' /\ Here' = Here
    BY <2>1, KeptGood
  <2> QED BY <2>1, <2>2 DEF LockRight, WrittenIsCurrent
<1> QED BY <1>1, <1>2, <1>3

\* The invariant is inductive.
LEMMA NextRight == IInv /\ [Next]_vars => IInv'
<1> SUFFICES ASSUME IInv, [Next]_vars PROVE IInv'
  OBVIOUS
<1>1. CASE \E p \in Clients : (\E c \in Commands : Start(p, c)) \/ Step(p)
  BY <1>1, OutsideRight, ReadingRight, WritingRight DEF Step
<1>2. CASE (\E p \in Clients : Kill(p)) \/ PowerLoss \/ Tick \/ UNCHANGED vars
  BY <1>2, FaultRight
<1> QED BY <1>1, <1>2 DEF Next

(***************************************************************************)
(* What every directory holds                                              *)
(***************************************************************************)
\* A directory of the current version holds a whole state without marks; an
\* older one is as the store was opened on it.
KeptDir(d) ==
  /\ Whole(d.state)
  /\ d.version = Current => d.state.touched = {}
  /\ d.version # Current => \E f \in FirstDirs : d = FirstDir(f)
DirsKept == \A i \in 1..Len(dirs) : KeptDir(dirs[i])

BlobsKept ==
  /\ blobs \in [Revisions -> {"absent", "loose", "durable"}]
  /\ \A r \in FirstBlobs : blobs[r] = "durable"

Goals == {"evidence", "commit", "readback"}
Results == {"idle", "ok", "error", "unknown", "late"}
ClientTypes ==
  /\ goal \in [Clients -> Goals] /\ cmd \in [Clients -> Commands \cup {None}]
  /\ DOMAIN view = Clients /\ began \in [Clients -> Times] /\ result \in [Clients -> Results]
  /\ clock \in Times /\ lock \in Clients \cup {Free} /\ left.faults \in Nat

\* What a load returns: a whole state that differs from the one in the
\* directory at most in its marks.
Viewed(S, T) == Whole(S) /\ Plain(S) = Plain(T)

\* What a client has in hand at its step.
ClientKept(p) ==
  /\ IF pc[p] = "idle" THEN cmd[p] = None ELSE cmd[p] \in Commands
  /\ pc[p] \notin {"wait", "load"} => goal[p] = "commit"
  /\ pc[p] \in {"put", "confirm"} => cmd[p].op = "sync"
  /\ pc[p] \in {"idle", "put", "confirm", "wait"} => view[p] = None
  /\ pc[p] = "load" => view[p] = None \/ Viewed(view[p], Here.state)
  /\ pc[p] = "loaded" => Viewed(view[p], Here.state)
  /\ pc[p] = "written" => Len(dirs) = 1

FInv ==
  /\ IInv /\ DirsKept /\ BlobsKept /\ ClientTypes
  /\ \A p \in Clients : ClientKept(p)

\* The directory processes read is one of those that may survive.
LEMMA HereKept == ASSUME DirsGood, DirsKept PROVE KeptDir(Here)
BY DEF DirsGood, DirsKept, Here

\* A directory that is written whole keeps all of them whole.
LEMMA WritesKept ==
  ASSUME DirsGood, DirsKept, NEW d, KeptDir(d), dirs' = <<d>> \/ dirs' = Append(dirs, d)
  PROVE  DirsKept' /\ Here' = d
<1>1. CASE dirs' = <<d>>
  <2>1. Len(<<d>>) = 1 /\ <<d>>[1] = d
    OBVIOUS
  <2>2. \A i \in 1..Len(dirs') : dirs'[i] = d
    BY <1>1, <2>1
  <2>3. Here' = d
    BY <1>1, <2>1 DEF Here
  <2> QED BY <2>2, <2>3 DEF DirsKept, KeptDir
<1>2. CASE dirs' = Append(dirs, d)
  <2>1. PICK X : dirs \in Seq(X)
    BY DEF DirsGood
  <2>2. dirs \in Seq(X \cup {d})
    BY <2>1
  <2>3. /\ Len(dirs) \in Nat /\ Len(dirs') = Len(dirs) + 1 /\ dirs'[Len(dirs) + 1] = d
        /\ \A i \in 1..Len(dirs) : dirs'[i] = dirs[i]
    BY <1>2, <2>2
  <2>4. Here' = d
    BY <2>3 DEF Here
  <2>5. \A i \in 1..Len(dirs') : dirs'[i] = d \/ (i \in 1..Len(dirs) /\ dirs'[i] = dirs[i])
    BY <2>3
  <2> QED BY <2>4, <2>5 DEF DirsKept, KeptDir
<1> QED BY <1>1, <1>2, Zenon

\* Evidence is kept by a state that keeps the records.
LEMMA EvolvesSame ==
  ASSUME NEW S, NEW T, T.revs = S.revs, T.reviews = S.reviews, T.auths = S.auths,
         T.syncs = S.syncs, T.audit = S.audit
  PROVE  Evolves(S, T)
BY DEF Evolves, Keeps

\* The state of a whole state without its marks.
LEMMA PlainWhole ==
  ASSUME NEW S, Whole(S)
  PROVE  /\ Whole(Plain(S)) /\ Plain(S).touched = {} /\ Plain(Plain(S)) = Plain(S)
         /\ Plain(S).revs = S.revs /\ Evolves(S, Plain(S))
         /\ S.touched = {} => Plain(S) = S
<1>1. S \in States
  BY DEF Whole
<1>2. Twin(Plain(S), S) /\ Plain(S) \in States /\ Plain(S).touched = {}
  BY <1>1, PlainTwin
<1>3. Whole(Plain(S))
  BY <1>2, TwinsValid DEF Whole
<1>4. Evolves(S, Plain(S))
  BY <1>2, EvolvesSame DEF Twin
<1>5. Plain(Plain(S)) = Plain(S)
  BY <1>1, Zenon DEF Plain, States
<1>6. ASSUME S.touched = {} PROVE Plain(S) = S
  BY <1>1, <1>6, Zenon DEF Plain, States
<1> QED BY <1>2, <1>3, <1>4, <1>5, <1>6 DEF Twin

\* States that differ in their marks hold the same evidence.
LEMMA SamePlain ==
  ASSUME NEW S, NEW T, Whole(S), Whole(T), Plain(S) = Plain(T)
  PROVE  /\ S.revs = T.revs /\ S.reviews = T.reviews /\ S.auths = T.auths
         /\ S.syncs = T.syncs /\ S.audit = T.audit
<1>1. Twin(Plain(S), S) /\ Twin(Plain(T), T)
  BY PlainTwin DEF Whole
<1> QED BY <1>1, Zenon DEF Twin

\* What a migration writes.
LEMMA MigrationKept ==
  ASSUME DirsGood, DirsKept, NEW d, d = StateFile(Here.state)
  PROVE  /\ KeptDir(d) /\ Evolves(Here.state, d.state)
         /\ Plain(d.state) = Plain(Here.state) /\ d.state.revs = Here.state.revs
<1>1. Whole(Here.state)
  BY HereKept DEF KeptDir
<1>2. d.version = Current /\ d.state = Plain(Here.state)
  BY DEF StateFile
<1> QED BY <1>1, <1>2, PlainWhole DEF KeptDir

\* What writing the marker writes.
LEMMA MarkKept ==
  ASSUME DirsGood, DirsKept, Here.version = Current, NEW d, d = MarkerFile
  PROVE  KeptDir(d) /\ d.state = Here.state /\ Evolves(Here.state, d.state)
<1>1. KeptDir(Here)
  BY HereKept
<1>2. d.version = Current /\ d.state = Here.state
  BY DEF MarkerFile
<1>3. Evolves(Here.state, d.state)
  BY <1>2, EvolvesSame, Zenon
<1> QED BY <1>1, <1>2, <1>3 DEF KeptDir

\* What a commit writes.
LEMMA CommitKept ==
  ASSUME FInv, NEW p \in Clients, pc[p] = "loaded", Outcome(p) # Refused,
         NEW d, d = StateFile(Outcome(p))
  PROVE  /\ KeptDir(d) /\ Evolves(Here.state, d.state) /\ Plain(d.state) = d.state
         /\ d.state \in Effects(cmd[p], Plain(Here.state))
<1> DEFINE S == view[p]
           Z == Outcome(p)
<1>1. Whole(S) /\ Plain(S) = Plain(Here.state) /\ Whole(Here.state)
  BY HereKept DEF FInv, IInv, KeptDir, ClientKept, Viewed
<1>2. cmd[p] \in Commands
  BY DEF FInv, ClientKept
<1>3. began[p] \in Times /\ clock \in Times /\ Times \subseteq Nat /\ cmd[p] \in CommandRecords
  BY <1>2, CommandsAssumption DEF FInv, ClientTypes, Times
<1>4. Present \in SUBSET Revisions
  BY Zenon DEF Present
<1>5. Z = Committed(S, Run(cmd[p], S, began[p], clock), Present)
  BY DEF Outcome
<1> HIDE DEF S, Z
<1>a. Z # Refused
  BY DEF Z
<1>6. Z # Refused /\ began[p] \in Nat /\ clock \in Nat
  BY <1>3, <1>a, ZenonT(60)
<1>7. /\ Whole(Z) /\ Z.touched = {} /\ Evolves(S, Z)
      /\ Z = Committed(Plain(S), Run(cmd[p], Plain(S), began[p], clock), Revisions)
  <2>1. cmd[p] \in CommandRecords
    BY <1>3, ZenonT(60)
  <2> QED BY <1>1, <1>4, <1>5, <1>6, <2>1, Commits
<1>8. d.version = Current /\ d.state = Z
  BY <1>7, PlainWhole DEF StateFile, Z
<1>9. Z \in Effects(cmd[p], Plain(S))
  BY <1>3, <1>6, <1>7, SMTT(30) DEF Effects
<1>10. Plain(Z) = Z
  BY <1>7, PlainWhole
<1>11. Evolves(Here.state, Z)
  BY <1>1, <1>7, SamePlain, SMTT(30) DEF Evolves
<1> QED BY <1>1, <1>7, <1>8, <1>9, <1>10, <1>11, Zenon DEF KeptDir

(***************************************************************************)
(* Clients                                                                 *)
(***************************************************************************)
\* The other clients go on with what they have.
Others(p) ==
  \A q \in Clients \ {p} :
    /\ pc'[q] = pc[q] /\ goal'[q] = goal[q] /\ cmd'[q] = cmd[q]
    /\ view'[q] = view[q] /\ result'[q] = result[q]

\* A client that goes on changes nothing but its step.
LEMMA Goes ==
  ASSUME LockRight, ClientTypes, NEW p \in Clients, NEW s, Goto(p, s)
  PROVE  /\ Others(p) /\ pc'[p] = s /\ cmd' = cmd /\ goal' = goal /\ view' = view
         /\ began' = began /\ result' = result
BY Zenon DEF LockRight, ClientTypes, Goto, Others

\* A client that returns has nothing in hand.
LEMMA Returns ==
  ASSUME LockRight, ClientTypes, NEW p \in Clients, NEW answer \in Results, Return(p, answer)
  PROVE  /\ Others(p) /\ ClientKept(p)'
         /\ goal' \in [Clients -> Goals] /\ cmd' \in [Clients -> Commands \cup {None}]
         /\ DOMAIN view' = Clients /\ began' \in [Clients -> Times]
         /\ result' \in [Clients -> Results]
<1>1. /\ pc'[p] = "idle" /\ cmd'[p] = None /\ goal'[p] = "commit" /\ view'[p] = None
      /\ \A q \in Clients \ {p} : pc'[q] = pc[q] /\ goal'[q] = goal[q] /\ cmd'[q] = cmd[q]
                                   /\ view'[q] = view[q] /\ result'[q] = result[q]
  BY Zenon DEF LockRight, ClientTypes, Return
<1>2. ClientKept(p)'
  BY <1>1 DEF ClientKept
<1>3. 1 \in Times
  BY CommandsAssumption DEF Times
<1>4. /\ goal' \in [Clients -> Goals] /\ cmd' \in [Clients -> Commands \cup {None}]
      /\ DOMAIN view' = Clients
  BY DEF ClientTypes, Return, Goals
<1>5. began' \in [Clients -> Times] /\ result' \in [Clients -> Results]
  BY <1>3 DEF ClientTypes, Return
<1> QED BY <1>1, <1>2, <1>4, <1>5, Zenon DEF Others

\* An error is an answer.
LEMMA AbortReturns ==
  ASSUME NEW p, Abort(p)
  PROVE  \E answer \in Results : Return(p, answer)
BY DEF Abort, Results

\* What the others have in hand stays right when operational/ stays, or when
\* none of them is inside.
LEMMA OthersKept ==
  ASSUME FInv, NEW p \in Clients, Others(p), ClientKept(p)',
         dirs' = dirs \/ pc[p] \in Inside
  PROVE  \A q \in Clients : ClientKept(q)'
<1> SUFFICES ASSUME NEW q \in Clients, q # p PROVE ClientKept(q)'
  BY Zenon
<1>1. ClientKept(q) /\ pc'[q] = pc[q] /\ goal'[q] = goal[q] /\ cmd'[q] = cmd[q] /\ view'[q] = view[q]
  BY ZenonT(60) DEF FInv, Others
<1>2. CASE dirs' = dirs
  <2>1. Here' = Here
    BY <1>2, Zenon DEF Here
  <2> QED BY <1>1, <1>2, <2>1 DEF ClientKept
<1>3. CASE pc[p] \in Inside
  <2>1. pc[q] \notin Inside
    BY <1>3, ZenonT(60) DEF FInv, IInv, LockRight
  <2> QED BY <1>1, <2>1 DEF ClientKept, Inside
<1> QED BY <1>2, <1>3

\* A step of a client that returns.
LEMMA ReturnKeeps ==
  ASSUME FInv, NEW p \in Clients, NEW answer \in Results, Return(p, answer),
         dirs' = dirs \/ pc[p] \in Inside, clock' = clock,
         lock' \in Clients \cup {Free}, left'.faults \in Nat
  PROVE  ClientTypes' /\ \A q \in Clients : ClientKept(q)'
<1>1. LockRight /\ ClientTypes
  BY Zenon DEF FInv, IInv
<1>2. /\ Others(p) /\ ClientKept(p)'
      /\ goal' \in [Clients -> Goals] /\ cmd' \in [Clients -> Commands \cup {None}]
      /\ DOMAIN view' = Clients /\ began' \in [Clients -> Times]
      /\ result' \in [Clients -> Results]
  BY <1>1, Returns, Zenon
<1>3. ClientTypes'
  BY <1>1, <1>2, Zenon DEF ClientTypes
<1> QED BY <1>2, <1>3, OthersKept

\* A step of a client that goes on.
LEMMA GotoKeeps ==
  ASSUME FInv, NEW p \in Clients, NEW s, Goto(p, s), s # "idle", pc[p] # "idle",
         s \notin {"wait", "load"} => goal[p] = "commit",
         s \notin {"put", "loaded"}, s = "written" => Len(dirs') = 1,
         s \in {"confirm", "wait", "load"} => pc[p] \in {"put", "confirm", "wait"},
         s = "confirm" => pc[p] = "put",
         dirs' = dirs \/ pc[p] \in Inside, clock' = clock,
         lock' \in Clients \cup {Free}, left'.faults \in Nat
  PROVE  ClientTypes' /\ \A q \in Clients : ClientKept(q)'
<1>1. LockRight /\ ClientTypes /\ ClientKept(p)
  BY DEF FInv, IInv
<1>2. /\ Others(p) /\ pc'[p] = s /\ cmd' = cmd /\ goal' = goal /\ view' = view
      /\ began' = began /\ result' = result
  BY <1>1, Goes, Zenon
<1>3. ClientKept(p)'
  BY <1>1, <1>2, ZenonT(60) DEF ClientKept
<1>4. ClientTypes'
  BY <1>1, <1>2 DEF ClientTypes
<1> QED BY <1>2, <1>3, <1>4, OthersKept, Zenon

\* Faults that are spent.
LEMMA Spends == ASSUME left.faults \in Nat, Spend PROVE left'.faults \in Nat
BY DEF Spend


(***************************************************************************)
(* Steps on operational/, on the blobs and of the clients                  *)
(***************************************************************************)
\* What a step writes to operational/: nothing, or a whole state that keeps
\* the evidence of the one before it.
Writing(d) ==
  /\ KeptDir(d) /\ Evolves(Here.state, d.state)
  /\ d.version = Current
Writes == dirs' = dirs \/ \E d : Writing(d) /\ (dirs' = <<d>> \/ dirs' = Append(dirs, d))

\* Steps of clients write whole states.
LEMMA StepWrites ==
  ASSUME FInv, NEW p \in Clients, Step(p) \/ (\E c \in Commands : Start(p, c)) \/ Kill(p)
  PROVE  Writes
<1>1. DirsGood /\ DirsKept
  BY Zenon DEF FInv, IInv
<1>2. CASE MigrateFile(p)
  <2> DEFINE d == StateFile(Here.state)
  <2>1. dirs' = dirs \/ dirs' = <<d>> \/ dirs' = Append(dirs, d)
    BY <1>2 DEF MigrateFile, Fails, Replaced, Unconfirmed
  <2>2. d.version = Current
    BY Zenon DEF StateFile
  <2>3. /\ KeptDir(d) /\ Evolves(Here.state, d.state) /\ d.state.revs = Here.state.revs
    BY <1>1, MigrationKept
  <2> HIDE DEF d
  <2> QED BY <2>1, <2>2, <2>3 DEF Writes, Writing
<1>3. CASE RecoverMarker(p)
  <2> DEFINE d == MarkerFile
  <2>1. dirs' = dirs \/ dirs' = <<d>> \/ dirs' = Append(dirs, d)
    BY <1>3 DEF RecoverMarker, Fails, Replaced, Unconfirmed
  <2>2. Here.version = Current
    BY <1>3 DEF RecoverMarker, MustMark
  <2>3. /\ KeptDir(d) /\ Evolves(Here.state, d.state) /\ d.state = Here.state
    BY <1>1, <2>2, MarkKept, SMTT(30)
  <2>4. d.version = Current
    BY <2>2 DEF MarkerFile
  <2> HIDE DEF d
  <2> QED BY <2>1, <2>3, <2>4 DEF Writes, Writing
<1>4. CASE Commit(p)
  <2> DEFINE d == StateFile(Outcome(p))
  <2>1. pc[p] = "loaded"
    BY <1>4 DEF Commit
  <2>2. dirs' = dirs \/ (Outcome(p) # Refused /\ (dirs' = <<d>> \/ dirs' = Append(dirs, d)))
    BY <1>4 DEF Commit, Fails, Replaced, Unconfirmed
  <2>3. d.version = Current
    BY Zenon DEF StateFile
  <2>4. CASE Outcome(p) # Refused /\ (dirs' = <<d>> \/ dirs' = Append(dirs, d))
    <3>1. KeptDir(d) /\ Evolves(Here.state, d.state)
      BY <2>1, <2>4, CommitKept, Zenon
    <3> HIDE DEF d
    <3> QED BY <2>3, <2>4, <3>1, Zenon DEF Writes, Writing
  <2> QED BY <2>2, <2>4 DEF Writes
<1>5. CASE Mark(p)
  <2> DEFINE d == MarkerFile
  <2>1. dirs' = dirs \/ dirs' = <<d>> \/ dirs' = Append(dirs, d)
    BY <1>5, Zenon DEF Mark, Fails, Replaced, Unconfirmed
  <2>2. Here.version = Current
    BY <1>5, ZenonT(60) DEF Mark, FInv, IInv, WrittenIsCurrent
  <2>3. /\ KeptDir(d) /\ Evolves(Here.state, d.state) /\ d.state = Here.state
    BY <1>1, <2>2, MarkKept, Zenon
  <2>4. d.version = Current
    BY <2>2 DEF MarkerFile
  <2> HIDE DEF d
  <2> QED BY <2>1, <2>3, <2>4 DEF Writes, Writing
<1>6. CASE (\E c \in Commands : Start(p, c)) \/ Put(p) \/ ConfirmBlob(p) \/ Lock(p) \/ LoadFails(p)
           \/ ReadEvidence(p) \/ ReadBack(p) \/ Enter(p) \/ Doubt(p) \/ Kill(p)
  BY <1>6 DEF Start, Put, ConfirmBlob, Lock, LoadFails, ReadEvidence, ReadBack, Enter, Doubt, Kill, Writes
<1> QED BY <1>2, <1>3, <1>4, <1>5, <1>6, Zenon DEF Step

\* Whatever a power loss leaves is whole.
LEMMA DirsStep ==
  ASSUME FInv, Writes \/ PowerLoss
  PROVE  DirsKept'
<1>1. DirsGood /\ DirsKept
  BY Zenon DEF FInv, IInv
<1>2. CASE dirs' = dirs
  BY <1>1, <1>2, Zenon DEF DirsKept, KeptDir
<1>3. CASE \E d : Writing(d) /\ (dirs' = <<d>> \/ dirs' = Append(dirs, d))
  BY <1>1, <1>3, WritesKept, Zenon DEF Writing
<1>4. CASE PowerLoss
  <2>1. PICK i \in DOMAIN dirs : dirs' = <<dirs[i]>>
    BY <1>4 DEF PowerLoss
  <2>2. i \in 1..Len(dirs)
    BY <1>1 DEF DirsGood
  <2> QED BY <1>1, <2>1, <2>2, WritesKept, Zenon DEF DirsKept
<1> QED BY <1>2, <1>3, <1>4 DEF Writes

\* A blob that is there at the start stays.
LEMMA BlobsStep ==
  ASSUME FInv, [Next]_vars
  PROVE  BlobsKept'
<1>1. BlobsKept
  BY DEF FInv
<1>2. CASE blobs' = blobs
  BY <1>1, <1>2 DEF BlobsKept
<1>3. CASE \E p \in Clients : Put(p) \/ ConfirmBlob(p)
  <2>1. PICK p \in Clients : Put(p) \/ ConfirmBlob(p)
    BY <1>3, Zenon
  <2>a. cmd[p] \in Commands /\ cmd[p].op = "sync"
    BY <2>1 DEF FInv, ClientKept, Put, ConfirmBlob
  <2>2. cmd[p] \in CommandRecords /\ cmd[p].op = "sync"
    BY <2>a, CommandsAssumption
  <2>3. cmd[p].rev \in Revisions
    BY <2>2, ZenonT(60) DEF CommandRecords
  <2>4. \/ blobs' = blobs
        \/ blobs' = [blobs EXCEPT ![cmd[p].rev] = "durable"]
        \/ /\ blobs[cmd[p].rev] = "absent"
           /\ blobs' = [blobs EXCEPT ![cmd[p].rev] = "loose"]
    BY <2>1 DEF Put, ConfirmBlob
  <2> QED BY <1>1, <2>3, <2>4, CommandsAssumption DEF BlobsKept
<1>4. CASE PowerLoss
  <2>1. /\ blobs' \in [Revisions -> {"absent", "durable"}]
        /\ \A r \in Revisions : blobs[r] # "loose" => blobs'[r] = blobs[r]
    BY <1>4, Zenon DEF PowerLoss
  <2> QED BY <1>1, <2>1, CommandsAssumption, Zenon DEF BlobsKept
<1>5. blobs' = blobs \/ (\E p \in Clients : Put(p) \/ ConfirmBlob(p)) \/ PowerLoss
  BY DEF Next, Step, Start, Lock, LoadFails, MigrateFile, RecoverMarker, ReadEvidence, ReadBack,
         Enter, Commit, Mark, Doubt, Kill, Tick, vars
<1> QED BY <1>2, <1>3, <1>4, <1>5


Clean == ClientTypes' /\ \A q \in Clients : ClientKept(q)'

\* Calls, puts, the lock, and the end of a command in doubt.
LEMMA OutsideClean ==
  ASSUME FInv, NEW p \in Clients,
         \/ (\E c \in Commands : Start(p, c)) \/ Put(p) \/ ConfirmBlob(p)
         \/ Lock(p) \/ Doubt(p) \/ Kill(p)
  PROVE  Clean
<1>1. LockRight /\ ClientTypes /\ ClientKept(p)
  BY DEF FInv, IInv
<1>2. CASE \E c \in Commands : Start(p, c)
  <2>1. PICK c \in Commands : Start(p, c)
    BY <1>2
  <2>2. c \in CommandRecords
    BY CommandsAssumption
  <2>3. /\ pc'[p] = IF c.op = "sync" THEN "put" ELSE "wait"
        /\ goal'[p] = IF c.op = "coordinate" THEN "evidence" ELSE "commit"
        /\ cmd'[p] = c /\ view'[p] = None
    BY <1>1, <2>1 DEF Start, LockRight, ClientTypes, ClientKept
  <2>4. Others(p)
    BY <1>1, <2>1, Zenon DEF Start, LockRight, ClientTypes, Others
  <2>5. ClientKept(p)'
    BY <2>3 DEF ClientKept
  <2>6. dirs' = dirs
    BY <2>1 DEF Start
  <2>7. 1 \in Times
    BY CommandsAssumption DEF Times
  <2>8. /\ goal' \in [Clients -> Goals] /\ cmd' \in [Clients -> Commands \cup {None}]
        /\ began' \in [Clients -> Times]
    BY <1>1, <2>1, <2>7 DEF Start, ClientTypes, Goals
  <2>9. /\ view' = view /\ result' = result /\ clock' = clock /\ lock' = lock
        /\ left'.faults = left.faults
    BY <2>1, SMTT(30) DEF Start
  <2>10. ClientTypes'
    BY <1>1, <2>8, <2>9, SMTT(30) DEF ClientTypes
  <2> QED BY <2>4, <2>5, <2>6, <2>10, OthersKept, Zenon DEF Clean
<1>3. CASE Put(p) \/ ConfirmBlob(p)
  <2>1. /\ dirs' = dirs /\ clock' = clock /\ lock' \in Clients \cup {Free} /\ pc[p] \in {"put", "confirm"}
        /\ goal[p] = "commit"
    BY <1>1, <1>3 DEF Put, ConfirmBlob, ClientTypes, ClientKept
  <2>2. left'.faults \in Nat
    BY <1>1, <1>3, Spends, Zenon DEF Put, ConfirmBlob, ClientTypes
  <2>3. Goto(p, "wait") \/ (Goto(p, "confirm") /\ pc[p] = "put") \/ Abort(p)
    BY <1>3, Zenon DEF Put, ConfirmBlob
  <2> QED BY <2>1, <2>2, <2>3, AbortReturns, ReturnKeeps, GotoKeeps, Zenon DEF Clean
<1>4. CASE Lock(p)
  <2>1. /\ dirs' = dirs /\ clock' = clock /\ pc[p] = "wait"
    BY <1>4, Zenon DEF Lock
  <2>2. left'.faults \in Nat
    BY <1>1, <1>4, Spends, Zenon DEF Lock, ClientTypes
  <2>3. lock' \in Clients \cup {Free}
    BY <1>1, <1>4, Zenon DEF Lock, ClientTypes
  <2>4. Goto(p, "load") \/ Abort(p)
    BY <1>4 DEF Lock
  <2> QED BY <2>1, <2>2, <2>3, <2>4, AbortReturns, ReturnKeeps, GotoKeeps, Zenon DEF Clean
<1>5. CASE Doubt(p)
  <2>1. /\ dirs' = dirs /\ clock' = clock /\ lock' \in Clients \cup {Free} /\ left'.faults \in Nat
        /\ Return(p, "unknown")
    BY <1>1, <1>5, Zenon DEF Doubt, ClientTypes
  <2>2. "unknown" \in Results
    BY DEF Results
  <2> QED BY <2>1, <2>2, ReturnKeeps, Zenon DEF Clean
<1>6. CASE Kill(p)
  <2>1. /\ dirs' = dirs /\ clock' = clock /\ lock' \in Clients \cup {Free}
    BY <1>1, <1>6, Zenon DEF Kill, ClientTypes
  <2>2. left'.faults \in Nat
    BY <1>1, <1>6, Spends, Zenon DEF Kill, ClientTypes
  <2>3. \E answer \in Results : Return(p, answer)
    BY <1>6, Zenon DEF Kill, Results
  <2> QED BY <2>1, <2>2, <2>3, ReturnKeeps, Zenon DEF Clean
<1> QED BY <1>2, <1>3, <1>4, <1>5, <1>6, Zenon

\* The steps of a load.
LEMMA LoadClean ==
  ASSUME FInv, NEW p \in Clients,
         LoadFails(p) \/ MigrateFile(p) \/ RecoverMarker(p) \/ ReadEvidence(p) \/ ReadBack(p) \/ Enter(p)
  PROVE  Clean
<1>1. LockRight /\ ClientTypes /\ ClientKept(p) /\ Free \in Clients \cup {Free}
  BY SMTT(30) DEF FInv, IInv
<1>2. pc[p] = "load" /\ pc[p] \in Inside /\ clock' = clock /\ cmd[p] \in Commands
  BY <1>1, Zenon DEF LoadFails, MigrateFile, RecoverMarker, ReadEvidence, ReadBack, Enter, Loaded, Inside, ClientKept
<1>3. left'.faults \in Nat
  BY <1>1, Spends, Zenon DEF LoadFails, MigrateFile, RecoverMarker, ReadEvidence, ReadBack, Enter,
        Fails, Replaced, Unconfirmed, ClientTypes
<1>4. CASE Unlock /\ \E answer \in Results : Return(p, answer)
  BY <1>1, <1>2, <1>3, <1>4, ReturnKeeps, Zenon DEF Clean, Unlock
<1>a. DirsGood /\ DirsKept /\ DirsGood'
  BY NextRight, Zenon DEF FInv, IInv, Next, Step
<1>5. ASSUME NEW S, S = None \/ Viewed(S, Here'.state), view'[p] = S, DOMAIN view' = Clients,
             \A q \in Clients \ {p} : view'[q] = view[q],
             lock' = lock, pc' = pc, goal' = goal, cmd' = cmd, began' = began, result' = result
      PROVE  Clean
  <2>1. Others(p)
    BY <1>5, Zenon DEF Others
  <2>2. ClientKept(p)'
    BY <1>1, <1>2, <1>5, Zenon DEF ClientKept
  <2>3. ClientTypes'
    BY <1>1, <1>2, <1>3, <1>5, <2>1, Zenon DEF ClientTypes
  <2> QED BY <1>2, <2>1, <2>2, <2>3, OthersKept, Zenon DEF Clean
<1>6. CASE ReadEvidence(p) /\ ~Abort(p)
  <2>1. /\ lock' = Free /\ dirs' = dirs
        /\ pc' = [pc EXCEPT ![p] = "wait"] /\ goal' = [goal EXCEPT ![p] = "commit"]
        /\ view' = [view EXCEPT ![p] = None]
        /\ cmd' = cmd /\ began' = began /\ result' = result
    BY <1>6, Zenon DEF ReadEvidence, Unlock
  <2>2. pc'[p] = "wait" /\ view'[p] = None /\ DOMAIN view' = Clients /\ Others(p)
    BY <1>1, <2>1, SMTT(30) DEF Others, LockRight, ClientTypes
  <2>3. ClientKept(p)'
    BY <1>2, <2>1, <2>2, Zenon DEF ClientKept
  <2>4. goal' \in [Clients -> Goals]
    BY <1>1, <2>1, SMTT(30) DEF ClientTypes, Goals
  <2>5. ClientTypes'
    BY <1>1, <1>2, <1>3, <2>1, <2>2, <2>4, Zenon DEF ClientTypes
  <2> QED BY <1>2, <2>2, <2>3, <2>5, OthersKept, Zenon DEF Clean
<1>7. CASE Enter(p)
  <2>1. /\ lock' = lock /\ dirs' = dirs /\ goal[p] = "commit"
        /\ pc' = [pc EXCEPT ![p] = "loaded"]
        /\ view' = [view EXCEPT ![p] = IF @ = None THEN Here.state ELSE @]
        /\ goal' = goal /\ cmd' = cmd /\ began' = began /\ result' = result
    BY <1>7, Zenon DEF Enter
  <2>2. /\ pc'[p] = "loaded" /\ Others(p)
        /\ view'[p] = IF view[p] = None THEN Here.state ELSE view[p]
    BY <1>1, <2>1, Zenon DEF Others, LockRight, ClientTypes
  <2>3. Here' = Here /\ Viewed(Here.state, Here.state)
    BY <1>a, <2>1, HereKept, Zenon DEF Here, Viewed, KeptDir
  <2>4. ClientKept(p)'
    <3>1. Viewed(view'[p], Here'.state)
      BY <1>1, <1>2, <2>2, <2>3, Zenon DEF ClientKept
    <3> QED BY <1>2, <2>1, <2>2, <3>1, Zenon DEF ClientKept
  <2>5. DOMAIN view' = Clients
    BY <1>1, <2>1, Zenon DEF ClientTypes
  <2>6. ClientTypes'
    BY <1>1, <1>2, <1>3, <2>1, <2>5, Zenon DEF ClientTypes
  <2> QED BY <1>2, <2>2, <2>4, <2>6, OthersKept, Zenon DEF Clean
<1>8. CASE ReadBack(p)
  <2>1. Unlock /\ \E answer \in Results : Return(p, answer)
    BY <1>8, Zenon DEF ReadBack, Results
  <2> QED BY <2>1, <1>4, SMTT(30)
<1>9. CASE Abort(p) /\ Unlock
  BY <1>4, <1>9, AbortReturns, Zenon
<1>10. CASE LoadFails(p)
  BY <1>9, <1>10, Zenon DEF LoadFails
<1>11. CASE MigrateFile(p)
  <2> DEFINE d == StateFile(Here.state)
  <2>1. /\ Whole(Here.state) /\ KeptDir(d) /\ Plain(d.state) = Plain(Here.state)
    BY <1>a, HereKept, MigrationKept, SMTT(30) DEF KeptDir
  <2>2. ASSUME Replaced(d) PROVE Viewed(Here.state, Here'.state)
    <3> HIDE DEF d
    <3>1. Here' = d
      BY <1>a, <2>1, <2>2, WritesKept, Zenon DEF Replaced
    <3> QED BY <2>1, <3>1, Zenon DEF Viewed
  <2>3. ASSUME Replaced(d), view' = [view EXCEPT ![p] = Here.state],
               UNCHANGED <<pc, goal, cmd, began, result, lock>>
        PROVE  Clean
    <3> HIDE DEF d
    <3>1. /\ view'[p] = Here.state /\ DOMAIN view' = Clients
          /\ \A q \in Clients \ {p} : view'[q] = view[q]
      BY <1>1, <2>3, Zenon DEF ClientTypes
    <3> QED BY <1>5, <2>2, <2>3, <3>1, Zenon
  <2> QED BY <1>9, <1>11, <2>3, Zenon DEF MigrateFile
<1>12. CASE RecoverMarker(p)
  <2> DEFINE d == MarkerFile
  <2>1. Here.version = Current
    BY <1>12 DEF RecoverMarker, MustMark
  <2>2. KeptDir(d) /\ d.state = Here.state
    BY <1>a, <2>1, MarkKept, SMTT(30)
  <2>3. ASSUME dirs' = <<d>>, UNCHANGED <<client, lock>> PROVE Clean
    <3> HIDE DEF d
    <3>1. Here'.state = Here.state
      BY <1>a, <2>2, <2>3, WritesKept, Zenon
    <3>2. view[p] = None \/ Viewed(view[p], Here'.state)
      BY <1>1, <1>2, <3>1, Zenon DEF ClientKept
    <3>3. /\ view' = view /\ lock' = lock /\ pc' = pc /\ goal' = goal /\ cmd' = cmd
          /\ began' = began /\ result' = result /\ DOMAIN view' = Clients
      BY <1>1, <2>3, Zenon DEF ClientTypes, client
    <3> QED BY <1>5, <3>2, <3>3, Zenon
  <2> QED BY <1>9, <1>12, <2>3, Zenon DEF RecoverMarker, Replaced
<1>13. CASE ReadEvidence(p)
  BY <1>6, <1>9, <1>13 DEF ReadEvidence
<1> QED BY <1>7, <1>8, <1>10, <1>11, <1>12, <1>13, ZenonT(60)


\* The transaction and the marker after it.
LEMMA CommitClean ==
  ASSUME FInv, NEW p \in Clients, Commit(p) \/ Mark(p)
  PROVE  Clean
<1>1. LockRight /\ ClientTypes /\ ClientKept(p) /\ Free \in Clients \cup {Free}
  BY Zenon DEF FInv, IInv
<1>2. pc[p] \in {"loaded", "written"} /\ clock' = clock
  BY Zenon DEF Commit, Mark
<1>3. pc[p] \in Inside /\ cmd[p] \in Commands /\ goal[p] = "commit" /\ lock \in Clients \cup {Free}
  <2>1. pc[p] \in Inside /\ pc[p] # "idle" /\ pc[p] \notin {"wait", "load"}
    <3> HIDE DEF ClientKept, ClientTypes, LockRight
    <3> QED BY <1>2 DEF Inside
  <2>2. cmd[p] \in Commands /\ goal[p] = "commit"
    BY <1>1, <2>1, Zenon DEF ClientKept
  <2> QED BY <1>1, <2>1, <2>2, Zenon DEF ClientTypes
<1>4. left'.faults \in Nat
  BY <1>1, Spends, Zenon DEF Commit, Mark, Fails, Replaced, Unconfirmed, ClientTypes
<1>5. CASE Unlock /\ \E answer \in Results : Return(p, answer)
  BY <1>1, <1>2, <1>3, <1>4, <1>5, ReturnKeeps, Zenon DEF Clean, Unlock
<1>6. CASE Abort(p) /\ Unlock
  BY <1>5, <1>6, AbortReturns, Zenon
<1>7. CASE Goto(p, "doubt") /\ Unlock
  BY <1>1, <1>2, <1>3, <1>4, <1>7, GotoKeeps, Zenon DEF Clean, Unlock
<1>8. CASE Goto(p, "written") /\ lock' = lock /\ Replaced(StateFile(Outcome(p)))
  <2>1. Len(dirs') = 1
    BY <1>8, Zenon DEF Replaced
  <2> QED BY <1>2, <1>3, <1>4, <1>8, <2>1, GotoKeeps, Zenon DEF Clean
<1>9. CASE Commit(p)
  BY <1>6, <1>7, <1>8, <1>9, Zenon DEF Commit
<1>10. CASE Succeed(p) /\ Unlock
  <2>1. CASE cmd[p].op \in {"sync", "fail"}
    <3>1. /\ pc' = [pc EXCEPT ![p] = "wait"] /\ goal' = [goal EXCEPT ![p] = "readback"]
          /\ view' = [view EXCEPT ![p] = None]
          /\ cmd' = cmd /\ began' = began /\ result' = result /\ lock' = Free
      BY <1>10, <2>1, Zenon DEF Succeed, Unlock
    <3>2. pc'[p] = "wait" /\ cmd'[p] = cmd[p] /\ view'[p] = None /\ Others(p)
      BY <1>1, <3>1, SMTT(30) DEF Others, LockRight, ClientTypes
    <3>3. ClientKept(p)'
      BY <1>3, <3>2, Zenon DEF ClientKept
    <3>4. goal' \in [Clients -> Goals] /\ DOMAIN view' = Clients
      BY <1>1, <3>1, SMTT(30) DEF ClientTypes, Goals
    <3>5. ClientTypes'
      BY <1>1, <1>2, <1>4, <3>1, <3>4, Zenon DEF ClientTypes
    <3> QED BY <1>3, <3>2, <3>3, <3>5, OthersKept, Zenon DEF Clean
  <2>2. CASE Return(p, "ok")
    BY <1>5, <1>10, <2>2, Zenon DEF Results
  <2> QED BY <1>10, <2>1, <2>2, Zenon DEF Succeed
<1>11. CASE Mark(p)
  BY <1>5, <1>10, <1>11 DEF Mark, Results
<1> QED BY <1>9, <1>11

\* A power loss, the clock, and nothing at all.
LEMMA FaultClean ==
  ASSUME FInv, PowerLoss \/ Tick \/ UNCHANGED vars
  PROVE  Clean
<1>1. ClientTypes /\ 1 \in Times
  BY CommandsAssumption DEF FInv, Times
<1>2. CASE PowerLoss
  <2>1. /\ pc' = [p \in Clients |-> "idle"] /\ goal' = [p \in Clients |-> "commit"]
        /\ cmd' = [p \in Clients |-> None] /\ view' = [p \in Clients |-> None]
        /\ began' = [p \in Clients |-> 1] /\ result' = [p \in Clients |-> "idle"]
        /\ lock' = Free /\ clock' = clock /\ Spend
    BY <1>2, SMTT(30) DEF PowerLoss
  <2>2. left'.faults \in Nat
    BY <1>1, <2>1, Spends, Zenon DEF ClientTypes
  <2>3. ClientTypes'
    BY <1>1, <2>1, <2>2, Zenon DEF ClientTypes, Goals, Results
  <2>4. \A q \in Clients : ClientKept(q)'
    BY <2>1, Zenon DEF ClientKept
  <2> QED BY <2>3, <2>4, Zenon DEF Clean
<1>3. CASE Tick \/ UNCHANGED vars
  <2>1. /\ dirs' = dirs /\ lock' = lock /\ left' = left /\ pc' = pc /\ goal' = goal /\ cmd' = cmd
        /\ view' = view /\ began' = began /\ result' = result
    BY <1>3, Zenon DEF Tick, vars, client
  <2>2. clock' \in Times
    BY <1>1, <1>3, CommandsAssumption, SMTT(30) DEF Tick, vars, Times, ClientTypes
  <2>3. ClientTypes'
    BY <1>1, <2>1, <2>2 DEF ClientTypes
  <2>4. Here' = Here
    BY <2>1, SMTT(30) DEF Here
  <2>5. ASSUME NEW q \in Clients PROVE ClientKept(q)'
    <3>1. ClientKept(q)
      BY Zenon DEF FInv
    <3> QED BY <2>1, <2>4, <3>1 DEF ClientKept
  <2> QED BY <2>3, <2>5 DEF Clean
<1> QED BY <1>2, <1>3

\* Every step keeps what is written whole.
LEMMA NextWrites ==
  ASSUME FInv, [Next]_vars
  PROVE  Writes \/ PowerLoss
<1>1. CASE \E p \in Clients : (\E c \in Commands : Start(p, c)) \/ Step(p) \/ Kill(p)
  BY <1>1, StepWrites, SMTT(30)
<1>2. CASE Tick \/ UNCHANGED vars
  BY <1>2 DEF Tick, vars, Writes
<1> QED BY <1>1, <1>2 DEF Next

\* The invariant of the store is inductive.
LEMMA FNext == FInv /\ [Next]_vars => FInv'
<1> SUFFICES ASSUME FInv, [Next]_vars PROVE FInv'
  OBVIOUS
<1>1. IInv'
  BY NextRight DEF FInv
<1>2. DirsKept' /\ BlobsKept'
  BY NextWrites, DirsStep, BlobsStep, SMTT(30)
<1>3. CASE \E p \in Clients : (\E c \in Commands : Start(p, c)) \/ Step(p) \/ Kill(p)
  <2>1. PICK p \in Clients : (\E c \in Commands : Start(p, c)) \/ Step(p) \/ Kill(p)
    BY <1>3, SMTT(30)
  <2>2. Clean
    BY <2>1, OutsideClean, LoadClean, CommitClean, Zenon DEF Step
  <2> QED BY <1>1, <1>2, <2>2, Zenon DEF Clean, FInv
<1>4. CASE PowerLoss \/ Tick \/ UNCHANGED vars
  <2>1. Clean
    BY <1>4, FaultClean
  <2> QED BY <1>1, <1>2, <2>1, Zenon DEF Clean, FInv
<1> QED BY <1>3, <1>4 DEF Next

\* The store opens on directories that hold whole states.
LEMMA FInit == Init => FInv
<1> SUFFICES ASSUME Init PROVE FInv
  OBVIOUS
<1>1. PICK d \in FirstDirs : dirs = <<FirstDir(d)>>
  BY DEF Init
<1> DEFINE S == Meaning(d.version, d.raw)
<1>2. /\ FirstDir(d).version = d.version /\ FirstDir(d).state = S
  BY Zenon DEF FirstDir
<1> HIDE DEF S
<1>3. S \in States /\ Sound(S) /\ ValidTracks(S) /\ ValidReferences(S)
      /\ (d.version = Current => S.touched = {})
  <2>1. /\ S \in States /\ Sound(S) /\ ValidTracks(S) /\ ValidReferences(S)
        /\ (d.version # 0 => S.touched = {})
    BY FirstDirsAssumption, Zenon DEF S
  <2> QED BY <2>1 DEF Current
<1>4. KeptDir(FirstDir(d))
  BY <1>2, <1>3 DEF KeptDir, Whole
<1>5. DirsKept
  <2>1. Len(dirs) = 1 /\ dirs[1] = FirstDir(d)
    BY <1>1
  <2> QED BY <1>4, <2>1 DEF DirsKept
<1>6. BlobsKept
  <2>1. blobs = [r \in Revisions |-> IF r \in FirstBlobs THEN "durable" ELSE "absent"]
    BY DEF Init
  <2>2. FirstBlobs \subseteq Revisions
    BY CommandsAssumption
  <2> QED BY <2>1, <2>2, Zenon DEF BlobsKept
<1>7. 1 \in Times /\ MaxFaults \in Nat
  BY CommandsAssumption, SMTT(30) DEF Times
<1>8. /\ pc = [p \in Clients |-> "idle"] /\ goal = [p \in Clients |-> "commit"]
      /\ cmd = [p \in Clients |-> None] /\ view = [p \in Clients |-> None]
      /\ began = [p \in Clients |-> 1] /\ result = [p \in Clients |-> "idle"]
      /\ lock = Free /\ clock = 1 /\ left.faults = MaxFaults
  BY SMTT(30) DEF Init
<1>9. ClientTypes
  BY <1>7, <1>8, Zenon DEF ClientTypes, Goals, Results
<1>10. \A p \in Clients : ClientKept(p)
  BY <1>8 DEF ClientKept
<1> QED BY <1>5, <1>6, <1>9, <1>10, InitRight, Zenon DEF FInv

\* Every directory holds a whole state, and clients hold what they need.
LEMMA StoreWhole == Spec => []FInv
BY FInit, FNext, PTL DEF Spec


(***************************************************************************)
(* What the store guarantees                                               *)
(***************************************************************************)
\* The indices of the directories, and the blobs of the start.
LEMMA Survivors ==
  ASSUME FInv, NEW i \in DOMAIN dirs
  PROVE  i \in 1..Len(dirs) /\ Good(dirs[i]) /\ KeptDir(dirs[i]) /\ FirstBlobs \subseteq Present
<1>1. PICK X : dirs \in Seq(X)
  BY DEF FInv, IInv, DirsGood
<1>2. i \in 1..Len(dirs)
  BY <1>1
<1>3. FirstBlobs \subseteq Present
  BY CommandsAssumption DEF FInv, BlobsKept, Present
<1> QED BY <1>2, <1>3 DEF FInv, IInv, DirsGood, DirsKept

\* For every set of clients, commands and starting directories, whatever fails:
\* every variable has its type, and exactly the client inside a transaction
\* holds the lock.
THEOREM StoreTypes == Spec => []TypeOK
<1>1. FInv => TypeOK
  <2> SUFFICES ASSUME FInv PROVE TypeOK
    OBVIOUS
  <2>1. \A i \in DOMAIN dirs : dirs[i].marker \in Markers
    BY Survivors DEF Good
  <2>2. \A p \in Clients : pc[p] \in {"load", "loaded", "written"} <=> lock = p
    BY DEF FInv, IInv, LockRight, Inside
  <2>3. pc \in [Clients -> Steps] /\ blobs \in [Revisions -> {"absent", "loose", "durable"}]
    BY DEF FInv, IInv, LockRight, BlobsKept
  <2>4. /\ lock \in Clients \cup {Free}
        /\ goal \in [Clients -> {"evidence", "commit", "readback"}]
        /\ \A p \in Clients : cmd[p] \in Commands \cup {None}
        /\ result \in [Clients -> {"idle", "ok", "error", "unknown", "late"}]
    BY DEF FInv, ClientTypes, Goals, Results
  <2> QED BY <2>1, <2>2, <2>3, <2>4, SMTT(30) DEF TypeOK
<1> QED BY <1>1, StoreWhole, PTL

\* Evidence that is there stays there when there are more blobs.
LEMMA MoreEvidence ==
  ASSUME NEW S, NEW few, NEW many, few \subseteq many
  PROVE  /\ FlatEvidencePresent(S, few) => FlatEvidencePresent(S, many)
         /\ EvidencePresent(S, few) => EvidencePresent(S, many)
<1>1. \A v : EvidenceOK(v, few) => EvidenceOK(v, many)
  BY DEF EvidenceOK
<1> QED BY <1>1 DEF FlatEvidencePresent, EvidencePresent

\* Whatever fails and whatever a power loss leaves of operational/, the next
\* load accepts it: files of an older release with the blobs they name, or a
\* state that passes the validation of the current one.
THEOREM SurvivorsLoad == Spec => []EverySurvivorLoads
<1>1. FInv => EverySurvivorLoads
  <2> SUFFICES ASSUME FInv, NEW i \in DOMAIN dirs PROVE Loads(dirs[i], Present)
    BY DEF EverySurvivorLoads
  <2> DEFINE d == dirs[i]
  <2>1. Good(d) /\ KeptDir(d) /\ FirstBlobs \subseteq Present
    BY Survivors
  <2> HIDE DEF d
  <2>2. ~RefusedByMarker(d)
    BY <2>1 DEF Good, RefusedByMarker, Current, Markers
  <2>3. d.state # Refused
    BY <2>1, StateConstants DEF KeptDir, Whole
  <2>4. CASE d.version = Current
    <3>1. ValidTracks(d.state) /\ ValidReferences(d.state)
      BY <2>1 DEF KeptDir, Whole
    <3> QED BY <2>2, <2>3, <2>4, <3>1 DEF Loads, Current, d
  <2>5. CASE d.version # Current
    <3>1. PICK f \in FirstDirs : d = FirstDir(f)
      BY <2>1, <2>5, SMTT(30) DEF KeptDir
    <3>2. Loads(d, FirstBlobs)
      BY <3>1, FirstDirsAssumption
    <3>3. CASE d.version = 0
      <4>1. FlatEvidencePresent(d.state, FirstBlobs)
        BY <3>2, <3>3 DEF Loads, Current
      <4>2. FlatEvidencePresent(d.state, Present)
        BY <2>1, <4>1, MoreEvidence
      <4> QED BY <2>2, <2>3, <3>3, <4>2 DEF Loads, Current, d
    <3>4. CASE d.version # 0
      <4>1. EvidencePresent(d.state, FirstBlobs)
        BY <2>5, <3>2, <3>4 DEF Loads
      <4>2. EvidencePresent(d.state, Present)
        BY <2>1, <4>1, MoreEvidence, Zenon
      <4> QED BY <2>2, <2>3, <2>5, <3>4, <4>2, Zenon DEF Loads, d
    <3> QED BY <3>3, <3>4
  <2> QED BY <2>4, <2>5
<1> QED BY <1>1, StoreWhole, PTL

\* Decisions of a track were taken in the order in which their reviews were
\* evaluated, in every state a restart may find, however late they were
\* coordinated and whatever failed in between.
THEOREM ReviewOrder == Spec => []DecisionsInReviewOrder
<1>1. FInv => DecisionsInReviewOrder
  <2> SUFFICES ASSUME FInv, NEW i \in DOMAIN dirs, NEW S, S = dirs[i].state,
                      NEW e \in S.audit, NEW f \in S.audit, e.track = f.track,
                      e.kind = "considered", f.kind = "considered", e.gen < f.gen
               PROVE  Review(S, e.review).at < Review(S, f.review).at
    BY DEF DecisionsInReviewOrder
  <2>1. InReviewOrder(S)
    BY Survivors, Zenon DEF KeptDir, Whole, Sound
  <2> QED BY <2>1 DEF InReviewOrder, Considerations
<1> QED BY <1>1, StoreWhole, PTL

\* Every generation a track has taken since its first authenticated decision
\* has exactly one audit event, and the same message in the outbox, in every
\* state a restart may find.
THEOREM EveryGenerationIsRecorded == Spec => []GenerationsAreRecorded
<1>1. FInv => GenerationsAreRecorded
  <2> SUFFICES ASSUME FInv, NEW i \in DOMAIN dirs
               PROVE  LET S == dirs[i].state IN S.audit = S.outbox /\ OneEvent(S) /\ GenerationsTaken(S)
    BY Zenon DEF GenerationsAreRecorded
  <2>1. Sound(dirs[i].state)
    BY Survivors, ZenonT(30) DEF KeptDir, Whole
  <2> QED BY <2>1 DEF Sound
<1> QED BY <1>1, StoreWhole, PTL

\* What a track released is the only public publication of its authorized path
\* until a later decision on the track.
THEOREM ReleasedAlone == Spec => []ReleasedIsPublic
<1>1. FInv => ReleasedIsPublic
  <2> SUFFICES ASSUME FInv PROVE ReleasedIsPublic
    OBVIOUS
  <2>1. Whole(Here.state)
    BY HereKept, Zenon DEF FInv, IInv, KeptDir
  <2> QED BY <2>1, ReleasesAlone DEF ReleasedIsPublic
<1> QED BY <1>1, StoreWhole, PTL

\* Coordinating the decision that is already the track's last changes nothing
\* and is not refused, at whatever time it is repeated.
THEOREM RetriesAreHarmless == Spec => []RetryIsHarmless
<1>1. FInv => RetryIsHarmless
  <2> SUFFICES ASSUME FInv, NEW S, S = Here.state, NEW c \in Commands, c.op = "coordinate",
                      EvidenceSelected(c, S, Present), NEW n, n = S.tracks[c.track], n # NoTrack,
                      n.last # NoDecision, n.last.review = c.review, n.last.accepted = c.accepted,
                      NEW time \in Times
               PROVE  Plain(S) = Committed(S, Coordinate(c, S, time), Present)
    BY DEF RetryIsHarmless
  <2>1. KeptDir(Here)
    BY HereKept DEF FInv, IInv
  <2>2. c \in CommandRecords
    BY CommandsAssumption
  <2>3. S.touched = {}
    <3>1. CASE Here.version = Current
      BY <2>1, <3>1, Zenon DEF KeptDir
    <3>2. CASE Here.version # Current
      <4>1. PICK f \in FirstDirs : Here = FirstDir(f)
        BY <2>1, <3>2, Zenon DEF KeptDir
      <4>2. S = Meaning(f.version, f.raw)
        BY <4>1, Zenon DEF FirstDir
      <4>3. S.auths # {}
        BY DEF EvidenceSelected
      <4> QED BY <4>2, <4>3, FirstDirsAssumption, Zenon
    <3> QED BY <3>1, <3>2, Zenon
  <2> QED BY <2>1, <2>2, <2>3, Retries, ZenonT(30) DEF KeptDir
<1> QED BY <1>1, StoreWhole, PTL


\* The bounds are a record of two numbers.
LeftKept == left = [calls |-> left.calls, faults |-> left.faults]

\* While the machine runs no step of any client, whatever fails, changes or
\* removes evidence: reviews, authorizations, sync and audit records stay, and
\* no revision loses its owner or its complete evidence.
THEOREM EvidenceStays == Spec => EvidenceIsImmutable
<1> DEFINE Steady == \/ lock' = Free /\ left'.faults < left.faults /\ Len(dirs') < Len(dirs)
                     \/ Evolves(Here.state, Here'.state)
<1>1. Init => LeftKept
  BY DEF Init, LeftKept
<1>2. LeftKept /\ [Next]_vars => LeftKept'
  <2> SUFFICES ASSUME LeftKept, [Next]_vars PROVE LeftKept'
    BY ZenonT(60)
  <2>1. \/ left' = left \/ left' = [left EXCEPT !.calls = @ - 1]
        \/ left' = [left EXCEPT !.faults = @ - 1]
    BY DEF Next, Step, Start, Put, ConfirmBlob, Lock, LoadFails, MigrateFile, RecoverMarker, ReadEvidence, ReadBack,
           Enter, Commit, Mark, Doubt, Kill, PowerLoss, Tick, vars, Fails, Replaced, Unconfirmed, Spend
  <2>2. CASE left' = [left EXCEPT !.calls = @ - 1]
    BY <2>2, Zenon DEF LeftKept
  <2>3. CASE left' = [left EXCEPT !.faults = @ - 1]
    BY <2>3, Zenon DEF LeftKept
  <2> QED BY <2>1, <2>2, <2>3, Zenon DEF LeftKept
<1>3. FInv /\ LeftKept /\ [Next]_vars => Steady
  <2> SUFFICES ASSUME FInv, LeftKept, [Next]_vars PROVE Steady
    OBVIOUS
  <2>1. DirsGood /\ DirsKept /\ left.faults \in Nat /\ Len(dirs) \in Nat /\ Len(dirs) > 0
    BY DEF FInv, IInv, DirsGood, ClientTypes
  <2>2. CASE Here' = Here
    <3>1. Evolves(Here.state, Here'.state)
      BY <2>2, EvolvesSame
    <3> QED BY <3>1
  <2>3. CASE dirs' = dirs
    BY <2>2, <2>3 DEF Here
  <2>4. CASE \E d : Writing(d) /\ (dirs' = <<d>> \/ dirs' = Append(dirs, d))
    <3>1. PICK d : Writing(d) /\ (dirs' = <<d>> \/ dirs' = Append(dirs, d))
      BY <2>4
    <3>2. Here' = d
      BY <2>1, <3>1, WritesKept, SMTT(30) DEF Writing
    <3> QED BY <3>1, <3>2 DEF Writing
  <2>5. CASE PowerLoss
    <3>1. PICK i \in DOMAIN dirs : dirs' = <<dirs[i]>>
      BY <2>5 DEF PowerLoss
    <3>2. i \in 1..Len(dirs)
      BY Survivors
    <3>3. Len(dirs') = 1 /\ Here' = dirs[i]
      BY <3>1 DEF Here
    <3>4. lock' = Free /\ left'.faults < left.faults
      BY <2>1, <2>5 DEF PowerLoss, Spend, LeftKept
    <3>5. CASE Len(dirs) = 1
      BY <2>2, <3>2, <3>3, <3>5 DEF Here
    <3>6. CASE Len(dirs) # 1
      <4>1. Len(dirs') < Len(dirs)
        <5>1. \A k \in Nat : k > 0 /\ k # 1 => 1 < k
          OBVIOUS
        <5>2. 1 < Len(dirs)
          BY <2>1, <3>6, <5>1, Zenon
        <5> QED BY <3>3, <5>2, Zenon
      <4> QED BY <3>4, <4>1, Zenon
    <3> QED BY <3>5, <3>6
  <2> QED BY <2>3, <2>4, <2>5, NextWrites, Zenon DEF Writes
<1>4. Steady => \/ lock' = Free /\ left'.faults < left.faults /\ Len(dirs') < Len(dirs)
                \/ LET S == Here.state  T == Here'.state IN
                   /\ S.reviews \subseteq T.reviews /\ S.auths \subseteq T.auths
                   /\ S.syncs \subseteq T.syncs /\ S.audit \subseteq T.audit
                   /\ \A v \in S.revs : \E w \in T.revs : Keeps(v, w)
  BY SMTT(30) DEF Evolves
<1> HIDE DEF Steady
<1> QED BY <1>1, <1>2, <1>3, <1>4, StoreWhole, PTL DEF Spec, EvidenceIsImmutable

(***************************************************************************)
(* The store implements the unit of work of its port                       *)
(***************************************************************************)
\* What a caller sees of one client.
StageOf(p) ==
  IF ~Within(p) THEN (IF pc[p] # "idle" \/ result[p] = "late" THEN "ok" ELSE result[p])
  ELSE IF pc[p] = "written" THEN "done" ELSE IF pc[p] = "doubt" THEN "doubt" ELSE "open"
DoingOf(p) == IF Within(p) THEN cmd[p] ELSE None

\* Stage and Doing are made of what is seen of each client.
LEMMA Seen ==
  /\ Stage = [p \in Clients |-> StageOf(p)] /\ Stage' = [p \in Clients |-> StageOf(p)']
  /\ Doing = [p \in Clients |-> DoingOf(p)] /\ Doing' = [p \in Clients |-> DoingOf(p)']
BY DEF Stage, Doing, StageOf, DoingOf, Within

\* A step of one client is seen of that client alone.
LEMMA SeenAlone ==
  ASSUME NEW p \in Clients, Others(p)
  PROVE  /\ Stage' = [Stage EXCEPT ![p] = StageOf(p)']
         /\ Doing' = [Doing EXCEPT ![p] = DoingOf(p)']
<1>1. \A q \in Clients \ {p} : StageOf(q)' = StageOf(q) /\ DoingOf(q)' = DoingOf(q)
  BY DEF Others, StageOf, DoingOf, Within
<1> QED BY <1>1, Seen, ZenonT(30)

\* A step that is not seen.
LEMMA Unseen ==
  ASSUME NEW p \in Clients, Others(p), StageOf(p)' = StageOf(p), DoingOf(p)' = DoingOf(p)
  PROVE  Stage' = Stage /\ Doing' = Doing
<1>1. \A q \in Clients : StageOf(q)' = StageOf(q) /\ DoingOf(q)' = DoingOf(q)
  BY DEF Others, StageOf, DoingOf, Within
<1> QED BY <1>1, Seen, Zenon

\* What the pending contents stand for.
LEMMA MayIs ==
  DirsGood => /\ May = {Plain(dirs[i].state) : i \in 1..Len(dirs)} /\ Now \in May
              /\ Len(dirs) = 1 => May = {Now}
<1> SUFFICES ASSUME DirsGood
             PROVE  /\ May = {Plain(dirs[i].state) : i \in 1..Len(dirs)} /\ Now \in May
                    /\ Len(dirs) = 1 => May = {Now}
  OBVIOUS
<1>1. PICK X : dirs \in Seq(X)
  BY DEF DirsGood
<1>2. DOMAIN dirs = 1..Len(dirs) /\ Len(dirs) \in Nat /\ Len(dirs) > 0
  BY <1>1 DEF DirsGood
<1>3. May = {Plain(dirs[i].state) : i \in 1..Len(dirs)}
  BY <1>2 DEF May
<1>4. Now \in May
  BY <1>2, <1>3 DEF Now, Here
<1>5. ASSUME Len(dirs) = 1 PROVE May = {Now}
  <2>1. 1..Len(dirs) = {1}
    BY <1>5
  <2> QED BY <1>3, <1>5, <2>1 DEF Now, Here
<1> QED BY <1>3, <1>4, <1>5

\* The pending contents after a step.
LEMMA MayIsNext ==
  DirsGood' => /\ May' = {Plain(dirs'[i].state) : i \in 1..Len(dirs')}
               /\ Len(dirs') = 1 => May' = {Now'}
<1>1. (DirsGood => /\ May = {Plain(dirs[i].state) : i \in 1..Len(dirs)} /\ Now \in May
                   /\ Len(dirs) = 1 => May = {Now})'
  BY MayIs, PTL
<1> QED BY <1>1

\* A replacement, as it is seen.
LEMMA SeenReplaced ==
  ASSUME DirsGood', NEW d, dirs' = <<d>>
  PROVE  Now' = Plain(d.state) /\ May' = {Now'}
<1>1. Len(dirs') = 1 /\ Here' = d
  BY DEF Here
<1> QED BY <1>1, MayIsNext DEF Now

\* A rename without its fsync, as it is seen.
LEMMA SeenRenamed ==
  ASSUME DirsGood, DirsGood', NEW d, dirs' = Append(dirs, d)
  PROVE  Now' = Plain(d.state) /\ May' = May \cup {Now'}
<1>1. PICK X : dirs \in Seq(X)
  BY DEF DirsGood
<1>2. Len(dirs) \in Nat /\ dirs \in Seq(X \cup {d})
  BY <1>1
<1>3. /\ Len(dirs') = Len(dirs) + 1 /\ dirs'[Len(dirs) + 1] = d
      /\ \A i \in 1..Len(dirs) : dirs'[i] = dirs[i]
  BY <1>2
<1>4. Here' = d
  BY <1>3 DEF Here
<1>5. Now' = Plain(d.state)
  BY <1>4 DEF Now
<1> DEFINE U == 1..Len(dirs)
           V == 1..Len(dirs')
<1>6. V = U \cup {Len(dirs) + 1}
  BY <1>2, <1>3
<1> HIDE DEF U, V
<1>7. (\A i \in U : dirs'[i] = dirs[i]) /\ dirs'[Len(dirs) + 1] = d
  BY <1>3 DEF U
<1>8. May = {Plain(dirs[i].state) : i \in U} /\ May' = {Plain(dirs'[i].state) : i \in V}
  BY MayIs, MayIsNext DEF U, V
<1>9. {Plain(dirs'[i].state) : i \in V}
        = {Plain(dirs[i].state) : i \in U} \cup {Plain(d.state)}
  BY <1>6, <1>7, Zenon
<1> QED BY <1>5, <1>8, <1>9, Zenon

\* A step that leaves the pending contents as they are seen.
LEMMA SameSeen ==
  ASSUME DirsGood, DirsGood',
         \/ dirs' = dirs
         \/ \E d : /\ Plain(d.state) = Now
                   /\ dirs' = Append(dirs, d) \/ (dirs' = <<d>> /\ Len(dirs) = 1)
  PROVE  Now' = Now /\ May' = May
<1>1. CASE dirs' = dirs
  BY <1>1 DEF Now, May, Here
<1>2. ASSUME NEW d, Plain(d.state) = Now, dirs' = Append(dirs, d)
      PROVE  Now' = Now /\ May' = May
  <2>1. Now' = Plain(d.state) /\ May' = May \cup {Now'} /\ Now \in May
    BY <1>2, SeenRenamed, MayIs
  <2> QED BY <1>2, <2>1
<1>3. ASSUME NEW d, Plain(d.state) = Now, dirs' = <<d>>, Len(dirs) = 1
      PROVE  Now' = Now /\ May' = May
  <2>1. Now' = Plain(d.state) /\ May' = {Now'} /\ May = {Now}
    BY <1>3, SeenReplaced, MayIs
  <2> QED BY <1>3, <2>1
<1> QED BY <1>1, <1>2, <1>3

\* Steps of the promise.
Kept == Now' = Now /\ May' = May
Promised == Promise!Next \/ UNCHANGED <<Now, May, Stage, Doing>>

\* A client that returns without writing anything new answers its caller, or,
\* once its command is over, is not seen.
LEMMA ReturnReplies ==
  ASSUME FInv, Kept, NEW p \in Clients, pc[p] # "idle", NEW answer \in Results, Return(p, answer),
         Within(p) => /\ answer \in {"ok", "error", "unknown"}
                      /\ answer = "ok" => pc[p] = "written"
                      /\ answer = "error" => pc[p] \notin {"written", "doubt"},
         ~Within(p) => answer \in {"ok", "late"}
  PROVE  Promised
<1>1. Others(p)
  BY Returns DEF FInv, IInv
<1>2. pc'[p] = "idle" /\ result'[p] = answer
  BY SMTT(30) DEF FInv, IInv, LockRight, ClientTypes, Return
<1>3. StageOf(p)' = (IF answer = "late" THEN "ok" ELSE answer) /\ DoingOf(p)' = None
  BY <1>2 DEF StageOf, DoingOf, Within
<1>4. CASE Within(p)
  <2>1. answer \in {"ok", "error", "unknown"} /\ answer # "late"
    BY <1>4
  <2>2. Stage[p] = StageOf(p) /\ p \in DOMAIN Stage
    BY Seen, Zenon
  <2>3. /\ StageOf(p) \in {"open", "done", "doubt"}
        /\ answer = "ok" => StageOf(p) = "done"
        /\ answer = "error" => StageOf(p) = "open"
    BY <1>4 DEF StageOf
  <2>4. Stage' = [Stage EXCEPT ![p] = answer] /\ Doing' = [Doing EXCEPT ![p] = None]
    BY <1>1, <1>3, <2>1, SeenAlone, Zenon
  <2>5. Promise!Reply(p, answer)
    BY <2>2, <2>3, <2>4, Zenon DEF Promise!Reply, Kept
  <2>6. answer \in Promise!Answers
    BY <2>1 DEF Promise!Answers
  <2> QED BY <2>5, <2>6 DEF Promise!Next, Promised
<1>5. CASE ~Within(p)
  <2>1. StageOf(p) = "ok" /\ DoingOf(p) = None
    BY <1>5 DEF StageOf, DoingOf
  <2>2. StageOf(p)' = "ok"
    BY <1>3, <1>5
  <2>3. Stage' = Stage /\ Doing' = Doing
    BY <1>1, <1>3, <2>1, <2>2, Unseen, Zenon
  <2> QED BY <2>3 DEF Promised, Kept
<1> QED BY <1>4, <1>5, Zenon

\* An error is answered for a command that did nothing.
LEMMA AbortReplies ==
  ASSUME FInv, Kept, NEW p \in Clients, pc[p] \notin {"idle", "written", "doubt"}, Abort(p)
  PROVE  Promised
<1>1. CASE goal[p] = "readback"
  <2>1. Return(p, "late") /\ "late" \in Results /\ ~Within(p)
    BY <1>1 DEF Abort, Results, Within
  <2> QED BY <2>1, ReturnReplies
<1>2. CASE goal[p] # "readback"
  <2>1. Return(p, "error") /\ "error" \in Results /\ Within(p)
    BY <1>2 DEF Abort, Results, Within
  <2> QED BY <2>1, ReturnReplies, SMTT(30)
<1> QED BY <1>1, <1>2


\* A call is seen as a call.
LEMMA StartCalls ==
  ASSUME FInv, NEW p \in Clients, NEW c \in Commands, Start(p, c)
  PROVE  Promised
<1>1. pc \in [Clients -> Steps] /\ ClientTypes
  BY DEF FInv, IInv, LockRight
<1>2. /\ pc[p] = "idle" /\ pc'[p] \in {"put", "wait"} /\ goal'[p] \in {"evidence", "commit"}
      /\ cmd'[p] = c
  BY <1>1 DEF Start, ClientTypes
<1>3. Others(p)
  BY <1>1 DEF Start, ClientTypes, Others
<1>4. StageOf(p)' = "open" /\ DoingOf(p)' = c
  BY <1>2 DEF StageOf, DoingOf, Within
<1>5. Stage' = [Stage EXCEPT ![p] = "open"] /\ Doing' = [Doing EXCEPT ![p] = c]
  BY <1>3, <1>4, SeenAlone
<1>6. result[p] \in Results
  BY <1>1, Zenon DEF ClientTypes
<1>7. Stage[p] \in {"idle"} \cup Promise!Answers
  BY <1>2, <1>6, Seen DEF StageOf, Within, Results, Promise!Answers
<1>8. Now' = Now /\ May' = May
  BY DEF Start, Now, May, Here
<1>9. Promise!Call(p, c)
  BY <1>5, <1>7, <1>8 DEF Promise!Call
<1> QED BY <1>9 DEF Promise!Next, Promised

\* Steps that write nothing.
LEMMA QuietSteps ==
  ASSUME FInv, NEW p \in Clients,
         \/ Put(p) \/ ConfirmBlob(p) \/ Lock(p) \/ LoadFails(p) \/ ReadEvidence(p)
         \/ ReadBack(p) \/ Enter(p) \/ Doubt(p) \/ Kill(p)
  PROVE  Promised
<1>1. LockRight /\ ClientTypes /\ ClientKept(p)
  BY ZenonT(60) DEF FInv, IInv
<1>2. dirs' = dirs
  BY Zenon DEF Put, ConfirmBlob, Lock, LoadFails, ReadEvidence, ReadBack, Enter, Doubt, Kill
<1>3. Kept
  BY <1>2 DEF Kept, Now, May, Here
<1>4. CASE Abort(p) /\ pc[p] \in {"put", "confirm", "wait", "load"}
  BY <1>3, <1>4, AbortReplies
<1>5. ASSUME Others(p), cmd'[p] = cmd[p], result'[p] = result[p], Within(p)' <=> Within(p),
             {pc[p], pc'[p]} \subseteq {"put", "confirm", "wait", "load", "loaded"}
      PROVE  Promised
  <2>1. StageOf(p)' = StageOf(p) /\ DoingOf(p)' = DoingOf(p)
    BY <1>5, Zenon DEF StageOf, DoingOf
  <2>2. Stage' = Stage /\ Doing' = Doing
    BY <1>5, <2>1, Unseen, Zenon
  <2> QED BY <1>3, <2>2, Zenon DEF Promised, Kept
<1>6. ASSUME NEW s \in {"confirm", "wait", "load"}, Goto(p, s), pc[p] \in {"put", "confirm", "wait"}
      PROVE  Promised
  <2>1. /\ Others(p) /\ pc'[p] = s /\ cmd' = cmd /\ goal' = goal /\ result' = result
    BY <1>1, <1>6, Goes, Zenon
  <2>2. Within(p)' <=> Within(p)
    BY <1>6, <2>1, ZenonT(60) DEF Within
  <2> QED BY <1>5, <1>6, <2>1, <2>2, Zenon
<1>7. CASE Put(p) \/ ConfirmBlob(p)
  BY <1>4, <1>6, <1>7, Zenon DEF Put, ConfirmBlob
<1>8. CASE Lock(p)
  BY <1>4, <1>6, <1>8 DEF Lock
<1>9. CASE LoadFails(p)
  BY <1>4, <1>9 DEF LoadFails
<1>10. CASE ReadEvidence(p)
  <2>1. pc[p] = "load" /\ goal[p] = "evidence"
    BY <1>10 DEF ReadEvidence, Loaded
  <2>2. CASE Abort(p)
    BY <1>4, <2>1, <2>2, Zenon
  <2>3. CASE /\ pc' = [pc EXCEPT ![p] = "wait"] /\ goal' = [goal EXCEPT ![p] = "commit"]
             /\ view' = [view EXCEPT ![p] = None]
             /\ cmd' = cmd /\ began' = began /\ result' = result
    <3>1. Others(p) /\ pc'[p] = "wait" /\ goal'[p] = "commit"
      BY <1>1, <2>3, Zenon DEF Others, LockRight, ClientTypes
    <3>2. Within(p)' /\ Within(p)
      BY <2>1, <3>1, Zenon DEF Within
    <3> QED BY <1>5, <2>1, <2>3, <3>1, <3>2, Zenon
  <2> QED BY <1>10, <2>2, <2>3, Zenon DEF ReadEvidence
<1>11. CASE Enter(p)
  <2>1. pc[p] = "load" /\ goal[p] = "commit"
    BY <1>11 DEF Enter, Loaded
  <2>2. /\ pc' = [pc EXCEPT ![p] = "loaded"] /\ goal' = goal /\ cmd' = cmd /\ result' = result
        /\ view' = [view EXCEPT ![p] = IF @ = None THEN Here.state ELSE @]
    BY <1>11 DEF Enter
  <2>3. Others(p) /\ pc'[p] = "loaded" /\ goal'[p] = "commit"
    BY <1>1, <2>1, <2>2, ZenonT(60) DEF Others, LockRight, ClientTypes
  <2>4. Within(p)' /\ Within(p)
    BY <2>1, <2>3, Zenon DEF Within
  <2> QED BY <1>5, <2>1, <2>2, <2>3, <2>4, ZenonT(60)
<1>12. CASE ReadBack(p)
  <2>1. pc[p] = "load" /\ ~Within(p)
    BY <1>12, Zenon DEF ReadBack, Loaded, Within
  <2>2. \E answer \in {"ok", "late"} : Return(p, answer)
    BY <1>12 DEF ReadBack
  <2> QED BY <1>3, <2>1, <2>2, ReturnReplies, Zenon DEF Results
<1>13. CASE Doubt(p)
  <2>1. pc[p] = "doubt" /\ goal[p] = "commit" /\ Return(p, "unknown")
    BY <1>1, <1>13, Zenon DEF Doubt, ClientKept
  <2>2. Within(p)
    BY <2>1 DEF Within
  <2> QED BY <1>3, <2>1, <2>2, ReturnReplies, Zenon DEF Results
<1>14. CASE Kill(p)
  <2>1. pc[p] # "idle"
    BY <1>14 DEF Kill
  <2>2. CASE goal[p] = "readback"
    <3>1. Return(p, "late") /\ ~Within(p)
      BY <1>14, <2>2, SMTT(30) DEF Kill, Within
    <3> QED BY <1>3, <2>1, <3>1, ReturnReplies, Zenon DEF Results
  <2>3. CASE goal[p] # "readback"
    <3>1. Return(p, "unknown") /\ Within(p)
      BY <1>14, <2>1, <2>3 DEF Kill, Within
    <3> QED BY <1>3, <2>1, <3>1, ReturnReplies, Zenon DEF Results
  <2> QED BY <2>2, <2>3, Zenon
<1> QED BY <1>7, <1>8, <1>9, <1>10, <1>11, <1>12, <1>13, <1>14, ZenonT(60)


\* A load that writes: nothing new is seen but that what was in doubt is settled.
LEMMA LoadSettles ==
  ASSUME FInv, FInv', NEW p \in Clients, MigrateFile(p) \/ RecoverMarker(p)
  PROVE  Promised
<1>1. DirsGood /\ DirsKept /\ DirsGood' /\ pc[p] = "load"
  BY DEF FInv, IInv, MigrateFile, RecoverMarker
<1>2. PICK d : /\ Plain(d.state) = Now
               /\ \/ dirs' = dirs /\ Abort(p)
                  \/ dirs' = Append(dirs, d) /\ Abort(p)
                  \/ dirs' = <<d>> /\ UNCHANGED <<pc, goal, cmd, result>>
  <2>1. CASE MigrateFile(p)
    <3>1. Plain(StateFile(Here.state).state) = Now
      BY <1>1, MigrationKept, SMTT(30) DEF Now
    <3> QED BY <2>1, <3>1, Zenon DEF MigrateFile, Fails, Replaced, Unconfirmed
  <2>2. CASE RecoverMarker(p)
    <3>1. Plain(MarkerFile.state) = Now
      BY DEF MarkerFile, Now
    <3> QED BY <2>2, <3>1, Zenon DEF RecoverMarker, Fails, Replaced, Unconfirmed, client
  <2> QED BY <2>1, <2>2, Zenon
<1>3. CASE Abort(p) /\ (dirs' = dirs \/ dirs' = Append(dirs, d))
  <2>1. Kept
    BY <1>1, <1>2, <1>3, SameSeen, Zenon DEF Kept
  <2> QED BY <1>1, <1>3, <2>1, AbortReplies, Zenon
<1>4. CASE dirs' = <<d>> /\ UNCHANGED <<pc, goal, cmd, result>>
  <2>1. Now' = Now /\ May' = {Now}
    BY <1>1, <1>2, <1>4, SeenReplaced, ZenonT(60)
  <2>2. Stage' = Stage /\ Doing' = Doing
    BY <1>4 DEF Stage, Doing, Within
  <2>3. Promise!Settle
    BY <2>1, <2>2, Zenon DEF Promise!Settle
  <2> QED BY <2>3 DEF Promise!Next, Promised
<1> QED BY <1>2, <1>3, <1>4, Zenon

\* A commit takes effect once, for good or in doubt, or is an error.
LEMMA CommitApplies ==
  ASSUME FInv, FInv', NEW p \in Clients, Commit(p)
  PROVE  Promised
<1> DEFINE d == StateFile(Outcome(p))
<1>1. /\ LockRight /\ ClientTypes /\ ClientKept(p) /\ DirsGood /\ DirsGood' /\ pc[p] = "loaded"
  BY DEF FInv, IInv, Commit
<1>2. CASE Abort(p) /\ dirs' = dirs
  <2>1. Kept
    BY <1>2 DEF Kept, Now, May, Here
  <2> QED BY <1>1, <1>2, <2>1, AbortReplies, Zenon
<1>3. ASSUME NEW s \in {"written", "doubt"}, Goto(p, s), Outcome(p) # Refused,
             \/ s = "written" /\ dirs' = <<d>>
             \/ s = "doubt" /\ dirs' = Append(dirs, d)
      PROVE  Promised
  <2>0. d = StateFile(Outcome(p))
    OBVIOUS
  <2> HIDE DEF d
  <2>1. Plain(d.state) = d.state /\ d.state \in Effects(cmd[p], Now)
    BY <1>1, <1>3, <2>0, CommitKept, Zenon DEF Now
  <2>2. /\ Others(p) /\ pc'[p] = s /\ cmd' = cmd /\ goal' = goal /\ result' = result
    BY <1>1, <1>3, Goes, Zenon
  <2>3. Within(p) /\ Within(p)'
    BY <1>1, <1>3, <2>2, Zenon DEF Within, ClientKept
  <2>4. StageOf(p) = "open" /\ DoingOf(p) = cmd[p] /\ DoingOf(p)' = DoingOf(p)
    BY <1>1, <2>2, <2>3, Zenon DEF StageOf, DoingOf
  <2>5. StageOf(p)' = IF s = "written" THEN "done" ELSE "doubt"
    BY <1>3, <2>2, <2>3, Zenon DEF StageOf
  <2>6. Stage[p] = "open" /\ Doing[p] = cmd[p]
    BY <2>4, Seen
  <2>7. Doing' = Doing
    BY <2>2, <2>4, SeenAlone, Seen, Zenon
  <2>8. Now' \in Effects(Doing[p], Now)
    <3>1. Now' = Plain(d.state)
      BY <1>1, <1>3, SeenReplaced, SeenRenamed, Zenon
    <3> QED BY <2>1, <2>6, <3>1, Zenon
  <2>9. \/ Stage' = [Stage EXCEPT ![p] = "done"] /\ May' = {Now'}
        \/ Stage' = [Stage EXCEPT ![p] = "doubt"] /\ May' = May \cup {Now'}
    <3>1. CASE s = "written" /\ dirs' = <<d>>
      BY <1>1, <2>2, <2>5, <3>1, SeenAlone, SeenReplaced, Zenon
    <3>2. CASE s = "doubt" /\ dirs' = Append(dirs, d)
      BY <1>1, <2>2, <2>5, <3>2, SeenAlone, SeenRenamed, Zenon
    <3> QED BY <1>3, <3>1, <3>2, Zenon
  <2>10. Promise!Apply(p)
    BY <2>6, <2>7, <2>8, <2>9, Zenon DEF Promise!Apply
  <2> QED BY <2>10, ZenonT(60) DEF Promise!Next, Promised
<1>4. CASE Outcome(p) # Refused /\ Replaced(d) /\ Goto(p, "written")
  BY <1>3, <1>4 DEF Replaced
<1>5. CASE Outcome(p) # Refused /\ Unconfirmed("state", d) /\ Goto(p, "doubt")
  BY <1>3, <1>5, Zenon DEF Unconfirmed
<1> QED BY <1>2, <1>4, <1>5, Zenon DEF Commit, Fails

\* The marker after a commit: the command is answered.
LEMMA MarkReplies ==
  ASSUME FInv, FInv', NEW p \in Clients, Mark(p)
  PROVE  Promised
<1>1. /\ LockRight /\ ClientTypes /\ ClientKept(p) /\ DirsGood /\ DirsGood' /\ pc[p] = "written"
  BY DEF FInv, IInv, Mark
<1>2. Len(dirs) = 1 /\ goal[p] = "commit"
  BY <1>1, Zenon DEF ClientKept
<1>3. Kept
  <2>1. Plain(MarkerFile.state) = Now
    BY DEF MarkerFile, Now
  <2>2. dirs' = dirs \/ dirs' = <<MarkerFile>> \/ dirs' = Append(dirs, MarkerFile)
    BY DEF Mark, Fails, Replaced, Unconfirmed
  <2> QED BY <1>1, <1>2, <2>1, <2>2, SameSeen, Zenon DEF Kept
<1>4. Within(p)
  BY <1>1, <1>2, SMTT(30) DEF Within
<1>5. CASE \E answer \in {"ok", "unknown"} : Return(p, answer)
  BY <1>1, <1>3, <1>4, <1>5, ReturnReplies, Zenon DEF Results
<1>6. CASE /\ pc' = [pc EXCEPT ![p] = "wait"] /\ goal' = [goal EXCEPT ![p] = "readback"]
           /\ view' = [view EXCEPT ![p] = None] /\ cmd' = cmd /\ result' = result
  <2>1. Others(p) /\ pc'[p] = "wait" /\ goal'[p] = "readback"
    BY <1>1, <1>6, Zenon DEF Others, LockRight, ClientTypes
  <2>2. StageOf(p)' = "ok" /\ DoingOf(p)' = None
    BY <2>1, Zenon DEF StageOf, DoingOf, Within
  <2>3. StageOf(p) = "done"
    BY <1>1, <1>4 DEF StageOf
  <2>4. Stage[p] = "done" /\ Stage' = [Stage EXCEPT ![p] = "ok"] /\ Doing' = [Doing EXCEPT ![p] = None]
    BY <2>1, <2>2, <2>3, Seen, SeenAlone, Zenon
  <2>5. Promise!Reply(p, "ok") /\ "ok" \in Promise!Answers
    BY <1>3, <2>4, Zenon DEF Promise!Reply, Promise!Answers, Kept
  <2> QED BY <2>5 DEF Promise!Next, Promised
<1>7. (\E answer \in {"ok", "unknown"} : Return(p, answer)) \/ Succeed(p)
  BY DEF Mark
<1> QED BY <1>5, <1>6, <1>7, Zenon DEF Succeed

\* A power loss brings back a state that may be there.
LEMMA PowerLossSeen ==
  ASSUME FInv, FInv', PowerLoss
  PROVE  Promised
<1>1. DirsGood /\ DirsGood'
  BY DEF FInv, IInv
<1>2. PICK i \in DOMAIN dirs : dirs' = <<dirs[i]>>
  BY DEF PowerLoss
<1>3. Now' = Plain(dirs[i].state) /\ May' = {Now'}
  BY <1>1, <1>2, SeenReplaced, Zenon
<1>4. Now' \in May
  BY <1>2, <1>3, Zenon DEF May
<1>5. \A p \in Clients : StageOf(p)' = "idle" /\ DoingOf(p)' = None
  BY DEF PowerLoss, StageOf, DoingOf, Within
<1>6. Stage' = [p \in Clients |-> "idle"] /\ Doing' = [p \in Clients |-> None]
  BY <1>5, Seen, Zenon
<1>7. Promise!PowerLoss
  BY <1>3, <1>4, <1>6, Zenon DEF Promise!PowerLoss
<1> QED BY <1>7 DEF Promise!Next, Promised

\* Every step is a step of the promise, or is not seen.
LEMMA NextPromised == FInv /\ FInv' /\ [Next]_vars => Promised
<1> SUFFICES ASSUME FInv, FInv', [Next]_vars PROVE Promised
  OBVIOUS
<1>1. CASE \E p \in Clients : (\E c \in Commands : Start(p, c)) \/ Step(p) \/ Kill(p)
  BY <1>1, StartCalls, QuietSteps, LoadSettles, CommitApplies, MarkReplies, ZenonT(60) DEF Step
<1>2. CASE Tick \/ UNCHANGED vars
  BY <1>2, Zenon DEF Tick, vars, client, Promised, Now, May, Here, Stage, Doing, Within
<1> QED BY <1>1, <1>2, PowerLossSeen, Zenon DEF Next

\* The store opens as the promise does.
LEMMA InitPromised == Init => Promise!Init
<1> SUFFICES ASSUME Init PROVE Promise!Init
  OBVIOUS
<1>1. PICK d \in FirstDirs : dirs = <<FirstDir(d)>>
  BY DEF Init
<1>2. Here = FirstDir(d) /\ Len(dirs) = 1
  BY <1>1 DEF Here
<1>3. Now = Plain(Meaning(d.version, d.raw))
  BY <1>2 DEF Now, FirstDir
<1>4. May = {Now}
  BY <1>2, InitRight, MayIs, Zenon DEF IInv
<1>5. \A p \in Clients : StageOf(p) = "idle" /\ DoingOf(p) = None
  BY DEF Init, StageOf, DoingOf, Within
<1>6. Stage = [p \in Clients |-> "idle"] /\ Doing = [p \in Clients |-> None]
  BY <1>5, Seen, Zenon
<1> QED BY <1>3, <1>4, <1>6 DEF Promise!Init

\* For every set of clients, commands and starting directories, whatever write
\* or fsync fails and whenever power is lost, the store over files is the unit
\* of work that port.UnitOfWork promises.
THEOREM StoreKeepsPromise == Spec => ImplementsAtomicStore
<1>1. Promised => [Promise!Next]_(Promise!vars)
  BY DEF Promised, Promise!vars
<1> QED BY <1>1, StoreWhole, InitPromised, NextPromised, PTL DEF Spec, ImplementsAtomicStore, Promise!Spec
==============================================================================
