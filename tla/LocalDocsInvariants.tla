------------------------- MODULE LocalDocsInvariants -------------------------
(***************************************************************************)
(* What holds in every state of LocalDocs.  Inv is about routing and       *)
(* pointers, QInv about the queues, TInv about types, and KInv about what  *)
(* is left in storage.                                                     *)
(***************************************************************************)
EXTENDS LocalDocs

(* Routing and pointers.                                                    *)

StateFields == {"seen", "active", "previous", "candidate", "etag", "epoch",
                "disabled", "tombstone", "evicted", "generations", "cached"}
IsState(s) == DOMAIN s = StateFields /\ s = [f \in StateFields |-> s[f]]

ProcFields == {"at", "p", "d", "ok", "reenable", "etag", "content", "token",
               "victims", "on", "back"}
IsProc(r) == DOMAIN r = ProcFields /\ r = [f \in ProcFields |-> r[f]]

\* A stored state: nothing is active while the publication is disabled.
StateGood(s) ==
  /\ IsState(s)
  /\ s.disabled => s.active = None
  /\ None \notin s.generations

\* Disabled by a withdrawal, not by an eviction.
Withdrawn(s) == s.disabled /\ ~ s.evicted

\* A rollback token: the state it restores is enabled and has an active
\* generation.
TokenGood(t) ==
  /\ StateGood(t.metadata)
  /\ ~ t.metadata.disabled /\ t.metadata.active # None
  /\ None \notin t.records

Tombstoning == {"tombstone", "purgeCaches", "purgeGenerations"}
Activating == {"pruneGenerations", "pruneCaches", "evict", "evicting", "restore"}
Reading == {"read", "serve"}

\* What a process knows: routing is off before a withdrawal's tombstone is
\* written; an activation has its token; and what is being read was not
\* withdrawn when it was looked up, or routing has been turned off since.
ProcGood(r, off, states) ==
  /\ IsProc(r)
  /\ r.at # "idle" => r.p \in Publications
  /\ r.at # "idle" /\ ~ (r.at \in Tombstoning /\ r.back = "idle") => r.d # None
  /\ r.at \in Tombstoning => r.back \in {"idle", "persisted", "refused", "evicting"}
  /\ r.at = "tombstone" /\ r.back # "evicting" => r.on \in off
  /\ r.at \in Activating \/ (r.at \in Tombstoning /\ r.back = "evicting") =>
       TokenGood(r.token)
  /\ r.at \in Reading /\ r.p \notin off => ~ Withdrawn(states[r.p])

DbGood ==
  /\ db = [p \in Publications |-> db[p]]
  /\ \A p \in Publications : StateGood(db[p])

ProcsGood ==
  /\ proc = [x \in Procs |-> proc[x]]
  /\ \A x \in Procs : ProcGood(proc[x], disabled, db)

Inv == DbGood /\ ProcsGood

-----------------------------------------------------------------------------
(* The queues: who is in one, and whose operation is running.               *)

\* The elements of a list, none of them twice.
Among(s, x) == \E i \in 1 .. Len(s) : s[i] = x
Distinct(s) == \A i, j \in 1 .. Len(s) : s[i] = s[j] => i = j

Queued == {"observe", "putShell", "put", "refresh", "commit", "activate", "discard", "restore"}
Holding == {"pruneGenerations", "pruneCaches", "evict", "evicting", "restoredCaches", "restored"}
Purging == {"purgeCaches", "purgeGenerations"}
Evicts(r) == r.at \in Tombstoning /\ r.back = "evicting"

\* A process waits for the storage of q, or its operation is running there; an
\* activation keeps its own queue while it evicts another publication.
Waits(r, q) ==
  \/ r.p = q /\ r.at \in Queued
  \/ r.on = q /\ r.at = "tombstone"
Inside(r, q) ==
  \/ r.p = q /\ (r.at \in Holding \/ Evicts(r))
  \/ r.on = q /\ r.at \in Purging
Engages(r, q) == Waits(r, q) \/ Inside(r, q)

\* A process that writes or has written the tombstone of a withdrawal.
Withdraws(r, q) == r.at \in Tombstoning /\ r.back # "evicting" /\ r.on = q

\* Exactly the processes that engage a publication are in its queue, once each,
\* and the one whose operation is running is at the head.
QueueGood(s, q, procs) ==
  /\ s \in Seq(Procs) /\ Distinct(s)
  /\ \A x \in Procs : Engages(procs[x], q) <=> Among(s, x)
  /\ \A x \in Procs : Inside(procs[x], q) => s # <<>> /\ Head(s) = x

QInv ==
  /\ queue = [q \in Publications |-> queue[q]]
  /\ \A q \in Publications : QueueGood(queue[q], q, proc)

-----------------------------------------------------------------------------
(* The types.                                                               *)

\* A stored state has its fields and their types.
Typed(s) == IsState(s) /\ Inv_Metadata(s)

TokenTyped(t) == Typed(t.metadata) /\ t.records \subseteq Descriptors

\* What a process remembers over its awaits: a revalidation is named by its
\* publication, an eviction's victims are other publications, an activation
\* has its token, and only a shell or an asset is put.
ProcTyped(r, x) ==
  /\ r.at # "idle" /\ x \in Publications => r.p = x
  /\ r.at # "idle" /\ ~ (r.at \in Tombstoning /\ r.back = "idle") => r.d \in Descriptors
  /\ r.at \in Tombstoning => r.on \in Publications
  /\ Evicts(r) => r.on # r.p
  /\ Evicts(r) \/ r.at = "evicting" => r.victims \in Seq(Publications \ {r.p})
  /\ Evicts(r) \/ r.at \in Activating => TokenTyped(r.token)
  /\ r.at = "network" => r.content \in {"document", "shell", "asset"}
  /\ r.at = "put" => r.content \in {"shell", "asset"}

StorageTyped == (\A p \in Publications : Typed(db[p])) /\ recent \in Seq(Publications)
WorkerTyped ==
  /\ disabled \subseteq Publications
  /\ descriptors \in [Publications -> Pointers] /\ revalidators \in [Publications -> Pointers]
  /\ budget \in [events : Nat, kills : Nat, releases : Nat,
                faults : 0 .. MaxFaults, rejections : 0 .. MaxRejections]
ProcsTyped == \A x \in Procs : ProcTyped(proc[x], x)

TInv == StorageTyped /\ WorkerTyped /\ ProcsTyped

-----------------------------------------------------------------------------
(* Withdrawals and active generations.                                      *)

\* Nothing is pointed to; nothing is stored; nothing is stored but the
\* candidate of a commit that began before the withdrawal.
Cleared(s) == s.disabled /\ s.active = None /\ s.previous = None /\ s.candidate = None
Clean(s) == Cleared(s) /\ s.generations = {} /\ s.cached = {}
Wiped(s, d) ==
  /\ s.disabled /\ s.active = None /\ s.previous = None /\ s.cached = {}
  /\ \A g \in s.generations : RevisionOf[g] = RevisionOf[d]
  /\ s.candidate # None => RevisionOf[s.candidate] = RevisionOf[d]

\* What a tombstone has done so far.
PurgeGood(r, off, states) ==
  /\ r.at \in Purging => Cleared(states[r.on])
  /\ r.at = "purgeGenerations" /\ r.back # "evicting" => states[r.on].cached = {}
  /\ r.at \in Tombstoning /\ r.back # "evicting" => r.on \in off

\* A withdrawn publication is clean, or its tombstone is on its way, or all
\* that is left is a candidate that its revalidation is about to discard.
Won(q) ==
  \/ Clean(db[q])
  \/ \E x \in Procs : Withdraws(proc[x], q)
  \/ proc[q].at = "discard" /\ Wiped(db[q], proc[q].d)

StoredGood(s) ==
  ~ s.disabled /\ s.active # None /\ Sole(s.active) => s.active \in s.generations

\* What is committed, activated or discarded is not the active generation.
FreshGood(r, s) ==
  r.at \in {"commit", "activate", "discard"} /\ ~ s.disabled /\ Sole(r.d) => s.active # r.d

\* No operation has rejected after its write.
Firm == budget.rejections = MaxRejections

WInv ==
  /\ \A x \in Procs : PurgeGood(proc[x], disabled, db)
  /\ budget.faults = MaxFaults /\ Firm => \A q \in disabled : Won(q)
AInv == Firm => \A q \in Publications : StoredGood(db[q]) /\ FreshGood(proc[q], db[q])
KInv == WInv /\ AInv

Whole == Inv /\ TInv /\ QInv /\ KInv
==============================================================================
