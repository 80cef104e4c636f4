--------------------------- MODULE LocalDocsProofs ---------------------------
(***************************************************************************)
(* For any publications, revisions and concurrent events, any limits and   *)
(* any number of restarts, server changes and refused writes: a withdrawn  *)
(* publication is not served from local storage, a tombstoned revision is  *)
(* not activated again, a withdrawal leaves nothing behind, and what is    *)
(* active is stored.                                                       *)
(***************************************************************************)
EXTENDS WithdrawalProofs

(* The transactions of the storage.                                         *)

\* What leaves the pointer and the tombstone alone.
Alike(s, t) ==
  StateGood(t) /\ t.disabled = s.disabled /\ t.evicted = s.evicted

\* observe changes neither pointer nor tombstone.
LEMMA ObserveAlike ==
  ASSUME NEW s, StateGood(s), NEW d, NEW e
  PROVE  Alike(s, Observe(s, d, e))
BY Zenon DEF Alike, StateGood, IsState, StateFields, Observe

\* Nor do putShell and putAsset,
LEMMA PutAlike ==
  ASSUME NEW s, StateGood(s), NEW d, NEW c
  PROVE  Alike(s, Put(s, d, c))
BY DEF Alike, StateGood, IsState, StateFields, Put

\* nor prunes and purges,
LEMMA PruneAlike ==
  ASSUME NEW s, StateGood(s)
  PROVE  /\ Alike(s, PruneGenerations(s)) /\ Alike(s, PruneGenerationCaches(s))
         /\ Alike(s, PurgeCaches(s)) /\ Alike(s, PurgeGenerations(s))
<1>1. Alike(s, PruneGenerations(s))
  <2> DEFINE kept == Without(<<s.active, s.previous, s.candidate>>, {None})
             keep == {Revision(kept[i]) : i \in 1 .. Len(kept) \cap 1 .. MaxGenerations}
             left == {g \in s.generations : RevisionOf[g] \in keep}
  <2>1. PruneGenerations(s) = [s EXCEPT !.generations = left]
    BY DEF PruneGenerations
  <2>2. None \notin left
    BY Zenon DEF StateGood
  <2> HIDE DEF left
  <2> QED BY <2>1, <2>2 DEF Alike, StateGood, IsState, StateFields
<1>2. ASSUME NEW c PROVE Alike(s, [s EXCEPT !.cached = c])
  BY DEF Alike, StateGood, IsState, StateFields
<1>3. Alike(s, PruneGenerationCaches(s))
  BY <1>2 DEF PruneGenerationCaches
<1>4. Alike(s, PurgeGenerations(s))
  BY DEF Alike, StateGood, IsState, StateFields, PurgeGenerations
<1> QED BY <1>1, <1>3, <1>4 DEF PurgeCaches

\* nor commitGeneration: a candidate enables nothing,
LEMMA CommitAlike ==
  ASSUME NEW s, StateGood(s), NEW d, d # None
  PROVE  Alike(s, CommitGeneration(s, d))
BY Zenon DEF Alike, StateGood, IsState, StateFields, CommitGeneration, NextEpoch

\* nor discardCandidate.
LEMMA DiscardAlike ==
  ASSUME NEW s, StateGood(s), NEW r
  PROVE  Alike(s, DiscardCandidate(s, r))
BY Zenon DEF Alike, StateGood, IsState, StateFields, DiscardCandidate, NextEpoch

\* tombstone disables, and records whether it was an eviction.
LEMMA TombstoneGood ==
  ASSUME NEW s, StateGood(s), NEW e \in BOOLEAN
  PROVE  /\ StateGood(Tombstone(s, e))
         /\ Tombstone(s, e).disabled /\ Tombstone(s, e).evicted = e
BY Zenon DEF StateGood, IsState, StateFields, Tombstone, NextEpoch

\* activate enables the publication with the revision asked for.
LEMMA ActivateGood ==
  ASSUME NEW s, StateGood(s), NEW r, MayActivate(s, r)
  PROVE  /\ StateGood(Activate(s, r)) /\ ~ Activate(s, r).disabled
         /\ Activate(s, r).active # None
         /\ Revision(Activate(s, r).active) = r
         /\ TokenGood(Token(s, Activate(s, r)))
<1> DEFINE d == CHOOSE g \in Record(s, r) : TRUE
           prev == IF s.active # None /\ Revision(s.active) # r THEN s.active ELSE s.previous
<1>1. d \in Record(s, r)
  BY DEF MayActivate
<1>2. d # None /\ d \in s.generations /\ RevisionOf[d] = r
  BY <1>1 DEF Record, StateGood
<1>3. Activate(s, r) = NextEpoch([s EXCEPT !.previous = prev, !.active = d, !.candidate = None,
                          !.disabled = FALSE, !.tombstone = None,
                          !.evicted = FALSE, !.etag = d])
  BY DEF Activate
<1> HIDE DEF d, prev
<1>4. /\ StateGood(Activate(s, r)) /\ ~ Activate(s, r).disabled
      /\ Activate(s, r).active = d
  BY <1>2, <1>3, Zenon DEF StateGood, IsState, StateFields, NextEpoch
<1>5. None \notin {s.active, s.previous} \cap s.generations
  BY DEF StateGood
<1>6. TokenGood(Token(s, Activate(s, r)))
  BY <1>2, <1>4, <1>5 DEF TokenGood, Token
<1> QED BY <1>2, <1>4, <1>6 DEF Revision

\* restoreMetadata restores an enabled state.
LEMMA RestoreGood ==
  ASSUME NEW s, StateGood(s), NEW t, TokenGood(t)
  PROVE  StateGood(RestoreMetadata(s, t)) /\ ~ RestoreMetadata(s, t).disabled
<1> DEFINE left == {g \in s.generations : RevisionOf[g] \notin {RevisionOf[h] : h \in t.records}}
                     \cup t.records
<1>1. RestoreMetadata(s, t) =
        [t.metadata EXCEPT !.epoch = s.epoch + 1, !.cached = s.cached, !.generations = left]
  BY DEF RestoreMetadata
<1>2. None \notin left
  BY DEF StateGood, TokenGood
<1> HIDE DEF left
<1> QED BY <1>1, <1>2, Zenon DEF TokenGood, StateGood, IsState, StateFields

-----------------------------------------------------------------------------
(* The steps.                                                               *)

\* What the two properties ask of a step.
Right ==
  /\ \A h \in Handlers :
       proc[h].at = "serve" /\ proc'[h].at = "served" =>
         /\ proc[h].p \notin disabled
         /\ db[proc[h].p].disabled => db[proc[h].p].evicted
  /\ \A p \in Publications :
       db[p].disabled /\ ~ db'[p].disabled => Revision(db'[p].active) # db[p].tombstone

\* A step that withdraws nothing behind the back of the routing: what is
\* withdrawn after it and still routed was so before.
Quiet ==
  /\ disabled \subseteq disabled'
  /\ DbGood'
  /\ \A q \in Publications \ disabled' : Withdrawn(db'[q]) => Withdrawn(db[q])

\* And that enables nothing.
Steady == Quiet /\ \A q \in Publications : ~ db'[q].disabled => ~ db[q].disabled

\* A step that writes nothing is steady.
LEMMA SameStorage ==
  ASSUME Inv, UNCHANGED db, disabled \subseteq disabled'
  PROVE  Steady
BY DEF Steady, Quiet, Inv, DbGood

\* A write withdraws only what routing has left, or what was withdrawn.
LEMMA Written ==
  ASSUME Inv, disabled \subseteq disabled', NEW q, NEW s, Write(q, s),
         q \in Publications => /\ StateGood(s)
                               /\ Withdrawn(s) => q \in disabled' \/ Withdrawn(db[q])
  PROVE  /\ Quiet
         /\ (db[q].disabled => s.disabled) => Steady
BY DEF Steady, Quiet, Inv, DbGood, Write

\* A write that leaves pointer and tombstone alone is steady.
LEMMA WrittenAlike ==
  ASSUME Inv, disabled \subseteq disabled', NEW q, NEW s, Write(q, s),
         q \in Publications => Alike(db[q], s)
  PROVE  Steady
BY DEF Steady, Quiet, Inv, DbGood, Write, Alike, Withdrawn

\* A quiet step keeps what the other processes know.
LEMMA Kept ==
  ASSUME Quiet, NEW r, ProcGood(r, disabled, db)
  PROVE  ProcGood(r, disabled', db')
BY DEF ProcGood, Quiet, Reading

\* One process moves.
LEMMA Moved ==
  ASSUME Inv, Quiet, NEW x \in Procs, NEW r, proc' = [proc EXCEPT ![x] = r],
         ProcGood(r, disabled', db')
  PROVE  Inv'
<1>1. ASSUME NEW y \in Procs PROVE ProcGood(proc'[y], disabled', db')
  BY <1>1, Kept DEF Inv, ProcsGood
<1> QED BY <1>1 DEF Inv, ProcsGood, Quiet

\* One process moves by a steady step, and serves nothing.
LEMMA MovedRight ==
  ASSUME Inv, Steady, NEW x \in Procs, NEW r, proc' = [proc EXCEPT ![x] = r],
         ProcGood(r, disabled', db'), r.at # "served"
  PROVE  Inv' /\ Right
<1>1. Inv'
  BY Moved, Zenon DEF Steady
<1>2. ASSUME NEW h \in Handlers, proc'[h].at = "served" PROVE proc[h].at = "served"
  BY <1>2 DEF Inv, ProcsGood, Procs
<1> QED BY <1>1, <1>2 DEF Right, Steady

\* A process that goes where nothing more is asked of it.
Plain(label) ==
  label \notin Tombstoning \cup Activating \cup Reading \cup {"served"}

\* Nothing is asked of an idle process.
LEMMA IdleGood ==
  ASSUME NEW off, NEW states
  PROVE  ProcGood(Idle, off, states)
BY DEF ProcGood, IsProc, ProcFields, Idle, Tombstoning, Activating, Reading

\* A process outside a tombstone may go to a plain label.
LEMMA PlainGood ==
  ASSUME Inv, NEW x \in Procs, proc[x].at \notin Tombstoning \cup {"idle"},
         NEW label, Plain(label), NEW off, NEW states
  PROVE  ProcGood([proc[x] EXCEPT !.at = label], off, states)
BY DEF Inv, ProcsGood, ProcGood, IsProc, ProcFields, Plain, Tombstoning

\* Steps that only move a process to a plain label.
LEMMA Went ==
  ASSUME Inv, Steady, NEW x \in Procs, proc[x].at \notin Tombstoning \cup {"idle"},
         NEW label, Plain(label), Goto(x, label)
  PROVE  Inv' /\ Right
<1> DEFINE r == IF label = "idle" THEN Idle ELSE [proc[x] EXCEPT !.at = label]
<1>1. proc' = [proc EXCEPT ![x] = r]
  BY DEF Goto
<1>2. ProcGood(r, disabled', db')
  BY IdleGood, PlainGood
<1>3. r.at # "served"
  BY DEF Plain, Idle, Inv, ProcsGood, ProcGood, IsProc, ProcFields
<1> HIDE DEF r
<1> QED BY <1>1, <1>2, <1>3, MovedRight, Zenon

\* The publication and the descriptor of a running process.
LEMMA RunningGood ==
  ASSUME Inv, NEW x \in Procs, proc[x].at \notin Tombstoning \cup {"idle"}
  PROVE  /\ proc[x].p \in Publications /\ proc[x].d # None
         /\ StateGood(db[proc[x].p])
BY DEF Inv, DbGood, ProcsGood, ProcGood

\* disablePublication turns routing off before the tombstone is awaited.
LEMMA Disabling ==
  ASSUME Inv, NEW x \in Procs, proc[x].at \notin Tombstoning \cup {"idle"},
         NEW back \in {"idle", "persisted", "refused"}, DisablePublication(x, back),
         UNCHANGED db
  PROVE  Inv' /\ Right
<1> DEFINE r == [proc[x] EXCEPT !.at = "tombstone", !.on = proc[x].p, !.back = back]
<1>1. proc' = [proc EXCEPT ![x] = r]
  BY Zenon DEF DisablePublication, AwaitTombstone
<1>2. proc[x].p \in disabled' /\ disabled \subseteq disabled'
  BY DEF DisablePublication
<1>3. ProcGood(r, disabled', db') /\ r.at # "served"
  BY <1>2, RunningGood, Zenon DEF Inv, ProcsGood, ProcGood, IsProc, ProcFields, Tombstoning, Activating, Reading
<1> HIDE DEF r
<1> QED BY <1>1, <1>2, <1>3, SameStorage, MovedRight, Zenon

\* revalidateDescriptor starts a revalidation or joins the running one.
LEMMA Revalidating ==
  ASSUME Inv, Steady, NEW h \in Handlers, proc[h].at \notin Tombstoning,
         NEW p \in Publications, NEW d, d # None, NEW label \in {"join", "rejoin"},
         RevalidateDescriptor(h, p, d, label)
  PROVE  Inv' /\ Right
<1> DEFINE r == [proc[h] EXCEPT !.at = label, !.p = p, !.d = d]
           bound == Bound(p, d)
           s == [Idle EXCEPT !.at = "load", !.p = p, !.d = bound]
<1>1. h # p /\ h \in Procs /\ p \in Procs
  BY NamesAreDistinct DEF Procs
<1>2. bound # None
  BY DEF Bound
<1>3. ProcGood(r, disabled', db') /\ r.at = label
  BY <1>1, Zenon DEF Inv, ProcsGood, ProcGood, IsProc, ProcFields, Tombstoning, Activating, Reading
<1>4. ProcGood(s, disabled', db') /\ s.at = "load"
  <2> HIDE DEF bound
  <2> QED BY <1>2, Zenon DEF ProcGood, IsProc, ProcFields, Idle, Tombstoning, Activating, Reading
<1>5. /\ proc' = [x \in Procs |-> proc'[x]]
      /\ proc'[h] = r
      /\ proc'[p] \in {proc[p], s}
      /\ \A x \in Procs : x \notin {h, p} => proc'[x] = proc[x]
  BY <1>1, Zenon DEF RevalidateDescriptor, Inv, ProcsGood
<1> HIDE DEF r, s, bound
<1>6. \A x \in Procs : ProcGood(proc[x], disabled', db')
  BY Kept DEF Steady, Inv, ProcsGood
<1>7. Inv'
  <2>1. ASSUME NEW x \in Procs PROVE ProcGood(proc'[x], disabled', db')
    BY <1>3, <1>4, <1>5, <1>6
  <2> QED BY <1>5, <2>1 DEF Inv, ProcsGood, Steady, Quiet
<1>8. ASSUME NEW g \in Handlers, proc[g].at = "serve" PROVE proc'[g].at # "served"
  BY <1>1, <1>3, <1>5, <1>8, NamesAreDistinct DEF Procs
<1> QED BY <1>7, <1>8 DEF Right, Steady

-----------------------------------------------------------------------------
(* The operations, one lemma for each group of actions.                     *)

\* The configure message up to the shell.
LEMMA ConfigureSteps ==
  ASSUME Inv, NEW h \in Handlers,
         Admit(h) \/ ObserveDescriptor(h) \/ Configured(h) \/ CacheAssets(h)
  PROVE  Inv' /\ Right
<1> DEFINE p == proc[h].p
<1>0. h \in Procs
  BY DEF Procs
<1> USE DEF At
<1>1. CASE Admit(h)
  <2>1. Steady
    BY <1>1, SameStorage, SMTT(30) DEF Admit, stored
  <2>2. \E label \in {"idle", "observe"} : Goto(h, label)
    BY <1>1 DEF Admit, Done, Call
  <2> QED BY <1>0, <1>1, <2>1, <2>2, Went, SMTT(30) DEF Admit, Plain, Tombstoning, Activating, Reading
<1>2. CASE ObserveDescriptor(h)
  <2>1. p \in Publications => Alike(db[p], Observe(db[p], proc[h].d, None))
    BY ObserveAlike DEF Inv, DbGood
  <2>2. Steady
    BY <1>2, <2>1, WrittenAlike DEF ObserveDescriptor
  <2>3. \E label \in {"idle", "configured"} : Goto(h, label)
    BY <1>2 DEF ObserveDescriptor, Done
  <2> QED BY <1>0, <1>2, <2>2, <2>3, Went DEF ObserveDescriptor, Plain, Tombstoning, Activating, Reading
<1>3. CASE Configured(h)
  <2>1. Steady
    BY <1>3, SameStorage DEF Configured, stored
  <2>2. proc[h].at = "configured"
    BY <1>3 DEF Configured
  <2>3. \/ RevalidateDescriptor(h, p, proc[h].d, "rejoin")
        \/ \E label \in {"idle", "assets"} : Goto(h, label)
    BY <1>3 DEF Configured, Done
  <2>4. p \in Publications /\ proc[h].d # None
    BY <1>0, <2>2, RunningGood DEF Tombstoning
  <2>5. CASE RevalidateDescriptor(h, p, proc[h].d, "rejoin")
    BY <2>1, <2>2, <2>4, <2>5, Revalidating DEF Tombstoning
  <2> QED BY <1>0, <2>1, <2>2, <2>3, <2>5, Went DEF Plain, Tombstoning, Activating, Reading
<1>4. CASE CacheAssets(h)
  <2>1. proc[h].at = "assets"
    BY <1>4 DEF CacheAssets
  <2>2. PICK ok \in BOOLEAN :
           IF Off(h) THEN Done(h) /\ UNCHANGED db
           ELSE /\ proc' = [proc EXCEPT ![h].at = "shell", ![h].ok = ok]
                /\ IF ok THEN Write(p, Put(db[p], proc[h].d, "fallback"))
                         ELSE UNCHANGED db
    BY <1>4 DEF CacheAssets
  <2>3. p \in Publications => Alike(db[p], Put(db[p], proc[h].d, "fallback"))
    BY PutAlike DEF Inv, DbGood
  <2>4. Steady
    BY <1>4, <2>2, <2>3, SameStorage, WrittenAlike DEF CacheAssets
  <2>5. CASE Off(h)
    BY <1>0, <2>1, <2>2, <2>4, <2>5, Went DEF Done, Plain, Tombstoning, Activating, Reading
  <2>6. CASE ~ Off(h)
    <3> DEFINE r == [proc[h] EXCEPT !.at = "shell", !.ok = ok]
    <3>1. proc' = [proc EXCEPT ![h] = r]
      BY <2>2, <2>6, Zenon
    <3>2. ProcGood(r, disabled', db') /\ r.at # "served"
      BY <1>0, <2>1, Zenon DEF Inv, ProcsGood, ProcGood, IsProc, ProcFields, Tombstoning, Activating, Reading
    <3> HIDE DEF r
    <3> QED BY <1>0, <2>4, <3>1, <3>2, MovedRight, Zenon
  <2> QED BY <2>5, <2>6
<1> QED BY <1>1, <1>2, <1>3, <1>4

\* What follows a cached shell.
LEMMA ShellReadySteps ==
  ASSUME Inv, Steady, NEW h \in Handlers, proc[h].at \notin Tombstoning \cup {"idle"},
         ShellReady(h)
  PROVE  Inv' /\ Right
<1>0. h \in Procs
  BY DEF Procs
<1>1. \/ RevalidateDescriptor(h, proc[h].p, proc[h].d, "join")
      \/ Goto(h, "idle")
  BY DEF ShellReady, Done
<1>2. proc[h].p \in Publications /\ proc[h].d # None
  BY <1>0, RunningGood
<1>3. CASE RevalidateDescriptor(h, proc[h].p, proc[h].d, "join")
  BY <1>2, <1>3, Revalidating
<1> QED BY <1>0, <1>1, <1>3, Went DEF Plain, Tombstoning, Activating, Reading

\* The answer to the shell request and the shell of an earlier worker.
LEMMA ShellSteps ==
  ASSUME Inv, NEW h \in Handlers, ShellAnswer(h) \/ PutShell(h) \/ PersistedShell(h)
  PROVE  Inv' /\ Right
<1> DEFINE p == proc[h].p
<1>0. h \in Procs
  BY DEF Procs
<1> USE DEF At
<1>1. CASE ShellAnswer(h)
  <2>1. proc[h].at = "shell" /\ UNCHANGED db
    BY <1>1 DEF ShellAnswer, stored
  <2>2. \/ DisablePublication(h, "persisted")
        \/ UNCHANGED disabled /\ \E label \in {"persisted", "putShell"} : Goto(h, label)
    BY <1>1 DEF ShellAnswer, Call
  <2>3. CASE DisablePublication(h, "persisted")
    BY <1>0, <2>1, <2>3, Disabling DEF Tombstoning
  <2>4. CASE UNCHANGED disabled /\ \E label \in {"persisted", "putShell"} : Goto(h, label)
    <3>1. Steady
      BY <2>1, <2>4, SameStorage
    <3> QED BY <1>0, <2>1, <2>4, <3>1, Went DEF Plain, Tombstoning, Activating, Reading
  <2> QED BY <2>2, <2>3, <2>4
<1>2. CASE PutShell(h)
  <2>1. proc[h].at = "putShell" /\ UNCHANGED disabled
    BY <1>2 DEF PutShell
  <2>2. \/ Write(p, Put(db[p], proc[h].d, "shell")) /\ ShellReady(h)
        \/ UNCHANGED db /\ Goto(h, "persisted")
    BY <1>2 DEF PutShell
  <2>3. p \in Publications => Alike(db[p], Put(db[p], proc[h].d, "shell"))
    BY PutAlike DEF Inv, DbGood
  <2>4. Steady
    BY <2>1, <2>2, <2>3, SameStorage, WrittenAlike
  <2> QED BY <1>0, <2>1, <2>2, <2>4, ShellReadySteps, Went, Zenon DEF Plain, Tombstoning, Activating, Reading
<1>3. CASE PersistedShell(h)
  <2>1. proc[h].at = "persisted" /\ Steady
    BY <1>3, SameStorage DEF PersistedShell, stored
  <2>2. ShellReady(h) \/ Goto(h, "idle")
    BY <1>3 DEF PersistedShell, Done
  <2> QED BY <1>0, <2>1, <2>2, ShellReadySteps, Went DEF Plain, Tombstoning, Activating, Reading
<1> QED BY <1>1, <1>2, <1>3

\* The network answers of a fetch.
LEMMA AnswerSteps ==
  ASSUME Inv, NEW h \in Handlers, DirectAnswer(h) \/ NetworkAnswer(h) \/ PutFetched(h)
  PROVE  Inv' /\ Right
<1> DEFINE p == proc[h].p
<1>0. h \in Procs
  BY DEF Procs
<1> USE DEF At
<1>1. CASE DirectAnswer(h) \/ NetworkAnswer(h)
  <2>1. proc[h].at \in {"direct", "network"} /\ UNCHANGED db
    BY <1>1, Zenon DEF DirectAnswer, NetworkAnswer, stored
  <2>2. \/ DisablePublication(h, "idle")
        \/ UNCHANGED disabled /\ \E label \in {"idle", "put", "fallback"} : Goto(h, label)
    BY <1>1 DEF DirectAnswer, NetworkAnswer, Done, Call
  <2>3. CASE DisablePublication(h, "idle")
    BY <1>0, <2>1, <2>3, Disabling DEF Tombstoning
  <2>4. CASE UNCHANGED disabled /\ \E label \in {"idle", "put", "fallback"} : Goto(h, label)
    <3>1. Steady
      BY <2>1, <2>4, SameStorage
    <3> QED BY <1>0, <2>1, <2>4, <3>1, Went DEF Plain, Tombstoning, Activating, Reading
  <2> QED BY <2>2, <2>3, <2>4
<1>2. CASE PutFetched(h)
  <2>1. proc[h].at = "put" /\ UNCHANGED disabled
    BY <1>2 DEF PutFetched
  <2>2. /\ Write(p, Put(db[p], proc[h].d, proc[h].content)) \/ UNCHANGED db
        /\ \E label \in {"idle", "fallback"} : Goto(h, label)
    BY <1>2 DEF PutFetched, Done
  <2>3. p \in Publications => Alike(db[p], Put(db[p], proc[h].d, proc[h].content))
    BY PutAlike DEF Inv, DbGood
  <2>4. Steady
    BY <2>1, <2>2, <2>3, SameStorage, WrittenAlike, Zenon
  <2> QED BY <1>0, <2>1, <2>2, <2>4, Went, SMTT(30) DEF Plain, Tombstoning, Activating, Reading
<1> QED BY <1>1, <1>2

\* The local fallback: routing is on, or nothing is served.
LEMMA ReadSteps ==
  ASSUME Inv, NEW h \in Handlers, Fallback(h) \/ Read(h) \/ Serve(h) \/ Respond(h)
  PROVE  Inv' /\ Right
<1>0. h \in Procs
  BY DEF Procs
<1> USE DEF At
<1>1. Steady /\ UNCHANGED <<db, disabled>>
  BY SameStorage DEF Fallback, Read, Serve, Respond, stored
<1>2. proc[h].at \in {"fallback", "read", "serve", "served"}
  BY DEF Fallback, Read, Serve, Respond
<1>3. CASE Goto(h, "idle")
  BY <1>0, <1>1, <1>2, <1>3, Went DEF Plain, Tombstoning, Activating, Reading
<1>4. ASSUME NEW label \in {"read", "serve", "served"}, Goto(h, label),
             label \in Reading => Off(h) \/ ~ Withdrawn(db[proc[h].p])
      PROVE  Inv' /\ (label # "served" => Right)
  <2> DEFINE r == [proc[h] EXCEPT !.at = label]
  <2>1. proc' = [proc EXCEPT ![h] = r] /\ r.at = label
    BY <1>0, <1>4, Zenon DEF Goto, Inv, ProcsGood, ProcGood, IsProc, ProcFields
  <2>2. ProcGood(r, disabled', db')
    BY <1>0, <1>1, <1>2, <1>4, SMTT(30) DEF Off, Inv, ProcsGood, ProcGood, IsProc, ProcFields,
       Tombstoning, Activating, Reading
  <2> HIDE DEF r
  <2> QED BY <1>0, <1>1, <2>1, <2>2, Moved, MovedRight, Zenon DEF Steady
<1>5. CASE Fallback(h)
  BY <1>3, <1>4, <1>5 DEF Fallback, Withdrawn, Reading
<1>6. proc[h].at \in Reading => Off(h) \/ ~ Withdrawn(db[proc[h].p])
  BY <1>0 DEF Off, Inv, ProcsGood, ProcGood
<1>7. CASE Read(h)
  BY <1>3, <1>4, <1>6, <1>7 DEF Read, Reading
<1>8. CASE Serve(h) /\ Goto(h, "served")
  <2>1. Inv'
    BY <1>4, <1>8 DEF Reading
  <2>2. CASE MayServe(h)
    <3>1. proc[h].p \notin disabled /\ (db[proc[h].p].disabled => db[proc[h].p].evicted)
      BY <1>6, <1>8, <2>2 DEF Serve, MayServe, Off, Withdrawn, Reading
    <3>2. \A g \in Handlers : g # h => proc'[g] = proc[g]
      BY <1>0, <1>8 DEF Goto, Inv, ProcsGood, Procs
    <3> QED BY <1>1, <2>1, <3>1, <3>2, SMTT(30) DEF Right
  <2>3. CASE ~ MayServe(h)
    BY <1>3, <1>8, <2>3 DEF Serve
  <2> QED BY <2>2, <2>3
<1>9. CASE Serve(h) /\ Goto(h, "idle")
  BY <1>3, <1>9
<1>10. CASE Respond(h)
  BY <1>3, <1>10 DEF Respond, Done
<1> QED BY <1>5, <1>7, <1>8, <1>9, <1>10, ZenonT(30) DEF Serve

\* A tombstone: a withdrawal's is written when routing is already off.
LEMMA TombstoneSteps ==
  ASSUME Inv, NEW x \in Procs, TombstoneStep(x)
  PROVE  Inv' /\ Right
<1> DEFINE q == proc[x].on
<1> USE DEF At
<1>0. ProcGood(proc[x], disabled, db) /\ (q \in Publications => StateGood(db[q]))
  BY DEF Inv, DbGood, ProcsGood
<1>1. ASSUME NEW label \in {"purgeCaches", "purgeGenerations"}, Goto(x, label), Steady,
             proc[x].at \in Tombstoning
      PROVE  Inv' /\ Right
  <2> DEFINE r == [proc[x] EXCEPT !.at = label]
  <2>1. proc' = [proc EXCEPT ![x] = r]
    BY <1>1, Zenon DEF Goto
  <2>2. ProcGood(r, disabled', db') /\ r.at # "served"
    BY <1>0, <1>1 DEF ProcGood, IsProc, ProcFields, Tombstoning, Activating, Reading
  <2> HIDE DEF r
  <2> QED BY <1>1, <2>1, <2>2, MovedRight, Zenon
<1>2. CASE WriteTombstone(x)
  <2> DEFINE e == proc[x].back = "evicting"
             t == Tombstone(db[q], e)
  <2>1. proc[x].at = "tombstone" /\ UNCHANGED disabled /\ Write(q, t) /\ Goto(x, "purgeCaches")
    BY <1>2 DEF WriteTombstone
  <2>2. e \in BOOLEAN
    OBVIOUS
  <2>3. q \in Publications => StateGood(t) /\ t.disabled /\ t.evicted = e
    <3> HIDE DEF e
    <3> QED BY <1>0, <2>2, TombstoneGood, SMTT(30)
  <2>4. ~ e => q \in disabled
    BY <1>0, <2>1 DEF ProcGood
  <2> HIDE DEF t, e
  <2>5. Steady
    BY <2>1, <2>2, <2>3, <2>4 DEF Steady, Quiet, Inv, DbGood, Write, Withdrawn
  <2> QED BY <1>1, <2>1, <2>5 DEF Tombstoning
<1>3. CASE PurgeTombstonedCaches(x)
  <2>1. Steady
    BY <1>0, <1>3, PruneAlike, WrittenAlike DEF PurgeTombstonedCaches
  <2> QED BY <1>1, <1>3, <2>1 DEF PurgeTombstonedCaches, Tombstoning
<1>4. CASE PurgeTombstonedGenerations(x)
  <2>1. Steady
    BY <1>0, <1>4, PruneAlike, WrittenAlike DEF PurgeTombstonedGenerations
  <2> DEFINE s == [proc[x] EXCEPT !.at = proc[x].back, !.on = None, !.back = None]
             r == IF proc[x].back = "idle" THEN Idle ELSE s
  <2>2. proc' = [proc EXCEPT ![x] = r] /\ proc[x].at = "purgeGenerations"
    BY <1>4 DEF PurgeTombstonedGenerations
  <2>3. proc[x].back # "idle" => ProcGood(s, disabled', db') /\ s.at # "served"
    BY <1>0, <2>2, Zenon DEF ProcGood, IsProc, ProcFields, Tombstoning, Activating, Reading
  <2>4. ProcGood(r, disabled', db') /\ r.at # "served"
    <3> HIDE DEF s
    <3> QED BY <2>3, IdleGood, Zenon DEF Idle
  <2> HIDE DEF r
  <2> QED BY <2>1, <2>2, <2>4, MovedRight, Zenon
<1> QED BY <1>2, <1>3, <1>4 DEF TombstoneStep

\* An event arrives.
LEMMA MessageSteps ==
  ASSUME Inv, Message
  PROVE  Inv' /\ Right
<1>0. PICK h \in Handlers, p \in Visited :
        \/ \E d \in DescriptorsOf[p] : ConfigureMessage(h, p, d)
        \/ RevalidateMessage(h, p)
        \/ DisableMessage(h, p)
        \/ \E content \in {"document", "shell", "asset"} : FetchEvent(h, p, content)
  BY DEF Message
<1>1. h \in Procs /\ p \in Publications
  BY VisitedAreOffered DEF Procs
<1>2. proc[h].at = "idle" /\ UNCHANGED db /\ disabled \subseteq disabled'
  BY <1>0, Zenon DEF ConfigureMessage, RevalidateMessage, DisableMessage, FetchEvent, Event, At, stored
<1>3. Steady
  BY <1>2, SameStorage
<1>4. ASSUME NEW label \in {"direct", "network"}, NEW d, d # None, NEW content,
             proc' = [proc EXCEPT ![h] = [Idle EXCEPT !.at = label, !.p = p, !.d = d,
                                                      !.content = content]]
      PROVE  Inv' /\ Right
  <2> DEFINE r == [Idle EXCEPT !.at = label, !.p = p, !.d = d, !.content = content]
  <2>1. ProcGood(r, disabled', db') /\ r.at # "served"
    BY <1>1, <1>4, Zenon DEF ProcGood, IsProc, ProcFields, Idle, Tombstoning, Activating, Reading
  <2> HIDE DEF r
  <2>2. proc' = [proc EXCEPT ![h] = r]
    BY <1>4 DEF r
  <2> QED BY <1>1, <1>3, <2>1, <2>2, MovedRight, Zenon
<1>5. CASE \E d \in DescriptorsOf[p] : ConfigureMessage(h, p, d)
  <2>1. PICK d \in DescriptorsOf[p] : ConfigureMessage(h, p, d)
    BY <1>5
  <2>2. d # None
    BY <1>1, <2>1, FirstIsOffered, NamesAreDistinct
  <2> DEFINE r == [Idle EXCEPT !.at = "admit", !.p = p, !.d = d]
  <2>3. ProcGood(r, disabled', db') /\ r.at # "served"
    BY <1>1, <2>2, Zenon DEF ProcGood, IsProc, ProcFields, Idle, Tombstoning, Activating, Reading
  <2>4. proc' = [proc EXCEPT ![h] = r]
    BY <2>1 DEF ConfigureMessage
  <2> HIDE DEF r
  <2> QED BY <1>1, <1>3, <2>3, <2>4, MovedRight, Zenon
<1>6. CASE RevalidateMessage(h, p)
  BY <1>1, <1>2, <1>3, <1>6, Revalidating DEF RevalidateMessage, Tombstoning
<1>7. CASE DisableMessage(h, p)
  <2> DEFINE r == [Idle EXCEPT !.at = "tombstone", !.p = p, !.on = p, !.back = "idle"]
  <2>1. proc' = [proc EXCEPT ![h] = r] /\ p \in disabled'
    BY <1>7 DEF DisableMessage
  <2>2. ProcGood(r, disabled', db') /\ r.at # "served"
    BY <1>1, <2>1, Zenon DEF ProcGood, IsProc, ProcFields, Idle, Tombstoning, Activating, Reading
  <2> HIDE DEF r
  <2> QED BY <1>1, <1>3, <2>1, <2>2, MovedRight, Zenon
<1>8. CASE \E content \in {"document", "shell", "asset"} : FetchEvent(h, p, content)
  <2>1. PICK content : FetchEvent(h, p, content)
    BY <1>8
  <2> DEFINE d == IF descriptors[p] = None THEN Restored(p) ELSE descriptors[p]
             label == IF p \in disabled THEN "direct" ELSE "network"
  <2>2. d # None /\ proc' = [proc EXCEPT ![h] = [Idle EXCEPT !.at = label, !.p = p, !.d = d,
                                                             !.content = content]]
    BY <2>1 DEF FetchEvent
  <2>3. label \in {"direct", "network"}
    OBVIOUS
  <2> HIDE DEF d, label
  <2> QED BY <1>4, <2>2, <2>3, Zenon
<1> QED BY <1>0, <1>5, <1>6, <1>7, <1>8

(* The revalidation of a publication.                                       *)

\* Everything before the activation, and after the rollback.
LEMMA RevalidateSteps ==
  ASSUME Inv, NEW p \in Publications,
         Load(p) \/ ManifestAnswer(p) \/ Recover(p) \/ Refresh(p) \/ Compare(p)
           \/ Commit(p) \/ PruneAfterRestore(p) \/ Discard(p)
  PROVE  Inv' /\ Right
<1>0. p \in Procs
  BY DEF Procs
<1> USE DEF At
<1>1. CASE Load(p)
  <2>1. proc[p].at = "load" /\ Steady
    BY <1>1, SameStorage DEF Load, stored
  <2>2. \/ \E label \in {"failed", "refused"} : Goto(p, label)
        \/ proc' = [proc EXCEPT ![p].at = "manifest", ![p].etag = db[p].etag]
    BY <1>1 DEF Load
  <2>3. CASE proc' = [proc EXCEPT ![p].at = "manifest", ![p].etag = db[p].etag]
    <3> DEFINE r == [proc[p] EXCEPT !.at = "manifest", !.etag = db[p].etag]
    <3>1. proc' = [proc EXCEPT ![p] = r]
      BY <2>3, Zenon
    <3>2. ProcGood(r, disabled', db') /\ r.at # "served"
      BY <1>0, <2>1, Zenon DEF Inv, ProcsGood, ProcGood, IsProc, ProcFields, Tombstoning, Activating, Reading
    <3> HIDE DEF r
    <3> QED BY <1>0, <2>1, <3>1, <3>2, MovedRight, Zenon
  <2> QED BY <1>0, <2>1, <2>2, <2>3, Went DEF Plain, Tombstoning, Activating, Reading
<1>2. CASE ManifestAnswer(p)
  <2>1. proc[p].at = "manifest" /\ UNCHANGED db
    BY <1>2, Zenon DEF ManifestAnswer, stored
  <2>2. \/ DisablePublication(p, "refused")
        \/ /\ UNCHANGED disabled
           /\ \E label \in {"failed", "recover", "refresh", "compare", "fallback"} : Goto(p, label)
    BY <1>2, Zenon DEF ManifestAnswer, Call
  <2>3. CASE DisablePublication(p, "refused")
    BY <1>0, <2>1, <2>3, Disabling DEF Tombstoning
  <2>4. CASE /\ UNCHANGED disabled
             /\ \E label \in {"failed", "recover", "refresh", "compare", "fallback"} : Goto(p, label)
    <3>1. Steady
      BY <2>1, <2>4, SameStorage
    <3> QED BY <1>0, <2>1, <2>4, <3>1, Went DEF Plain, Tombstoning, Activating, Reading
  <2> QED BY <2>2, <2>3, <2>4, Zenon
<1>3. CASE Recover(p) \/ Compare(p)
  <2>1. proc[p].at \in {"recover", "compare"} /\ Steady
    BY <1>3, SameStorage, SMTT(30) DEF Recover, Compare, stored
  <2>2. \E label \in {"refresh", "commit", "failed", "fallback"} : Goto(p, label)
    BY <1>3, Zenon DEF Recover, Compare, Call
  <2> QED BY <1>0, <2>1, <2>2, Went, Zenon DEF Plain, Tombstoning, Activating, Reading
<1>4. CASE Refresh(p)
  <2>1. proc[p].at = "refresh" /\ Steady
    BY <1>4, ObserveAlike, WrittenAlike, Zenon DEF Refresh, Inv, DbGood
  <2>2. \E label \in {"ready", "failed"} : Goto(p, label)
    BY <1>4 DEF Refresh
  <2> QED BY <1>0, <2>1, <2>2, Went DEF Plain, Tombstoning, Activating, Reading
<1>5. CASE Commit(p)
  <2>1. proc[p].at = "commit" /\ UNCHANGED disabled
    BY <1>5 DEF Commit
  <2>2. proc[p].d # None /\ StateGood(db[p])
    BY <1>0, <2>1, RunningGood, ZenonT(30) DEF Inv, DbGood, Tombstoning
  <2>3. Steady
    BY <1>5, <2>1, <2>2, CommitAlike, SameStorage, WrittenAlike, SMTT(30) DEF Commit, stored
  <2>4. \E label \in {"discard", "activate"} : Goto(p, label)
    BY <1>5, Zenon DEF Commit, CallNext
  <2> QED BY <1>0, <2>1, <2>3, <2>4, Went, Zenon DEF Plain, Tombstoning, Activating, Reading
<1>6. CASE PruneAfterRestore(p)
  <2>1. proc[p].at \in {"restoredCaches", "restored"} /\ Steady
    BY <1>6, PruneAlike, WrittenAlike, ZenonT(60) DEF PruneAfterRestore, Inv, DbGood
  <2>2. \E label \in {"restored", "failed"} : Goto(p, label)
    BY <1>6 DEF PruneAfterRestore
  <2> QED BY <1>0, <2>1, <2>2, Went, SMTT(30) DEF Plain, Tombstoning, Activating, Reading
<1>7. CASE Discard(p)
  <2>1. proc[p].at = "discard" /\ Steady /\ Goto(p, "failed")
    BY <1>7, DiscardAlike, WrittenAlike DEF Discard, Inv, DbGood
  <2> QED BY <1>0, <2>1, Went DEF Plain, Tombstoning, Activating, Reading
<1> QED BY <1>1, <1>2, <1>3, <1>4, <1>5, <1>6, <1>7, SMTT(30)

\* The activation, its evictions and its rollback: only the activation enables
\* a publication, and with another revision than the tombstone's.
LEMMA ActivationSteps ==
  ASSUME Inv, NEW p \in Publications,
         ActivateCandidate(p) \/ PruneAfterActivation(p) \/ Evict(p) \/ EvictNext(p)
           \/ Activated(p) \/ Restore(p)
  PROVE  Inv' /\ Right
<1>0. p \in Procs /\ ProcGood(proc[p], disabled, db) /\ StateGood(db[p])
  BY DEF Procs, Inv, ProcsGood, DbGood
<1> USE DEF At
<1>1. CASE ActivateCandidate(p)
  <2> DEFINE n == RevisionOf[proc[p].d]
             s == Activate(db[p], n)
             t == Token(db[p], s)
             r == [proc[p] EXCEPT !.at = "pruneGenerations", !.token = t]
  <2>1. proc[p].at = "activate" /\ UNCHANGED disabled
    BY <1>1, Zenon DEF ActivateCandidate
  <2>2. CASE MayActivate(db[p], n)
    <3>1. Write(p, s) /\ proc' = [proc EXCEPT ![p] = r]
      BY <1>1, <2>2, Zenon DEF ActivateCandidate
    <3>2. StateGood(s) /\ ~ s.disabled /\ Revision(s.active) = n /\ TokenGood(t)
      BY <1>0, <2>2, ActivateGood, Zenon
    <3>3. db[p].disabled => db[p].tombstone # n
      BY <2>2 DEF MayActivate, Tombstoned
    <3> HIDE DEF s, t, n
    <3>4. ProcGood(r, disabled', db') /\ r.at = "pruneGenerations"
      BY <1>0, <2>1, <3>2, Zenon DEF ProcGood, IsProc, ProcFields, Tombstoning, Activating, Reading
    <3>5. Quiet
      BY <2>1, <3>1, <3>2 DEF Quiet, Inv, DbGood, Write, Withdrawn
    <3> HIDE DEF r
    <3>6. Inv'
      BY <1>0, <3>1, <3>4, <3>5, Moved, Zenon
    <3>7. \A h \in Handlers : proc'[h] = proc[h]
      BY <1>0, <3>1, NamesAreDistinct DEF Procs, Inv, ProcsGood
    <3>8. ASSUME NEW q \in Publications, db[q].disabled, ~ db'[q].disabled
          PROVE  Revision(db'[q].active) # db[q].tombstone
      BY <3>1, <3>2, <3>3, <3>8 DEF Write, Inv, DbGood
    <3> QED BY <3>6, <3>7, <3>8 DEF Right
  <2>3. CASE ~ MayActivate(db[p], n)
    <3>1. Steady /\ Goto(p, "discard")
      BY <1>1, <2>3, SameStorage DEF ActivateCandidate, CallNext, stored
    <3> QED BY <1>0, <2>1, <3>1, Went, Zenon DEF Plain, Tombstoning, Activating, Reading
  <2> QED BY <2>2, <2>3
<1>2. ASSUME NEW r, proc' = [proc EXCEPT ![p] = r], Steady, IsProc(r), r.p = proc[p].p,
             r.d = proc[p].d, r.token = proc[p].token, proc[p].at \in Activating,
             \/ r.at \in Activating
             \/ r.at = "tombstone" /\ r.back = "evicting"
      PROVE  Inv' /\ Right
  <2>1. ProcGood(r, disabled', db') /\ r.at # "served"
    BY <1>0, <1>2 DEF ProcGood, Tombstoning, Activating, Reading
  <2> QED BY <1>0, <1>2, <2>1, MovedRight, Zenon
<1>3. ASSUME NEW label \in Activating, Goto(p, label), Steady, proc[p].at \in Activating
      PROVE  Inv' /\ Right
  <2> DEFINE r == [proc[p] EXCEPT !.at = label]
  <2>1. proc' = [proc EXCEPT ![p] = r]
    BY <1>3, Zenon DEF Goto, Activating
  <2>2. IsProc(r) /\ r.p = proc[p].p /\ r.d = proc[p].d /\ r.token = proc[p].token /\ r.at = label
    BY <1>0 DEF ProcGood, IsProc, ProcFields
  <2> HIDE DEF r
  <2> QED BY <1>2, <1>3, <2>1, <2>2, Zenon
<1>4. CASE PruneAfterActivation(p)
  <2>1. Steady
    BY <1>0, <1>4, PruneAlike, WrittenAlike, Zenon DEF PruneAfterActivation
  <2>2. proc[p].at \in Activating /\ \E label \in Activating : Goto(p, label)
    BY <1>4, Zenon DEF PruneAfterActivation, Activating
  <2> QED BY <1>3, <2>1, <2>2, Zenon
<1>5. CASE Evict(p)
  <2> DEFINE v == Evictable(db, recent, p)
             r == [proc[p] EXCEPT !.at = "evicting", !.victims = v]
  <2>1. Steady /\ proc[p].at = "evict" /\ proc' = [proc EXCEPT ![p] = r]
    BY <1>5, SameStorage, Zenon DEF Evict, stored
  <2> HIDE DEF v
  <2>2. /\ IsProc(r) /\ r.p = proc[p].p /\ r.d = proc[p].d /\ r.token = proc[p].token
        /\ r.at = "evicting"
    BY <1>0, Zenon DEF ProcGood, IsProc, ProcFields
  <2> HIDE DEF r
  <2> QED BY <1>2, <2>1, <2>2, Zenon DEF Activating
<1>6. CASE EvictNext(p)
  <2> DEFINE v == Head(proc[p].victims)
             w == Tail(proc[p].victims)
             r == [proc[p] EXCEPT !.at = "tombstone", !.back = "evicting", !.on = v, !.victims = w]
  <2>1. Steady /\ proc[p].at = "evicting" /\ proc' = [proc EXCEPT ![p] = r]
    BY <1>6, SameStorage, Zenon DEF EvictNext, stored
  <2> HIDE DEF v, w
  <2>2. /\ IsProc(r) /\ r.p = proc[p].p /\ r.d = proc[p].d /\ r.token = proc[p].token
        /\ r.at = "tombstone" /\ r.back = "evicting"
    BY <1>0, Zenon DEF ProcGood, IsProc, ProcFields
  <2> HIDE DEF r
  <2> QED BY <1>2, <2>1, <2>2, Zenon DEF Activating
<1>7. CASE Activated(p)
  <2>1. Steady /\ proc[p].at = "evicting"
    BY <1>7, SameStorage, Zenon DEF Activated, stored
  <2>2. Goto(p, "restore") \/ Goto(p, "ready")
    BY <1>7, Zenon DEF Activated, CallNext
  <2>3. CASE Goto(p, "restore")
    BY <1>3, <2>1, <2>3 DEF Activating
  <2>4. CASE Goto(p, "ready")
    BY <1>0, <2>1, <2>4, Went, Zenon DEF Plain, Tombstoning, Activating, Reading
  <2> QED BY <2>2, <2>3, <2>4
<1>8. CASE Restore(p)
  <2> DEFINE s == RestoreMetadata(db[p], proc[p].token)
  <2>1. proc[p].at = "restore" /\ UNCHANGED disabled
    BY <1>8, Zenon DEF Restore
  <2>2. TokenGood(proc[p].token)
    BY <1>0, <2>1, Zenon DEF ProcGood, Activating
  <2>3. StateGood(s) /\ ~ s.disabled
    BY <1>0, <2>2, RestoreGood
  <2>4. RestoreApplies(db[p], proc[p].token) => ~ db[p].disabled
    BY <1>0, <2>2, Zenon DEF RestoreApplies, TokenGood, StateGood
  <2>5. \/ RestoreApplies(db[p], proc[p].token) /\ Write(p, s) /\ Goto(p, "restoredCaches")
        \/ UNCHANGED db /\ Goto(p, "failed")
    BY <1>8, Zenon DEF Restore
  <2> HIDE DEF s
  <2>6. Steady
    BY <2>1, <2>3, <2>4, <2>5, SameStorage, Written, SMTT(30) DEF Withdrawn
  <2> QED BY <1>0, <2>1, <2>5, <2>6, Went, SMTT(30) DEF Plain, Tombstoning, Activating, Reading
<1> QED BY <1>1, <1>4, <1>5, <1>6, <1>7, <1>8, SMTT(30)

\* The revalidation settles and everyone who joined it continues.
LEMMA SettleSteps ==
  ASSUME Inv, NEW p \in Publications, Settle(p)
  PROVE  Inv' /\ Right
<1>1. Steady
  BY SameStorage DEF Settle, stored
<1>2. ASSUME NEW x \in Procs
      PROVE  /\ ProcGood(proc'[x], disabled', db')
             /\ proc'[x].at = "served" => proc[x].at = "served"
  <2>1. ProcGood(proc[x], disabled, db) /\ ProcGood(proc[x], disabled', db')
    BY <1>1, Kept, SMTT(30) DEF Inv, ProcsGood, Steady
  <2> DEFINE r == [proc[x] EXCEPT !.at = "assets", !.reenable = TRUE]
  <2>2. \/ proc'[x] \in {Idle, proc[x]}
        \/ proc[x].at = "rejoin" /\ proc'[x] = r
    BY Zenon DEF Settle, Settled
  <2>3. proc[x].at = "rejoin" => ProcGood(r, disabled', db') /\ r.at = "assets"
    BY <2>1, Zenon DEF ProcGood, IsProc, ProcFields, Tombstoning, Activating, Reading
  <2> HIDE DEF r
  <2>4. Idle.at = "idle"
    BY DEF Idle
  <2> QED BY <2>1, <2>2, <2>3, <2>4, IdleGood
<1>3. proc' = [x \in Procs |-> proc'[x]]
  BY DEF Settle
<1>4. Inv'
  BY <1>1, <1>2, <1>3 DEF Inv, ProcsGood, Steady, Quiet
<1>5. \A h \in Handlers : proc'[h].at = "served" => proc[h].at = "served"
  BY <1>2 DEF Procs
<1> QED BY <1>1, <1>4, <1>5 DEF Right, Steady

\* Where an operation that is refused or rejects goes.
LEMMA RejectedGoes ==
  ASSUME NEW x, Refuse(x) \/ Reject(x)
  PROVE  /\ UNCHANGED <<stored, disabled, descriptors, revalidators>>
         /\ \/ proc[x].at \in Tombstoning /\ Goto(x, AfterTombstone(x))
            \/ /\ proc[x].at \notin Tombstoning /\ proc[x].at # "idle"
               /\ \E label \in {"idle", "discard", "failed", "persisted", "fallback"} :
                    Goto(x, label)
<1>1. CASE Refuse(x)
  <2>1. /\ proc[x].at \in {"observe", "commit", "activate", "refresh", "discard",
                           "restore", "putShell", "put", "tombstone"}
        /\ Goto(x, AfterRefusal(x)) /\ UNCHANGED <<stored, disabled, descriptors, revalidators>>
    BY <1>1, Zenon DEF Refuse, LeaveWith
  <2>2. proc[x].at = "tombstone" => proc[x].at \in Tombstoning /\ AfterRefusal(x) = AfterTombstone(x)
    BY DEF AfterRefusal, Tombstoning
  <2>3. proc[x].at # "tombstone" =>
          /\ proc[x].at \notin Tombstoning /\ proc[x].at # "idle"
          /\ AfterRefusal(x) \in {"idle", "discard", "failed", "persisted", "fallback"}
    BY <2>1, SMTT(30) DEF AfterRefusal, Tombstoning
  <2> QED BY <2>1, <2>2, <2>3, Zenon
<1>2. CASE Reject(x)
  <2>1. /\ proc[x].at \in {"pruneGenerations", "pruneCaches", "evict", "restoredCaches",
                           "restored", "purgeCaches", "purgeGenerations"}
        /\ Goto(x, AfterRejection(x)) /\ UNCHANGED <<stored, disabled, descriptors, revalidators>>
    BY <1>2, Zenon DEF Reject, LeaveWith
  <2>2. proc[x].at \in {"purgeCaches", "purgeGenerations"} =>
          proc[x].at \in Tombstoning /\ AfterRejection(x) = AfterTombstone(x)
    BY SMTT(30) DEF AfterRejection, Tombstoning
  <2>3. proc[x].at \notin {"purgeCaches", "purgeGenerations"} =>
          /\ proc[x].at \notin Tombstoning /\ proc[x].at # "idle"
          /\ AfterRejection(x) \in {"discard", "failed"}
    BY <2>1, SMTT(30) DEF AfterRejection, Tombstoning
  <2> QED BY <2>1, <2>2, <2>3, Zenon
<1> QED BY <1>1, <1>2

\* An operation is refused or rejects.
LEMMA RefuseSteps ==
  ASSUME Inv, NEW x \in Procs, Refuse(x) \/ Reject(x)
  PROVE  Inv' /\ Right
<1>0. /\ Steady /\ ProcGood(proc[x], disabled, db)
  BY RejectedGoes, SameStorage DEF stored, Inv, ProcsGood
<1>1. CASE proc[x].at \in Tombstoning /\ Goto(x, AfterTombstone(x))
  <2> DEFINE back == proc[x].back
             label == IF back = "refused" THEN "failed" ELSE back
             s == [proc[x] EXCEPT !.at = label]
             r == IF label = "idle" THEN Idle ELSE s
  <2>1. proc' = [proc EXCEPT ![x] = r]
    BY <1>1 DEF AfterTombstone, Goto
  <2>2. back \in {"idle", "persisted", "refused", "evicting"}
    BY <1>0, <1>1 DEF ProcGood
  <2>3. back # "idle" => ProcGood(s, disabled', db') /\ s.at # "served"
    BY <1>0, <1>1, <2>2 DEF ProcGood, IsProc, ProcFields, Tombstoning, Activating, Reading
  <2>4. ProcGood(r, disabled', db') /\ r.at # "served"
    <3> HIDE DEF s
    <3> QED BY <2>2, <2>3, IdleGood, Zenon DEF Idle
  <2> HIDE DEF r
  <2> QED BY <1>0, <2>1, <2>4, MovedRight, Zenon
<1>2. ASSUME proc[x].at \notin Tombstoning, proc[x].at # "idle",
             NEW label \in {"idle", "discard", "failed", "persisted", "fallback"}, Goto(x, label)
      PROVE  Inv' /\ Right
  BY <1>0, <1>2, Went DEF Plain, Tombstoning, Activating, Reading
<1> QED BY <1>1, <1>2, RejectedGoes, Zenon

-----------------------------------------------------------------------------
(* The specification.                                                       *)

\* The invariant holds of what an earlier worker has stored.
LEMMA InitGood == Init => Inv
<1> SUFFICES ASSUME Init PROVE Inv
  OBVIOUS
<1>1. StateGood(EmptyMetadata)
  BY Zenon DEF StateGood, IsState, StateFields, EmptyMetadata
<1>2. ASSUME NEW p \in Publications PROVE StateGood(StoredAs(First[p]))
  <2>1. First[p] # None
    BY FirstIsOffered, NamesAreDistinct
  <2> QED BY <2>1, ZenonT(60) DEF StateGood, IsState, StateFields, StoredAs, EmptyMetadata
<1>3. DbGood
  BY <1>1, <1>2, Zenon DEF Init, DbGood
<1>4. ProcsGood
  BY IdleGood DEF Init, AllIdle, ProcsGood
<1> QED BY <1>3, <1>4 DEF Inv

\* Every step keeps the invariant and does what the properties ask.
LEMMA StepsGood == Inv /\ [Next]_vars => Inv' /\ (Right \/ UNCHANGED vars)
<1> SUFFICES ASSUME Inv, [Next]_vars PROVE Inv' /\ (Right \/ UNCHANGED vars)
  OBVIOUS
<1>1. CASE Message
  BY <1>1, MessageSteps
<1>2. CASE \E h \in Handlers : HandlerStep(h)
  BY <1>2, ConfigureSteps, ShellSteps, AnswerSteps, ReadSteps, TombstoneSteps
    , SMTT(30) DEF HandlerStep, Procs
<1>3. CASE \E p \in Publications : RevalidationStep(p)
  BY <1>3, RevalidateSteps, ActivationSteps, SettleSteps, TombstoneSteps
     DEF RevalidationStep, Procs
<1>4. CASE \E x \in Procs : Refuse(x) \/ Reject(x)
  BY <1>4, RefuseSteps
<1>5. CASE ServerChange \/ UNCHANGED vars
  <2>1. UNCHANGED <<db, disabled, proc>>
    BY <1>5, Zenon DEF ServerChange, Withdraw, Publish, stored, volatile, vars
  <2> QED BY <2>1 DEF Inv, DbGood, ProcsGood, Right
<1>6. CASE Kill
  <2>1. UNCHANGED db /\ proc' = [x \in Procs |-> Idle]
    BY <1>6 DEF Kill, AllIdle, stored
  <2>2. DbGood' /\ ProcsGood'
    BY <2>1, IdleGood DEF Inv, DbGood, ProcsGood
  <2>3. \A h \in Handlers : proc'[h].at # "served"
    BY <2>1 DEF Idle, Procs
  <2> QED BY <2>1, <2>2, <2>3 DEF Inv, Right
<1> QED BY <1>1, <1>2, <1>3, <1>4, <1>5, <1>6, SMTT(30) DEF Next

\* A worker that has seen a withdrawal, or was started after one was stored,
\* returns no local bytes of that publication (cachedOrFetched, localFallback
\* and persisted tombstones in sw.js), whatever events race with it.
THEOREM WithdrawnStaysUnserved == Spec => WithdrawnIsNotServed
<1>1. Inv /\ [Next]_vars =>
        [\A h \in Handlers :
           proc[h].at = "serve" /\ proc'[h].at = "served" =>
             /\ proc[h].p \notin disabled
             /\ db[proc[h].p].disabled => db[proc[h].p].evicted]_vars
  BY StepsGood DEF Right
<1> QED BY <1>1, InitGood, StepsGood, PTL DEF Spec, WithdrawnIsNotServed

\* A tombstoned publication is enabled again only by the activation of another
\* revision than the tombstone's (activate and restoreMetadata in storage.js).
THEOREM TombstonesHold == Spec => ReenabledByAnotherRevision
<1>1. Inv /\ [Next]_vars =>
        [\A p \in Publications :
           db[p].disabled /\ ~ db'[p].disabled =>
             Revision(db'[p].active) # db[p].tombstone]_vars
  BY StepsGood DEF Right
<1> QED BY <1>1, InitGood, StepsGood, PTL DEF Spec, ReenabledByAnotherRevision

-----------------------------------------------------------------------------
(* The types.                                                               *)

\* Every change of a pointer counts.
LEMMA NextTyped ==
  ASSUME NEW s, Typed(s)
  PROVE  Typed(NextEpoch(s))
<1>1. s.epoch + 1 \in Nat
  BY DEF Typed, Inv_Metadata
<1> QED BY <1>1 DEF Typed, IsState, StateFields, Inv_Metadata, NextEpoch

\* observe stores pointers.
LEMMA ObserveTyped ==
  ASSUME NEW s, Typed(s), NEW d \in Pointers, NEW e \in Pointers
  PROVE  Typed(Observe(s, d, e))
BY Zenon DEF Typed, IsState, StateFields, Inv_Metadata, Observe

\* putShell and putAsset name the cache of a descriptor.
LEMMA PutTyped ==
  ASSUME NEW s, Typed(s), NEW d \in Descriptors, NEW c \in Content
  PROVE  Typed(Put(s, d, c))
BY DEF Typed, IsState, StateFields, Inv_Metadata, Put

\* Prunes and purges keep a part of what is stored.
LEMMA PartTyped ==
  ASSUME NEW s, Typed(s), NEW g \in SUBSET s.generations, NEW c \in SUBSET s.cached
  PROVE  Typed([s EXCEPT !.generations = g]) /\ Typed([s EXCEPT !.cached = c])
BY DEF Typed, IsState, StateFields, Inv_Metadata

\* So they keep the types.
LEMMA PruneTyped ==
  ASSUME NEW s, Typed(s)
  PROVE  /\ Typed(PruneGenerations(s)) /\ Typed(PruneGenerationCaches(s))
         /\ Typed(PurgeCaches(s)) /\ Typed(PurgeGenerations(s))
<1>1. ASSUME NEW K PROVE {g \in s.generations : RevisionOf[g] \in K} \in SUBSET s.generations
  OBVIOUS
<1>2. ASSUME NEW K PROVE {e \in s.cached : e[1] \in K} \in SUBSET s.cached
  OBVIOUS
<1>3. {} \in SUBSET s.generations /\ {} \in SUBSET s.cached
  OBVIOUS
<1>4. /\ \A g \in SUBSET s.generations : Typed([s EXCEPT !.generations = g])
      /\ \A c \in SUBSET s.cached : Typed([s EXCEPT !.cached = c])
  BY <1>3, PartTyped, Zenon
<1>5. Typed(PruneGenerations(s))
  BY <1>1, <1>4, Zenon DEF PruneGenerations
<1>6. Typed(PruneGenerationCaches(s))
  BY <1>2, <1>4, Zenon DEF PruneGenerationCaches
<1> QED BY <1>3, <1>4, <1>5, <1>6, Zenon DEF PurgeCaches, PurgeGenerations

\* commitGeneration stores a descriptor,
LEMMA CommitTyped ==
  ASSUME NEW s, Typed(s), NEW d \in Descriptors
  PROVE  Typed(CommitGeneration(s, d))
<1> DEFINE left == (s.generations \ Record(s, RevisionOf[d])) \cup {d}
           u == [s EXCEPT !.seen = d, !.candidate = d, !.generations = left]
<1>1. left \subseteq Descriptors
  BY DEF Typed, Inv_Metadata
<1>2. CommitGeneration(s, d) = NextEpoch(u)
  BY Zenon DEF CommitGeneration
<1> HIDE DEF left
<1>3. Typed(u)
  BY <1>1, Zenon DEF Typed, IsState, StateFields, Inv_Metadata, Pointers
<1> QED BY <1>2, <1>3, NextTyped, Zenon

\* discardCandidate removes one,
LEMMA DiscardTyped ==
  ASSUME NEW s, Typed(s), NEW r
  PROVE  Typed(DiscardCandidate(s, r))
<1> DEFINE left == s.generations \ Record(s, r)
           u == [s EXCEPT !.generations = left]
           v == [u EXCEPT !.candidate = None]
<1>1. left \in SUBSET s.generations /\ {} \in SUBSET s.cached
  OBVIOUS
<1>2. DiscardCandidate(s, r) \in {u, NextEpoch(v)}
  BY Zenon DEF DiscardCandidate
<1> HIDE DEF left
<1>3. Typed(u)
  BY <1>1, PartTyped, Zenon
<1> HIDE DEF u
<1>4. Typed(v)
  BY <1>3 DEF Typed, IsState, StateFields, Inv_Metadata, Pointers
<1> QED BY <1>2, <1>3, <1>4, NextTyped, Zenon

\* and tombstone names a revision.
LEMMA TombstoneTyped ==
  ASSUME NEW s, Typed(s), NEW e \in BOOLEAN
  PROVE  Typed(Tombstone(s, e))
<1> DEFINE list == <<s.active, s.candidate, s.seen>>
           named == Without(list, {None})
           t == IF named = <<>> THEN None ELSE Revision(Head(named))
<1>1. list \in Seq(Pointers)
  BY DEF Typed, Inv_Metadata
<1>2. named \in Seq(Pointers \ {None})
  <2> HIDE DEF list
  <2> QED BY <1>1, WithoutLeaves, Zenon
<1>3. named # <<>> => Head(named) \in Descriptors
  <2> HIDE DEF named
  <2> QED BY <1>2 DEF Pointers
<1>4. t \in Revisions \cup {None}
  <2> HIDE DEF named
  <2> QED BY <1>3, RevisionsAreKnown, NamesAreDistinct DEF Revision
<1> DEFINE u == [s EXCEPT !.disabled = TRUE, !.active = None, !.previous = None,
                          !.candidate = None, !.evicted = e, !.tombstone = t]
<1>5. Tombstone(s, e) = NextEpoch(u)
  BY Zenon DEF Tombstone
<1> HIDE DEF t
<1>6. Typed(u)
  <2>1. /\ u.seen = s.seen /\ u.active = None /\ u.previous = None /\ u.candidate = None
        /\ u.etag = s.etag /\ u.epoch = s.epoch /\ u.disabled = TRUE /\ u.evicted = e
        /\ u.tombstone = t /\ u.generations = s.generations /\ u.cached = s.cached
    BY Zenon DEF Typed, IsState, StateFields
  <2>2. IsState(u)
    BY Zenon DEF Typed, IsState, StateFields
  <2> HIDE DEF u
  <2> QED BY <1>4, <2>1, <2>2, Zenon DEF Typed, Inv_Metadata, Pointers
<1> QED BY <1>5, <1>6, NextTyped, Zenon

\* activate points to a stored generation, and its token holds what was stored.
LEMMA ActivateTyped ==
  ASSUME NEW s, Typed(s), NEW r, MayActivate(s, r)
  PROVE  Typed(Activate(s, r)) /\ TokenTyped(Token(s, Activate(s, r)))
<1> DEFINE d == CHOOSE g \in Record(s, r) : TRUE
           prev == IF s.active # None /\ Revision(s.active) # r THEN s.active ELSE s.previous
<1>1. d \in Record(s, r)
  BY DEF MayActivate
<1>2. d \in Descriptors /\ prev \in Pointers
  BY <1>1 DEF Record, Typed, Inv_Metadata
<1> DEFINE u == [s EXCEPT !.previous = prev, !.active = d, !.candidate = None,
                          !.disabled = FALSE, !.tombstone = None,
                          !.evicted = FALSE, !.etag = d]
<1>3. Activate(s, r) = NextEpoch(u)
  BY Zenon DEF Activate
<1> HIDE DEF d, prev
<1>4. Typed(Activate(s, r))
  <2>1. Typed(u)
    BY <1>2, ZenonT(30) DEF Typed, IsState, StateFields, Inv_Metadata, Pointers
  <2> QED BY <1>3, <2>1, NextTyped, Zenon
<1>5. {s.active, s.previous} \cap s.generations \subseteq Descriptors
  BY DEF Typed, Inv_Metadata
<1> QED BY <1>4, <1>5 DEF TokenTyped, Token

\* restoreMetadata restores what was.
LEMMA RestoreTyped ==
  ASSUME NEW s, Typed(s), NEW t, TokenTyped(t)
  PROVE  Typed(RestoreMetadata(s, t))
<1> DEFINE left == {g \in s.generations : RevisionOf[g] \notin {RevisionOf[h] : h \in t.records}}
                     \cup t.records
<1>1. RestoreMetadata(s, t) =
        [t.metadata EXCEPT !.epoch = s.epoch + 1, !.cached = s.cached, !.generations = left]
  BY DEF RestoreMetadata
<1>2. left \subseteq Descriptors
  BY DEF Typed, Inv_Metadata, TokenTyped
<1> HIDE DEF left
<1> DEFINE m == t.metadata
           e == s.epoch + 1
           c == s.cached
<1>3. e \in Nat /\ c \subseteq Descriptors \X Content /\ Typed(m)
  BY DEF TokenTyped, Typed, Inv_Metadata
<1> HIDE DEF m, e, c
<1>4. Typed([m EXCEPT !.epoch = e, !.cached = c, !.generations = left])
  BY <1>2, <1>3, Zenon DEF Typed, IsState, StateFields, Inv_Metadata
<1> QED BY <1>1, <1>4, Zenon DEF m, e, c

\* The order of use lists publications, and evict spares the activated one.
LEMMA ListsTyped ==
  ASSUME NEW s \in Seq(Publications), NEW p \in Publications, NEW states
  PROVE  Touch(s, p) \in Seq(Publications) /\ Evictable(states, s, p) \in Seq(Publications \ {p})
<1> DEFINE rest == Without(s, {p})
           gone == {p} \cup {q \in DOMAIN states : states[q].disabled}
           others == Without(s, gone)
<1>1. rest \in Seq(Publications)
  <2>1. rest \in Seq(Publications \ {p})
    BY WithoutLeaves, Zenon
  <2> HIDE DEF rest
  <2> QED BY <2>1
<1>2. Touch(s, p) \in Seq(Publications)
  <2>1. Touch(s, p) = <<p>> \o rest /\ <<p>> \in Seq(Publications)
    BY DEF Touch
  <2> HIDE DEF rest
  <2> QED BY <1>1, <2>1
<1>3. others \in Seq(Publications \ {p})
  <2>1. others \in Seq(Publications \ gone)
    BY WithoutLeaves, Zenon
  <2>2. Publications \ gone \subseteq Publications \ {p}
    OBVIOUS
  <2> HIDE DEF others, gone
  <2> QED BY <2>1, <2>2
<1>4. Evictable(states, s, p) = SubSeq(others, MaxPublications + 1, Len(others))
  BY DEF Evictable
<1> HIDE DEF others
<1>5. \A i \in MaxPublications + 1 .. Len(others) : i \in 1 .. Len(others)
  BY <1>3, BoundsAreNat
<1>6. MaxPublications + 1 \in Int /\ Len(others) \in Int
  BY <1>3, BoundsAreNat, SMTT(30)
<1> QED BY <1>2, <1>3, <1>4, <1>5, <1>6

\* Nothing is asked of an idle process.
LEMMA IdleTyped ==
  ASSUME NEW x
  PROVE  ProcTyped(Idle, x)
BY DEF ProcTyped, Evicts, Idle, Tombstoning, Activating

\* What is read and written in a step.
LEMMA WriteTyped ==
  ASSUME Inv, StorageTyped, NEW q \in Publications, NEW s,
         (Write(q, s) /\ Typed(s)) \/ UNCHANGED db, Used(q) \/ UNCHANGED recent
  PROVE  StorageTyped'
<1>1. recent' \in Seq(Publications)
  BY ListsTyped, Zenon DEF StorageTyped, Used
<1>2. ASSUME NEW p \in Publications PROVE Typed(db'[p])
  BY DEF StorageTyped, Write, Inv, DbGood
<1> QED BY <1>1, <1>2, Zenon DEF StorageTyped

\* One process moves.
LEMMA MoveTyped ==
  ASSUME Inv, ProcsTyped, NEW x \in Procs, NEW n, proc' = [proc EXCEPT ![x] = n], ProcTyped(n, x)
  PROVE  ProcsTyped'
<1>1. ASSUME NEW y \in Procs PROVE ProcTyped(proc'[y], y)
  BY DEF ProcsTyped, Inv, ProcsGood
<1> QED BY <1>1, Zenon DEF ProcsTyped

\* One process goes to another label, where nothing more is asked of it.
LEMMA GotoTyped ==
  ASSUME Inv, ProcsTyped, NEW x \in Procs, proc[x].at \notin Tombstoning \cup {"idle"},
         NEW label, Goto(x, label), label \notin Tombstoning \cup {"network", "evicting"},
         label \in Activating => proc[x].at \in Activating,
         label = "put" => proc[x].content \in {"shell", "asset"}
  PROVE  ProcsTyped'
<1> DEFINE r == [proc[x] EXCEPT !.at = label]
           n == IF label = "idle" THEN Idle ELSE r
<1>1. proc' = [proc EXCEPT ![x] = n]
  BY DEF Goto
<1>2. ProcTyped(proc[x], x) /\ IsProc(proc[x])
  BY Zenon DEF ProcsTyped, Inv, ProcsGood, ProcGood
<1>3. ProcTyped(r, x)
  BY <1>2 DEF ProcTyped, Evicts, IsProc, ProcFields, Tombstoning
<1>4. ProcTyped(n, x)
  BY <1>3, IdleTyped, Zenon
<1> HIDE DEF n
<1> QED BY <1>1, <1>4, MoveTyped, Zenon

\* disablePublication.
LEMMA DisableTyped ==
  ASSUME Inv, TInv, NEW x \in Procs, proc[x].at \notin Tombstoning \cup {"idle"},
         NEW back \in {"idle", "persisted", "refused"}, DisablePublication(x, back)
  PROVE  ProcsTyped' /\ disabled' \subseteq Publications
<1> DEFINE r == [proc[x] EXCEPT !.at = "tombstone", !.on = proc[x].p, !.back = back]
<1>1. proc' = [proc EXCEPT ![x] = r] /\ disabled' = disabled \cup {proc[x].p}
  BY Zenon DEF DisablePublication, AwaitTombstone
<1>2. ProcTyped(proc[x], x) /\ IsProc(proc[x]) /\ proc[x].p \in Publications
  BY RunningGood, Zenon DEF TInv, ProcsTyped, Inv, ProcsGood, ProcGood
<1>3. ProcTyped(r, x)
  BY <1>2 DEF ProcTyped, Evicts, IsProc, ProcFields, Tombstoning, Activating
<1> HIDE DEF r
<1>4. ProcsTyped'
  BY <1>1, <1>3, MoveTyped, Zenon DEF TInv
<1> QED BY <1>1, <1>2, <1>4 DEF TInv, WorkerTyped

\* revalidateDescriptor.
LEMMA RevalidateTyped ==
  ASSUME Inv, TInv, NEW h \in Handlers, proc[h].at \notin Tombstoning,
         NEW p \in Publications, NEW d \in Descriptors, NEW label \in {"join", "rejoin"},
         RevalidateDescriptor(h, p, d, label)
  PROVE  ProcsTyped' /\ revalidators' \in [Publications -> Pointers]
<1> DEFINE r == [proc[h] EXCEPT !.at = label, !.p = p, !.d = d]
           bound == Bound(p, d)
           s == [Idle EXCEPT !.at = "load", !.p = p, !.d = bound]
<1>1. h # p /\ h \in Procs /\ p \in Procs /\ h \notin Publications
  BY NamesAreDistinct DEF Procs
<1>2. bound \in Descriptors
  BY DEF Bound, TInv, WorkerTyped, Pointers
<1>3. revalidators' = [revalidators EXCEPT ![p] = bound]
  BY DEF RevalidateDescriptor
<1>4. ProcTyped(r, h)
  <2>1. IsProc(proc[h])
    BY <1>1, Zenon DEF Inv, ProcsGood, ProcGood
  <2> QED BY <1>1, <2>1 DEF ProcTyped, Evicts, IsProc, ProcFields, Tombstoning, Activating
<1> HIDE DEF bound
<1>5. ProcTyped(s, p)
  BY <1>2 DEF ProcTyped, Evicts, Idle, Tombstoning, Activating
<1>6. /\ proc'[h] = r /\ proc'[p] \in {proc[p], s}
      /\ \A x \in Procs : x \notin {h, p} => proc'[x] = proc[x]
  BY <1>1, Zenon DEF RevalidateDescriptor, Inv, ProcsGood, bound
<1> HIDE DEF r, s
<1>7. ASSUME NEW x \in Procs PROVE ProcTyped(proc'[x], x)
  BY <1>4, <1>5, <1>6, Zenon DEF TInv, ProcsTyped
<1>8. revalidators' \in [Publications -> Pointers]
  BY <1>2, <1>3 DEF TInv, WorkerTyped, Pointers
<1> QED BY <1>7, <1>8, Zenon DEF ProcsTyped

\* The publication and the descriptor of a running process.
LEMMA RunningTyped ==
  ASSUME Inv, TInv, NEW x \in Procs, proc[x].at \notin Tombstoning \cup {"idle"}
  PROVE  proc[x].p \in Publications /\ proc[x].d \in Descriptors /\ Typed(db[proc[x].p])
BY RunningGood, Zenon DEF TInv, StorageTyped, ProcsTyped, ProcTyped

\* What the worker keeps in memory stays as it is.
LEMMA WorkerSame ==
  ASSUME TInv, UNCHANGED <<disabled, descriptors, revalidators, budget>>
  PROVE  WorkerTyped'
BY DEF TInv, WorkerTyped

\* The configure message up to the shell keeps the types.
LEMMA ConfigureTyped ==
  ASSUME Inv, TInv, NEW h \in Handlers,
         Admit(h) \/ ObserveDescriptor(h) \/ Configured(h) \/ CacheAssets(h)
  PROVE  TInv'
<1> DEFINE p == proc[h].p
           d == proc[h].d
<1>0. h \in Procs /\ ProcsTyped /\ StorageTyped
  BY DEF Procs, TInv
<1>1. proc[h].at \in {"admit", "observe", "configured", "assets"}
  BY DEF Admit, ObserveDescriptor, Configured, CacheAssets, At
<1>2. p \in Publications /\ d \in Descriptors /\ Typed(db[p])
  BY <1>0, <1>1, RunningTyped, ZenonT(30) DEF Tombstoning
<1>3. /\ Typed(Observe(db[p], d, None)) /\ Typed(Put(db[p], d, "fallback"))
      /\ d \in Pointers /\ None \in Pointers
  BY <1>2, ObserveTyped, PutTyped DEF Pointers, Content
<1> HIDE DEF p, d
<1>4. StorageTyped'
  <2>1. \E s : ((Write(p, s) /\ Typed(s)) \/ UNCHANGED db) /\ (Used(p) \/ UNCHANGED recent)
    BY <1>3, Zenon DEF Admit, ObserveDescriptor, Configured, CacheAssets, stored, p, d
  <2> QED BY <1>0, <1>2, <2>1, WriteTyped, Zenon
<1>5. CASE RevalidateDescriptor(h, p, d, "rejoin") /\ UNCHANGED <<disabled, descriptors, budget>>
  <2>1. ProcsTyped' /\ revalidators' \in [Publications -> Pointers]
    BY <1>1, <1>2, <1>5, RevalidateTyped, Zenon DEF Tombstoning
  <2> QED BY <1>4, <1>5, <2>1 DEF TInv, WorkerTyped
<1>6. CASE \E label \in {"idle", "observe", "configured", "assets"} : Goto(h, label)
  <2>1. ProcsTyped'
    BY <1>0, <1>1, <1>6, GotoTyped, ZenonT(30) DEF Tombstoning, Activating
  <2>2. WorkerTyped'
    BY <1>2, <1>3 DEF Admit, ObserveDescriptor, Configured, CacheAssets, RevalidateDescriptor,
       Bound, TInv, WorkerTyped, Pointers, p, d
  <2> QED BY <1>4, <2>1, <2>2 DEF TInv
<1>7. ASSUME NEW ok, proc' = [proc EXCEPT ![h].at = "shell", ![h].ok = ok],
             UNCHANGED <<disabled, descriptors, revalidators, budget>>
      PROVE  TInv'
  <2> DEFINE r == [proc[h] EXCEPT !.at = "shell", !.ok = ok]
  <2>1. proc' = [proc EXCEPT ![h] = r]
    BY <1>7, Zenon
  <2>2. ProcTyped(proc[h], h) /\ IsProc(proc[h])
    BY <1>0, ZenonT(30) DEF ProcsTyped, Inv, ProcsGood, ProcGood
  <2>3. ProcTyped(r, h)
    BY <1>1, <2>2 DEF ProcTyped, Evicts, IsProc, ProcFields, Tombstoning, Activating
  <2> HIDE DEF r
  <2> QED BY <1>0, <1>4, <1>7, <2>1, <2>3, MoveTyped, WorkerSame, Zenon DEF TInv
<1>8. CASE Admit(h) \/ ObserveDescriptor(h)
  BY <1>6, <1>8, Zenon DEF Admit, ObserveDescriptor, Done, Call
<1>9. CASE Configured(h)
  BY <1>5, <1>6, <1>9, Zenon DEF Configured, Done, p, d
<1>10. CASE CacheAssets(h)
  BY <1>6, <1>7, <1>10, Zenon DEF CacheAssets, Done
<1> QED BY <1>8, <1>9, <1>10

\* The shell,
LEMMA ShellTyped ==
  ASSUME Inv, TInv, NEW h \in Handlers, ShellAnswer(h) \/ PutShell(h) \/ PersistedShell(h)
  PROVE  TInv'
<1> DEFINE p == proc[h].p
           d == proc[h].d
<1>0. h \in Procs /\ ProcsTyped /\ StorageTyped
  BY SMTT(30) DEF Procs, TInv
<1>1. proc[h].at \in {"shell", "putShell", "persisted"}
  BY DEF ShellAnswer, PutShell, PersistedShell, At
<1>2. p \in Publications /\ d \in Descriptors /\ Typed(db[p])
  BY <1>0, <1>1, RunningTyped, Zenon DEF Tombstoning
<1>3. Typed(Put(db[p], d, "shell"))
  BY <1>2, PutTyped DEF Content
<1> HIDE DEF p, d
<1>4. StorageTyped'
  <2>1. \E s : ((Write(p, s) /\ Typed(s)) \/ UNCHANGED db) /\ (Used(p) \/ UNCHANGED recent)
    BY <1>3, ZenonT(30) DEF ShellAnswer, PutShell, PersistedShell, stored, p, d
  <2> QED BY <1>0, <1>2, <2>1, WriteTyped, Zenon
<1>5. UNCHANGED <<descriptors, budget>>
  BY Zenon DEF ShellAnswer, PutShell, PersistedShell
<1>6. \/ RevalidateDescriptor(h, p, d, "join") /\ UNCHANGED disabled
      \/ DisablePublication(h, "persisted") /\ UNCHANGED revalidators
      \/ /\ \E label \in {"idle", "persisted", "putShell"} : Goto(h, label)
         /\ UNCHANGED <<disabled, revalidators>>
  BY Zenon DEF ShellAnswer, PutShell, PersistedShell, ShellReady, Done, Call, p, d
<1>7. CASE RevalidateDescriptor(h, p, d, "join") /\ UNCHANGED disabled
  <2>1. ProcsTyped' /\ revalidators' \in [Publications -> Pointers]
    BY <1>1, <1>2, <1>7, RevalidateTyped, Zenon DEF Tombstoning
  <2> QED BY <1>4, <1>5, <1>7, <2>1, SMTT(30) DEF TInv, WorkerTyped
<1>8. CASE DisablePublication(h, "persisted") /\ UNCHANGED revalidators
  <2>1. ProcsTyped' /\ disabled' \subseteq Publications
    BY <1>0, <1>1, <1>8, DisableTyped, Zenon DEF Tombstoning
  <2> QED BY <1>4, <1>5, <1>8, <2>1 DEF TInv, WorkerTyped
<1>9. CASE /\ \E label \in {"idle", "persisted", "putShell"} : Goto(h, label)
           /\ UNCHANGED <<disabled, revalidators>>
  <2>1. ProcsTyped'
    BY <1>0, <1>1, <1>9, GotoTyped, Zenon DEF Tombstoning, Activating
  <2> QED BY <1>4, <1>5, <1>9, <2>1, WorkerSame, SMTT(30) DEF TInv
<1> QED BY <1>6, <1>7, <1>8, <1>9, Zenon

\* the answers of a fetch, and what is read locally,
LEMMA FetchTyped ==
  ASSUME Inv, TInv, NEW h \in Handlers,
         DirectAnswer(h) \/ NetworkAnswer(h) \/ PutFetched(h) \/ Fallback(h) \/ Read(h)
           \/ Serve(h) \/ Respond(h)
  PROVE  TInv'
<1> DEFINE p == proc[h].p
           d == proc[h].d
<1>0. h \in Procs /\ ProcsTyped /\ StorageTyped
  BY SMTT(30) DEF Procs, TInv
<1>1. proc[h].at \in {"direct", "network", "put", "fallback", "read", "serve", "served"}
  BY Zenon DEF DirectAnswer, NetworkAnswer, PutFetched, Fallback, Read, Serve, Respond, At
<1>2. p \in Publications /\ d \in Descriptors /\ Typed(db[p])
  BY <1>0, <1>1, RunningTyped, Zenon DEF Tombstoning
<1>3. ProcTyped(proc[h], h)
  BY <1>0, ZenonT(30) DEF ProcsTyped
<1>4. proc[h].at = "put" => Typed(Put(db[p], d, proc[h].content))
  BY <1>2, <1>3, PutTyped, Zenon DEF Content, ProcTyped
<1> HIDE DEF p, d
<1>5. StorageTyped'
  <2>1. \E s : ((Write(p, s) /\ Typed(s)) \/ UNCHANGED db) /\ (Used(p) \/ UNCHANGED recent)
    BY <1>4, ZenonT(30) DEF DirectAnswer, NetworkAnswer, PutFetched, Fallback, Read, Serve, Respond,
       At, stored, p, d
  <2> QED BY <1>0, <1>2, <2>1, WriteTyped, Zenon
<1>6. UNCHANGED <<descriptors, revalidators, budget>>
  BY Zenon DEF DirectAnswer, NetworkAnswer, PutFetched, Fallback, Read, Serve, Respond
<1>7. \/ DisablePublication(h, "idle")
      \/ /\ UNCHANGED disabled
         /\ \E label \in {"idle", "put", "fallback", "read", "serve", "served"} :
              Goto(h, label) /\ (label = "put" => proc[h].content \in {"shell", "asset"})
  BY <1>3, Zenon DEF DirectAnswer, NetworkAnswer, PutFetched, Fallback, Read, Serve, Respond,
     At, Done, Call, ProcTyped
<1>8. CASE DisablePublication(h, "idle")
  <2>1. ProcsTyped' /\ disabled' \subseteq Publications
    BY <1>0, <1>1, <1>8, DisableTyped, ZenonT(30) DEF Tombstoning
  <2> QED BY <1>5, <1>6, <2>1 DEF TInv, WorkerTyped
<1>9. ASSUME UNCHANGED disabled,
             NEW label \in {"idle", "put", "fallback", "read", "serve", "served"},
             Goto(h, label), label = "put" => proc[h].content \in {"shell", "asset"}
      PROVE  TInv'
  <2>1. ProcsTyped'
    BY <1>0, <1>1, <1>9, GotoTyped, Zenon DEF Tombstoning, Activating
  <2> QED BY <1>5, <1>6, <1>9, <2>1, WorkerSame, Zenon DEF TInv
<1> QED BY <1>7, <1>8, <1>9, Zenon

\* a tombstone,
LEMMA TombstonesTyped ==
  ASSUME Inv, TInv, NEW x \in Procs, TombstoneStep(x)
  PROVE  TInv'
<1> DEFINE q == proc[x].on
           e == proc[x].back = "evicting"
<1>0. ProcsTyped /\ StorageTyped /\ ProcTyped(proc[x], x) /\ IsProc(proc[x])
  BY Zenon DEF TInv, ProcsTyped, Inv, ProcsGood, ProcGood
<1>1. proc[x].at \in Tombstoning /\ q \in Publications
  BY <1>0, Zenon DEF TombstoneStep, WriteTombstone, PurgeTombstonedCaches,
     PurgeTombstonedGenerations, At, Tombstoning, ProcTyped
<1>2. /\ Typed(Tombstone(db[q], e)) /\ Typed(PurgeCaches(db[q])) /\ Typed(PurgeGenerations(db[q]))
  <2>1. Typed(db[q]) /\ e \in BOOLEAN
    BY <1>0, <1>1 DEF StorageTyped
  <2> HIDE DEF e
  <2> QED BY <2>1, TombstoneTyped, PruneTyped, ZenonT(30)
<1>3. StorageTyped'
  <2>1. \E s : ((Write(q, s) /\ Typed(s)) \/ UNCHANGED db) /\ (Used(q) \/ UNCHANGED recent)
    BY <1>2, Zenon DEF TombstoneStep, WriteTombstone, PurgeTombstonedCaches,
       PurgeTombstonedGenerations
  <2> QED BY <1>0, <1>1, <2>1, WriteTyped, Zenon
<1>4. WorkerTyped'
  BY WorkerSame, Zenon DEF TombstoneStep, WriteTombstone, PurgeTombstonedCaches,
     PurgeTombstonedGenerations
<1>5. ASSUME NEW label \in Purging, Goto(x, label) PROVE ProcsTyped'
  <2> DEFINE r == [proc[x] EXCEPT !.at = label]
  <2>1. proc' = [proc EXCEPT ![x] = r]
    BY <1>5, Zenon DEF Goto, Purging
  <2>2. ProcTyped(r, x)
    BY <1>0, <1>1 DEF ProcTyped, Evicts, IsProc, ProcFields, Tombstoning, Activating, Purging
  <2> HIDE DEF r
  <2> QED BY <1>0, <2>1, <2>2, MoveTyped, Zenon
<1>6. CASE PurgeTombstonedGenerations(x)
  <2> DEFINE s == [proc[x] EXCEPT !.at = proc[x].back, !.on = None, !.back = None]
             r == IF proc[x].back = "idle" THEN Idle ELSE s
  <2>1. proc' = [proc EXCEPT ![x] = r]
    BY <1>6, Zenon DEF PurgeTombstonedGenerations
  <2>2. proc[x].back \in {"idle", "persisted", "refused", "evicting"}
    BY <1>1, Zenon DEF Inv, ProcsGood, ProcGood
  <2>3. proc[x].back # "idle" => ProcTyped(s, x)
    BY <1>0, <1>1, <2>2 DEF ProcTyped, Evicts, IsProc, ProcFields, Tombstoning, Activating
  <2>4. ProcTyped(r, x)
    BY <2>3, IdleTyped, Zenon
  <2> HIDE DEF r
  <2>5. ProcsTyped'
    BY <1>0, <2>1, <2>4, MoveTyped, Zenon
  <2> QED BY <1>3, <1>4, <2>5 DEF TInv
<1>7. CASE WriteTombstone(x) \/ PurgeTombstonedCaches(x)
  <2>1. \E label \in Purging : Goto(x, label)
    BY <1>7, Zenon DEF WriteTombstone, PurgeTombstonedCaches, Purging
  <2> QED BY <1>3, <1>4, <1>5, <2>1, SMTT(30) DEF TInv
<1> QED BY <1>6, <1>7 DEF TombstoneStep

\* an event,
LEMMA MessageTyped ==
  ASSUME Inv, TInv, Message
  PROVE  TInv'
<1>0. PICK h \in Handlers, p \in Visited :
        \/ \E d \in DescriptorsOf[p] : ConfigureMessage(h, p, d)
        \/ RevalidateMessage(h, p)
        \/ DisableMessage(h, p)
        \/ \E content \in {"document", "shell", "asset"} : FetchEvent(h, p, content)
  BY DEF Message
<1>1. h \in Procs /\ p \in Publications /\ h \notin Publications
  BY VisitedAreOffered, NamesAreDistinct DEF Procs
<1>2. /\ proc[h].at = "idle" /\ UNCHANGED stored
      /\ budget.events > 0 /\ budget' = [budget EXCEPT !.events = @ - 1]
  BY <1>0, Zenon DEF ConfigureMessage, RevalidateMessage, DisableMessage, FetchEvent, Event, At
<1>3. /\ StorageTyped' /\ ProcsTyped
      /\ budget' \in [events : Nat, kills : Nat, releases : Nat,
              faults : 0 .. MaxFaults, rejections : 0 .. MaxRejections]
  BY <1>2 DEF TInv, StorageTyped, WorkerTyped, stored
<1>4. CASE \E d \in DescriptorsOf[p] : ConfigureMessage(h, p, d)
  <2>1. PICK d \in DescriptorsOf[p] : ConfigureMessage(h, p, d)
    BY <1>4
  <2>2. d \in Descriptors
    BY <1>1, <2>1, FirstIsOffered
  <2> DEFINE r == [Idle EXCEPT !.at = "admit", !.p = p, !.d = d]
  <2>3. ProcTyped(r, h)
    BY <1>1, <2>2 DEF ProcTyped, Evicts, Idle, Tombstoning, Activating
  <2>4. proc' = [proc EXCEPT ![h] = r] /\ UNCHANGED <<disabled, descriptors, revalidators>>
    BY <2>1 DEF ConfigureMessage
  <2> HIDE DEF r
  <2>5. ProcsTyped'
    BY <1>1, <1>3, <2>3, <2>4, MoveTyped, Zenon
  <2> QED BY <1>3, <2>4, <2>5, SMTT(30) DEF TInv, WorkerTyped
<1>5. CASE RevalidateMessage(h, p)
  <2>1. descriptors[p] \in Descriptors
    BY <1>1, <1>5 DEF RevalidateMessage, TInv, WorkerTyped, Pointers
  <2>2. /\ RevalidateDescriptor(h, p, descriptors[p], "join")
        /\ UNCHANGED <<disabled, descriptors>>
    BY <1>5 DEF RevalidateMessage
  <2>3. ProcsTyped' /\ revalidators' \in [Publications -> Pointers]
    BY <1>1, <1>2, <2>1, <2>2, RevalidateTyped, SMTT(30) DEF Tombstoning
  <2> QED BY <1>3, <2>2, <2>3, SMTT(30) DEF TInv, WorkerTyped
<1>6. CASE DisableMessage(h, p)
  <2> DEFINE r == [Idle EXCEPT !.at = "tombstone", !.p = p, !.on = p, !.back = "idle"]
  <2>1. /\ proc' = [proc EXCEPT ![h] = r] /\ disabled' = disabled \cup {p}
        /\ UNCHANGED <<descriptors, revalidators>>
    BY <1>6 DEF DisableMessage
  <2>2. ProcTyped(r, h)
    BY <1>1 DEF ProcTyped, Evicts, Idle, Tombstoning, Activating
  <2> HIDE DEF r
  <2>3. ProcsTyped'
    BY <1>1, <1>3, <2>1, <2>2, MoveTyped, Zenon
  <2> QED BY <1>1, <1>3, <2>1, <2>3, SMTT(30) DEF TInv, WorkerTyped
<1>7. CASE \E content \in {"document", "shell", "asset"} : FetchEvent(h, p, content)
  <2>1. PICK content \in {"document", "shell", "asset"} : FetchEvent(h, p, content)
    BY <1>7
  <2> DEFINE d == IF descriptors[p] = None THEN Restored(p) ELSE descriptors[p]
             label == IF p \in disabled THEN "direct" ELSE "network"
             r == [Idle EXCEPT !.at = label, !.p = p, !.d = d, !.content = content]
  <2>2. /\ d # None /\ proc' = [proc EXCEPT ![h] = r]
        /\ descriptors' = [descriptors EXCEPT ![p] = d]
        /\ UNCHANGED <<disabled, revalidators>>
    BY <2>1 DEF FetchEvent
  <2>3. label \in {"direct", "network"}
    OBVIOUS
  <2>4. d \in Descriptors
    <3>1. db[p].seen \in Pointers
      BY <1>1 DEF TInv, StorageTyped, Typed, Inv_Metadata
    <3> QED BY <1>1, <2>2, <3>1, SMTT(30) DEF Restored, TInv, WorkerTyped, Pointers
  <2> HIDE DEF d, label
  <2>5. ProcTyped(r, h)
    BY <1>1, <2>3, <2>4 DEF ProcTyped, Evicts, Idle, Tombstoning, Activating
  <2> HIDE DEF r
  <2>6. ProcsTyped'
    BY <1>1, <1>3, <2>2, <2>5, MoveTyped, Zenon
  <2> QED BY <1>1, <1>3, <2>2, <2>4, <2>6, SMTT(30) DEF TInv, WorkerTyped, Pointers
<1> QED BY <1>0, <1>4, <1>5, <1>6, <1>7, SMTT(30)

\* an operation that is refused or rejects,
LEMMA RefuseTyped ==
  ASSUME Inv, TInv, NEW x \in Procs, Refuse(x) \/ Reject(x)
  PROVE  TInv'
<1>0. ProcsTyped /\ ProcTyped(proc[x], x) /\ IsProc(proc[x])
  BY Zenon DEF TInv, ProcsTyped, Inv, ProcsGood, ProcGood
<1>1. /\ UNCHANGED <<stored, disabled, descriptors, revalidators>>
      /\ \/ budget.faults > 0 /\ budget' = [budget EXCEPT !.faults = @ - 1]
         \/ budget.rejections > 0 /\ budget' = [budget EXCEPT !.rejections = @ - 1]
  BY Zenon DEF Refuse, Reject
<1>2. StorageTyped' /\ WorkerTyped'
  <2>1. budget' \in [events : Nat, kills : Nat, releases : Nat,
                    faults : 0 .. MaxFaults, rejections : 0 .. MaxRejections]
    BY <1>1, BoundsAreNat DEF TInv, WorkerTyped
  <2> QED BY <1>1, <2>1 DEF TInv, StorageTyped, WorkerTyped, stored
<1>3. CASE proc[x].at \in Tombstoning /\ Goto(x, AfterTombstone(x))
  <2> DEFINE back == proc[x].back
             label == IF back = "refused" THEN "failed" ELSE back
             s == [proc[x] EXCEPT !.at = label]
             r == IF label = "idle" THEN Idle ELSE s
  <2>1. proc' = [proc EXCEPT ![x] = r]
    BY <1>3 DEF AfterTombstone, Goto
  <2>2. back \in {"idle", "persisted", "refused", "evicting"}
    BY <1>3, ZenonT(30) DEF Inv, ProcsGood, ProcGood
  <2>3. back # "idle" => ProcTyped(s, x)
    BY <1>0, <1>3, <2>2 DEF ProcTyped, Evicts, IsProc, ProcFields, Tombstoning, Activating
  <2>4. ProcTyped(r, x)
    BY <2>2, <2>3, IdleTyped
  <2> HIDE DEF r
  <2>5. ProcsTyped'
    BY <1>0, <2>1, <2>4, MoveTyped, Zenon
  <2> QED BY <1>2, <2>5 DEF TInv
<1>4. ASSUME proc[x].at \notin Tombstoning, proc[x].at # "idle",
             NEW label \in {"idle", "discard", "failed", "persisted", "fallback"}, Goto(x, label)
      PROVE  TInv'
  <2>1. ProcsTyped'
    BY <1>0, <1>4, GotoTyped, SMTT(30) DEF Tombstoning, Activating
  <2> QED BY <1>2, <2>1 DEF TInv
<1> QED BY <1>3, <1>4, RejectedGoes, Zenon

\* the steps of a revalidation,
LEMMA RevalidationTyped ==
  ASSUME Inv, TInv, NEW p \in Publications,
         Load(p) \/ ManifestAnswer(p) \/ Recover(p) \/ Refresh(p) \/ Compare(p)
           \/ Commit(p) \/ PruneAfterRestore(p) \/ Discard(p)
  PROVE  TInv'
<1> DEFINE d == proc[p].d
<1>0. p \in Procs /\ ProcsTyped /\ StorageTyped
  BY DEF Procs, TInv
<1>1. proc[p].at \in {"load", "manifest", "recover", "refresh", "compare", "commit",
                      "restoredCaches", "restored", "discard"}
  BY Zenon DEF Load, ManifestAnswer, Recover, Refresh, Compare, Commit, PruneAfterRestore, Discard, At
<1>2. d \in Descriptors /\ Typed(db[p]) /\ d \in Pointers /\ None \in Pointers
  <2>1. d \in Descriptors
    BY <1>0, <1>1, RunningTyped, Zenon DEF Tombstoning
  <2> QED BY <1>0, <2>1 DEF StorageTyped, Pointers
<1>3. /\ Typed(Observe(db[p], None, d)) /\ Typed(CommitGeneration(db[p], d))
      /\ Typed(PruneGenerations(db[p])) /\ Typed(PruneGenerationCaches(db[p]))
      /\ Typed(DiscardCandidate(db[p], RevisionOf[d]))
  BY <1>2, ObserveTyped, CommitTyped, PruneTyped, DiscardTyped, Zenon
<1> HIDE DEF d
<1>4. StorageTyped'
  <2>1. \E s : ((Write(p, s) /\ Typed(s)) \/ UNCHANGED db) /\ (Used(p) \/ UNCHANGED recent)
    <3>1. CASE Load(p) \/ ManifestAnswer(p) \/ Recover(p) \/ Compare(p)
      BY <3>1, Zenon DEF Load, ManifestAnswer, Recover, Compare, stored
    <3>2. CASE Refresh(p) \/ Commit(p) \/ PruneAfterRestore(p) \/ Discard(p)
      BY <1>3, <3>2, Zenon DEF Refresh, Commit, PruneAfterRestore, Discard, stored, d
    <3> QED BY <3>1, <3>2
  <2> QED BY <1>0, <2>1, WriteTyped, Zenon
<1>5. UNCHANGED <<descriptors, revalidators, budget>>
  BY Zenon DEF Load, ManifestAnswer, Recover, Refresh, Compare, Commit, PruneAfterRestore, Discard
<1>6. CASE DisablePublication(p, "refused")
  <2>1. ProcsTyped' /\ disabled' \subseteq Publications
    BY <1>0, <1>1, <1>6, DisableTyped, Zenon DEF Tombstoning
  <2> QED BY <1>4, <1>5, <2>1 DEF TInv, WorkerTyped
<1>7. ASSUME NEW label, Goto(p, label), UNCHANGED disabled,
             label \in {"failed", "refused", "recover", "refresh", "compare", "fallback", "commit",
                        "ready", "discard", "activate", "restored"}
      PROVE  TInv'
  <2>1. ProcsTyped'
    BY <1>0, <1>1, <1>7, GotoTyped, Zenon DEF Tombstoning, Activating
  <2> QED BY <1>4, <1>5, <1>7, <2>1, WorkerSame, SMTT(30) DEF TInv
<1>8. CASE proc' = [proc EXCEPT ![p].at = "manifest", ![p].etag = db[p].etag] /\ UNCHANGED disabled
  <2> DEFINE r == [proc[p] EXCEPT !.at = "manifest", !.etag = db[p].etag]
  <2>1. proc' = [proc EXCEPT ![p] = r]
    BY <1>8, Zenon
  <2>2. ProcTyped(proc[p], p) /\ IsProc(proc[p])
    BY <1>0, Zenon DEF ProcsTyped, Inv, ProcsGood, ProcGood
  <2>3. ProcTyped(r, p)
    BY <1>1, <2>2 DEF ProcTyped, Evicts, IsProc, ProcFields, Tombstoning, Activating
  <2> HIDE DEF r
  <2>4. ProcsTyped'
    BY <1>0, <2>1, <2>3, MoveTyped, Zenon
  <2> QED BY <1>4, <1>5, <1>8, <2>4, WorkerSame, SMTT(30) DEF TInv
<1>9. CASE Load(p)
  BY <1>7, <1>8, <1>9 DEF Load
<1>10. CASE ManifestAnswer(p)
  <2>1. \/ DisablePublication(p, "refused")
        \/ /\ UNCHANGED disabled
           /\ \E label \in {"failed", "recover", "refresh", "compare", "fallback"} : Goto(p, label)
    BY <1>10, Zenon DEF ManifestAnswer, Call
  <2> QED BY <1>6, <1>7, <2>1, Zenon
<1>11. CASE Recover(p) \/ Compare(p)
  <2>1. /\ UNCHANGED disabled
        /\ \E label \in {"refresh", "commit", "failed", "fallback"} : Goto(p, label)
    BY <1>11, Zenon DEF Recover, Compare, Call
  <2> QED BY <1>7, <2>1, Zenon
<1>12. CASE Refresh(p) \/ Commit(p) \/ PruneAfterRestore(p) \/ Discard(p)
  <2>1. /\ UNCHANGED disabled
        /\ \E label \in {"ready", "failed", "discard", "activate", "restored"} : Goto(p, label)
    BY <1>12, Zenon DEF Refresh, Commit, PruneAfterRestore, Discard, CallNext
  <2> QED BY <1>7, <2>1, Zenon
<1> QED BY <1>9, <1>10, <1>11, <1>12, SMTT(30)

\* of an activation and its rollback,
LEMMA ActivationTyped ==
  ASSUME Inv, TInv, NEW p \in Publications,
         ActivateCandidate(p) \/ PruneAfterActivation(p) \/ Evict(p) \/ EvictNext(p)
           \/ Activated(p) \/ Restore(p)
  PROVE  TInv'
<1>0. /\ p \in Procs /\ ProcsTyped /\ StorageTyped /\ ProcTyped(proc[p], p) /\ IsProc(proc[p])
      /\ Typed(db[p])
  BY Zenon DEF Procs, TInv, ProcsTyped, StorageTyped, Inv, ProcsGood, ProcGood
<1>1. WorkerTyped'
  <2>1. UNCHANGED <<disabled, descriptors, revalidators, budget>>
    BY Zenon DEF ActivateCandidate, PruneAfterActivation, Evict, EvictNext, Activated, Restore
  <2> QED BY <2>1, WorkerSame
<1>2. ASSUME NEW label, Goto(p, label), StorageTyped', proc[p].at \in Activating,
             label \in {"pruneCaches", "evict", "restore", "ready", "failed", "restoredCaches"}
      PROVE  TInv'
  <2>1. ProcsTyped'
    BY <1>0, <1>2, GotoTyped, Zenon DEF Tombstoning, Activating
  <2> QED BY <1>1, <1>2, <2>1 DEF TInv
<1>3. UNCHANGED stored => StorageTyped'
  BY <1>0, SMTT(30) DEF StorageTyped, stored
<1>4. CASE ActivateCandidate(p)
  <2> DEFINE n == RevisionOf[proc[p].d]
             s == Activate(db[p], n)
             t == Token(db[p], s)
             r == [proc[p] EXCEPT !.at = "pruneGenerations", !.token = t]
  <2>0. proc[p].at = "activate"
    BY <1>4 DEF ActivateCandidate, At
  <2>1. CASE MayActivate(db[p], n)
    <3>1. Write(p, s) /\ Used(p) /\ proc' = [proc EXCEPT ![p] = r]
      BY <1>4, <2>1, Zenon DEF ActivateCandidate
    <3>2. Typed(s) /\ TokenTyped(t)
      BY <1>0, <2>1, ActivateTyped, Zenon
    <3> HIDE DEF s, t, n
    <3>3. ProcTyped(r, p)
      BY <1>0, <2>0, <3>2 DEF ProcTyped, Evicts, IsProc, ProcFields, Tombstoning, Activating
    <3> HIDE DEF r
    <3>4. StorageTyped' /\ ProcsTyped'
      BY <1>0, <3>1, <3>2, <3>3, WriteTyped, MoveTyped, Zenon
    <3> QED BY <1>1, <3>4 DEF TInv
  <2>2. CASE ~ MayActivate(db[p], n)
    <3>1. UNCHANGED stored /\ Goto(p, "discard")
      BY <1>4, <2>2, Zenon DEF ActivateCandidate, CallNext
    <3>2. ProcsTyped'
      BY <1>0, <2>0, <3>1, GotoTyped, Zenon DEF Tombstoning, Activating
    <3> QED BY <1>1, <1>3, <3>1, <3>2 DEF TInv
  <2> QED BY <2>1, <2>2
<1>5. CASE PruneAfterActivation(p)
  <2>1. /\ proc[p].at \in Activating
        /\ \E label \in {"pruneCaches", "evict"} : Goto(p, label)
        /\ \E s : Write(p, s) /\ Typed(s)
        /\ UNCHANGED recent
    BY <1>0, <1>5, PruneTyped, Zenon DEF PruneAfterActivation, At, Activating
  <2>2. StorageTyped'
    BY <1>0, <2>1, WriteTyped, Zenon
  <2> QED BY <1>2, <2>1, <2>2, Zenon
<1>6. CASE Evict(p)
  <2> DEFINE v == Evictable(db, recent, p)
             r == [proc[p] EXCEPT !.at = "evicting", !.victims = v]
  <2>1. proc[p].at = "evict" /\ proc' = [proc EXCEPT ![p] = r] /\ UNCHANGED stored
    BY <1>6, Zenon DEF Evict, At
  <2>2. v \in Seq(Publications \ {p})
    BY <1>0, ListsTyped, Zenon DEF StorageTyped
  <2> HIDE DEF v
  <2>3. ProcTyped(r, p)
    BY <1>0, <2>1, <2>2 DEF ProcTyped, Evicts, IsProc, ProcFields, Tombstoning, Activating
  <2> HIDE DEF r
  <2>4. ProcsTyped'
    BY <1>0, <2>1, <2>3, MoveTyped, ZenonT(30)
  <2> QED BY <1>1, <1>3, <2>1, <2>4 DEF TInv
<1>7. CASE EvictNext(p)
  <2> DEFINE v == Head(proc[p].victims)
             w == Tail(proc[p].victims)
             r == [proc[p] EXCEPT !.at = "tombstone", !.back = "evicting", !.on = v, !.victims = w]
  <2>1. /\ proc[p].at = "evicting" /\ proc[p].victims # <<>> /\ UNCHANGED stored
        /\ proc' = [proc EXCEPT ![p] = r]
    BY <1>7, Zenon DEF EvictNext, At
  <2>2. proc[p].victims \in Seq(Publications \ {p}) /\ proc[p].p = p
    BY <1>0, <2>1 DEF ProcTyped
  <2>3. v \in Publications \ {p} /\ w \in Seq(Publications \ {p})
    BY <2>1, <2>2
  <2> HIDE DEF v, w
  <2>4. ProcTyped(r, p)
    BY <1>0, <2>1, <2>2, <2>3 DEF ProcTyped, Evicts, IsProc, ProcFields, Tombstoning, Activating
  <2> HIDE DEF r
  <2>5. ProcsTyped'
    BY <1>0, <2>1, <2>4, MoveTyped, Zenon
  <2> QED BY <1>1, <1>3, <2>1, <2>5 DEF TInv
<1>8. CASE Activated(p)
  <2>1. /\ proc[p].at \in Activating /\ UNCHANGED stored
        /\ \E label \in {"restore", "ready"} : Goto(p, label)
    BY <1>8, Zenon DEF Activated, CallNext, At, Activating
  <2> QED BY <1>2, <1>3, <2>1, Zenon
<1>9. CASE Restore(p)
  <2>1. /\ proc[p].at \in Activating /\ UNCHANGED recent
        /\ \E label \in {"failed", "restoredCaches"} : Goto(p, label)
        /\ Write(p, RestoreMetadata(db[p], proc[p].token)) \/ UNCHANGED db
    BY <1>9, Zenon DEF Restore, At, Activating
  <2>2. Typed(RestoreMetadata(db[p], proc[p].token))
    BY <1>0, <2>1, RestoreTyped, Zenon DEF ProcTyped
  <2>3. StorageTyped'
    BY <1>0, <2>1, <2>2, WriteTyped, Zenon
  <2> QED BY <1>2, <2>1, <2>3, Zenon
<1> QED BY <1>4, <1>5, <1>6, <1>7, <1>8, <1>9, SMTT(30)

\* and the end of a revalidation.
LEMMA SettleTyped ==
  ASSUME Inv, TInv, NEW p \in Publications, Settle(p)
  PROVE  TInv'
<1>1. UNCHANGED <<stored, disabled, descriptors, revalidators, budget>>
  BY DEF Settle
<1>2. ASSUME NEW x \in Procs PROVE ProcTyped(proc'[x], x)
  <2>1. ProcTyped(proc[x], x) /\ IsProc(proc[x])
    BY Zenon DEF TInv, ProcsTyped, Inv, ProcsGood, ProcGood
  <2> DEFINE r == [proc[x] EXCEPT !.at = "assets", !.reenable = TRUE]
  <2>2. \/ proc'[x] \in {Idle, proc[x]}
        \/ proc[x].at = "rejoin" /\ proc'[x] = r
    BY Zenon DEF Settle, Settled
  <2>3. proc[x].at = "rejoin" => ProcTyped(r, x)
    BY <2>1 DEF ProcTyped, Evicts, IsProc, ProcFields, Tombstoning, Activating
  <2> HIDE DEF r
  <2> QED BY <2>1, <2>2, <2>3, IdleTyped, Zenon
<1> QED BY <1>1, <1>2, WorkerSame DEF TInv, StorageTyped, ProcsTyped, stored

\* The types hold of what an earlier worker has stored.
LEMMA InitTyped == Init => TInv
<1> SUFFICES ASSUME Init PROVE TInv
  OBVIOUS
<1>1. Typed(EmptyMetadata)
  BY Zenon DEF Typed, IsState, StateFields, Inv_Metadata, EmptyMetadata, Pointers
<1>2. ASSUME NEW p \in Publications PROVE Typed(StoredAs(First[p]))
  <2>1. First[p] \in Descriptors
    BY FirstIsOffered
  <2> DEFINE d == First[p]
             s == StoredAs(d)
  <2>2. /\ s.seen = d /\ s.active = d /\ s.previous = None /\ s.candidate = None /\ s.etag = d
        /\ s.epoch = 2 /\ s.disabled = FALSE /\ s.evicted = FALSE /\ s.tombstone = None
        /\ s.generations = {d} /\ s.cached = {<<d, "shell">>}
    BY Zenon DEF StoredAs, EmptyMetadata
  <2>3. IsState(s)
    BY Zenon DEF IsState, StateFields, StoredAs, EmptyMetadata
  <2> HIDE DEF s
  <2>4. Inv_Metadata(s)
    <3>1. {<<d, "shell">>} \subseteq Descriptors \X Content
      BY <2>1 DEF Content
    <3>2. {d, None} \subseteq Pointers /\ {d} \subseteq Descriptors
      BY <2>1 DEF Pointers
    <3> HIDE DEF d
    <3>3. 2 \in Nat
      OBVIOUS
    <3> QED BY <2>2, <3>1, <3>2, <3>3, Zenon DEF Inv_Metadata
  <2> QED BY <2>3, <2>4, Zenon DEF Typed, s, d
<1>3. StorageTyped
  BY <1>1, <1>2, StoredAreOffered, ZenonT(30) DEF Init, StorageTyped
<1>4. WorkerTyped
  BY BoundsAreNat, SMTT(30) DEF Init, WorkerTyped, NoDescriptors, Pointers
<1>5. ProcsTyped
  BY IdleTyped DEF Init, AllIdle, ProcsTyped
<1> QED BY <1>3, <1>4, <1>5, SMTT(30) DEF TInv

\* Every step keeps the types.
LEMMA StepsTyped == Inv /\ TInv /\ [Next]_vars => TInv'
<1> SUFFICES ASSUME Inv, TInv, [Next]_vars PROVE TInv'
  OBVIOUS
<1>1. CASE Message
  BY <1>1, MessageTyped
<1>2. CASE \E h \in Handlers : HandlerStep(h)
  BY <1>2, ConfigureTyped, ShellTyped, FetchTyped, TombstonesTyped, SMTT(30) DEF HandlerStep, Procs
<1>3. CASE \E p \in Publications : RevalidationStep(p)
  BY <1>3, RevalidationTyped, ActivationTyped, SettleTyped, TombstonesTyped
    , SMTT(30) DEF RevalidationStep, Procs
<1>4. CASE \E x \in Procs : Refuse(x) \/ Reject(x)
  BY <1>4, RefuseTyped
<1>5. CASE ServerChange
  <2>1. /\ UNCHANGED <<stored, volatile>> /\ budget.releases > 0
        /\ budget' = [budget EXCEPT !.releases = @ - 1]
    BY <1>5, Zenon DEF ServerChange, Withdraw, Publish
  <2>2. budget' \in [events : Nat, kills : Nat, releases : Nat,
              faults : 0 .. MaxFaults, rejections : 0 .. MaxRejections]
    BY <2>1 DEF TInv, WorkerTyped
  <2> QED BY <2>1, <2>2 DEF TInv, StorageTyped, WorkerTyped, ProcsTyped, stored, volatile
<1>6. CASE Kill
  <2>1. /\ UNCHANGED stored /\ budget.kills > 0 /\ budget' = [budget EXCEPT !.kills = @ - 1]
        /\ disabled' = {} /\ descriptors' = NoDescriptors /\ revalidators' = NoDescriptors
        /\ proc' = [x \in Procs |-> Idle]
    BY <1>6, Zenon DEF Kill, AllIdle
  <2>2. WorkerTyped'
    BY <2>1 DEF TInv, WorkerTyped, NoDescriptors, Pointers
  <2>3. ProcsTyped'
    BY <2>1, IdleTyped DEF ProcsTyped
  <2> QED BY <2>1, <2>2, <2>3 DEF TInv, StorageTyped, stored
<1>7. CASE UNCHANGED vars
  BY <1>7 DEF vars, stored, volatile, TInv, StorageTyped, WorkerTyped, ProcsTyped
<1> QED BY <1>1, <1>2, <1>3, <1>4, <1>5, <1>6, <1>7, SMTT(30) DEF Next

-----------------------------------------------------------------------------
(* The specification.                                                       *)

\* The whole invariant holds in every state.
LEMMA AlwaysWhole == Spec => []Whole
<1>1. Init => Whole
  BY InitGood, InitTyped, InitKeeps DEF Whole
<1>2. Whole /\ [Next]_vars => Whole'
  <2> SUFFICES ASSUME Whole, [Next]_vars PROVE Whole'
    OBVIOUS
  <2>1. Inv /\ TInv
    BY DEF Whole
  <2>2. Inv'
    BY <2>1, StepsGood, Zenon
  <2>3. TInv'
    BY <2>1, StepsTyped, Zenon
  <2>4. QInv' /\ KInv'
    BY StepsKeep, Zenon
  <2> QED BY <2>2, <2>3, <2>4, Zenon DEF Whole
<1> QED BY <1>1, <1>2, PTL DEF Spec

\* Every variable keeps its type, and a publication's queue (operations in
\* storage.js) holds only running processes whose operation is on it.
THEOREM AlwaysTyped == Spec => []TypeOK
<1>1. Whole => TypeOK
  <2> SUFFICES ASSUME Whole PROVE TypeOK
    OBVIOUS
  <2>1. \A p \in Publications : Inv_Metadata(db[p])
    BY Zenon DEF Whole, TInv, StorageTyped, Typed
  <2>2. /\ recent \in Seq(Publications) /\ disabled \subseteq Publications
        /\ descriptors \in [Publications -> Pointers]
        /\ revalidators \in [Publications -> Pointers]
    BY Zenon DEF Whole, TInv, StorageTyped, WorkerTyped
  <2>3. \A x \in Procs : DOMAIN proc[x] = DOMAIN Idle
    <3>1. DOMAIN Idle = ProcFields
      BY DEF Idle, ProcFields
    <3> QED BY <3>1, Zenon DEF Whole, Inv, ProcsGood, ProcGood, IsProc
  <2>4. ASSUME NEW p \in Publications, NEW i \in 1 .. Len(queue[p])
        PROVE  Running(queue[p][i]) /\ p \in {proc[queue[p][i]].p, proc[queue[p][i]].on}
    <3> DEFINE s == queue[p]
               x == queue[p][i]
    <3>1. QueueGood(s, p, proc)
      BY Zenon DEF Whole, QInv
    <3> HIDE DEF s
    <3>2. s[i] \in Procs /\ Among(s, s[i])
      BY <3>1, <2>4 DEF QueueGood, Among, s
    <3>3. x \in Procs /\ Engages(proc[x], p)
      BY <3>1, <3>2, Zenon DEF QueueGood, s
    <3> HIDE DEF x
    <3>4. proc[x].at # "idle" /\ p \in {proc[x].p, proc[x].on}
      BY <3>3, SMTT(30) DEF Engages, Waits, Inside, Evicts, Queued, Holding, Tombstoning, Purging
    <3> QED BY <3>4, Zenon DEF Running, x
  <2> QED BY <2>1, <2>2, <2>3, <2>4, Zenon DEF TypeOK
<1> QED BY <1>1, AlwaysWhole, PTL

\* A withdrawal wins over everything it races with (disablePublication in
\* sw.js, tombstone, commitGeneration and discardCandidate in storage.js): once
\* the worker has seen it and the queue of the publication has drained, nothing
\* of the publication is left, unless a storage operation was refused or
\* rejected.
THEOREM WithdrawalAlwaysWins == Spec => []WithdrawalWins
<1>1. Whole => WithdrawalWins
  <2> SUFFICES ASSUME Whole, NEW p \in disabled, queue[p] = <<>>,
                      budget.faults = MaxFaults, Firm
               PROVE  /\ db[p].disabled
                      /\ {db[p].active, db[p].previous, db[p].candidate} = {None}
                      /\ db[p].generations = {} /\ db[p].cached = {}
    BY Zenon DEF WithdrawalWins, Firm
  <2>1. p \in Publications /\ Won(p)
    BY DEF Whole, TInv, WorkerTyped, KInv, WInv
  <2>2. ASSUME NEW x \in Procs PROVE ~ Engages(proc[x], p)
    <3>1. Engages(proc[x], p) <=> Among(<<>>, x)
      BY <2>1, Zenon DEF Whole, QInv, QueueGood
    <3> QED BY <3>1 DEF Among
  <2>3. ASSUME NEW x \in Procs PROVE ~ Withdraws(proc[x], p)
    BY <2>2 DEF Withdraws, Engages, Waits, Inside, Tombstoning, Purging
  <2>4. proc[p].at # "discard"
    <3> SUFFICES ASSUME proc[p].at = "discard" PROVE FALSE
      OBVIOUS
    <3>1. p \in Procs /\ proc[p].at # "idle" /\ proc[p].at \in Queued
      BY <2>1 DEF Procs, Queued
    <3>2. proc[p].p = p
      BY <2>1, <3>1, HasPublication, Zenon
    <3> QED BY <2>2, <3>1, <3>2, Zenon DEF Engages, Waits
  <2>5. Clean(db[p])
    BY <2>1, <2>3, <2>4, Zenon DEF Won
  <2> QED BY <2>5 DEF Clean, Cleared
<1> QED BY <1>1, AlwaysWhole, PTL

\* While no operation has rejected after its write, the active pointer of an
\* enabled publication names a stored generation, if that generation is the
\* only projection of its revision (commitGeneration, activate,
\* pruneGenerations, restoreMetadata and discardCandidate in storage.js),
\* however operations, refused writes and restarts interleave.
THEOREM ActiveAlwaysStored == Spec => []ActiveIsStored
<1>1. Whole => ActiveIsStored
  BY Zenon DEF Whole, KInv, AInv, StoredGood, ActiveIsStored, Firm
<1> QED BY <1>1, AlwaysWhole, PTL
=============================================================================
