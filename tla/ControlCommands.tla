--------------------------- MODULE ControlCommands ----------------------------
(***************************************************************************)
(* What the control plane does to the operational state: the commands of   *)
(* the application (application/sync.go, application/release.go, the       *)
(* management handlers and the promotion of the store contract), each one  *)
(* transaction, and the migration of states older releases wrote.          *)
(***************************************************************************)
EXTENDS OperationalState, Folds

\* Sync: the revision with its evidence, canonically at its commit, then the record.
SyncRevision(c, S, began) ==
  Then(SaveRevision(S, [contract |-> c.contract, id |-> c.rev, level |-> "full", ref |-> "commit"]),
       LAMBDA A : SaveSyncRecord(A, [contract |-> c.contract, rev |-> c.rev, ref |-> c.ref,
                                     result |-> "success", error |-> "none", seen |-> began]))
\* recordFailure
FailSync(c, S, began) ==
  SaveSyncRecord(S, [contract |-> c.contract, rev |-> c.rev, ref |-> c.ref,
                     result |-> "failure", error |-> c.error, seen |-> began])

\* The audit event and the outbox message of a transition.
Record(S, a, accepted, gen, kind, now) ==
  LET e == [track |-> a.track, rev |-> a.cand, review |-> a.review, gen |-> gen,
            accepted |-> accepted, kind |-> kind, at |-> now]
  IN  Then(AppendAuditEvent(S, e), LAMBDA A : Enqueue(A, e))

Release(S, a) ==
  SavePublication(S, [contract |-> ContractOf[a.track], rev |-> a.cand, path |-> a.path, public |-> TRUE])

\* A track that changes: its record, the publication it releases, its event.
Transition(S, t, n, a, release, accepted, kind, now) ==
  Then(SaveReleaseTrack(S, t, S.tracks[t].gen, n), LAMBDA A :
  Then(IF release THEN Release(A, a) ELSE A, LAMBDA B : Record(B, a, accepted, n.gen, kind, now)))

DecisionOf(w, accepted) ==
  [rev |-> w.cand, review |-> w.id, verdict |-> w.verdict, accepted |-> accepted, at |-> w.at]

Authorization(S, id) == Found({a \in S.auths : a.review = id})

\* validateSelectedReleaseEvidence and the snapshots of both revisions, on
\* what ReleaseEvidence and ContractRevision return.
EvidenceSelected(c, S, blobs) ==
  \E a \in S.auths :
    /\ a.review = c.review /\ a.track = c.track /\ a.cand = c.rev
    /\ c.accepted = "yes" => /\ Review(S, a.review).verdict = "pass"
                             /\ \E n \in S.syncs : SyncID(n) = a.sync /\ n.result = "success"
    /\ \A r \in {a.base, a.cand} :
         \A v \in RevisionsFor(S, ContractOf[a.track], r) : EvidenceOK(v, blobs) /\ v.level = "full"

\* Mutant: a replay is judged by the clock like a new decision.
CoordinateReplayLate(c, S, now) ==
  LET a == Authorization(S, c.review)
      w == Review(S, c.review)
      t == S.tracks[c.track]
      d == DecisionOf(w, c.accepted)
      n == Considered(t, d)
  IN  IF \/ w.at > now + Skew \/ now >= w.expires \/ t = NoTrack
         \/ ConsiderFails(t, d) \/ t.current # a.base
      THEN Refused
      ELSE IF Replays(t, d) THEN S
      ELSE Transition(S, c.track, n, a, Accepts(d) /\ n.current = a.cand, c.accepted, "considered", now)

\* The callback of Coordinate.  a and w are immutable once stored, so what
\* was read before the transaction is what it contains.
Coordinate(c, S, now) ==
  LET a == Authorization(S, c.review)
      w == Review(S, c.review)
      t == S.tracks[c.track]
      d == DecisionOf(w, c.accepted)
      n == Considered(t, d)
  IN  IF \/ ~\E x \in S.auths : x.review = c.review
         \/ t = NoTrack
         \/ ~ValidTrack(t) \/ a.ref # RefOf[c.track]
         \/ t.cand # NoRevision /\ t.current # a.base
      THEN Refused
      ELSE IF Replays(t, d) THEN S
      ELSE IF w.at > now + Skew \/ now >= w.expires \/ ConsiderFails(t, d) THEN Refused
      ELSE IF ~ConsiderChanges(t, d) THEN S
      ELSE IF t.current # a.base THEN Refused
      ELSE Transition(S, c.track, n, a, Accepts(d) /\ n.current = a.cand, c.accepted, "considered", now)

\* A promotion with the effects the store demands of it; no command of the
\* repository issues one yet.
Promote(c, S, now) ==
  LET t == S.tracks[c.track]
      a == Authorization(S, t.last.review)
      n == Promoted(t, c.rev)
  IN  IF t = NoTrack \/ ~CanPromote(t, c.rev) THEN Refused
      ELSE IF n = t THEN S
      ELSE Transition(S, c.track, n, a, TRUE, t.last.accepted, "promoted", now)

NewTrack(c) == [mode |-> c.mode, gen |-> 0, current |-> c.rev, cand |-> NoRevision, last |-> NoDecision]

ReviewOf(c) == [id |-> c.review, contract |-> c.contract, base |-> c.base, cand |-> c.cand,
                verdict |-> c.verdict, at |-> c.at, expires |-> c.expires]
AuthorizationOf(c) == [track |-> c.track, review |-> c.review, sync |-> <<c.contract, c.cand, c.ref, "success">>,
                       base |-> c.base, cand |-> c.cand, ref |-> c.ref, path |-> c.path]
PublicationOf(c) == [contract |-> c.contract, rev |-> c.rev, path |-> c.path, public |-> c.public]

CommandRecords ==
  [op : {"sync"}, contract : Contracts, rev : Revisions, ref : Names]
  \cup [op : {"fail"}, contract : Contracts, rev : Revisions, ref : Names, error : Names]
  \cup [op : {"review"}, review : ReviewIDs, contract : Contracts, base : Revisions,
        cand : Revisions, verdict : {"pass", "fail"}, at : Nat, expires : Nat]
  \cup [op : {"authorize"}, track : Tracks, review : ReviewIDs, contract : Contracts,
        base : Revisions, cand : Revisions, ref : Names, path : Names]
  \cup [op : {"track"}, track : Tracks, mode : {"pinned", "following"}, rev : Revisions]
  \cup [op : {"coordinate"}, track : Tracks, review : ReviewIDs, rev : Revisions,
        accepted : {"yes", "no"}]
  \cup [op : {"promote"}, track : Tracks, rev : Revisions]
  \cup [op : {"publish"}, contract : Contracts, rev : Revisions, path : Names, public : BOOLEAN]

\* The transaction of a command, at the time the callback reads the clock.
Run(c, S, began, now) ==
  CASE c.op = "sync"       -> SyncRevision(c, S, began)
    [] c.op = "fail"       -> FailSync(c, S, began)
    [] c.op = "review"     -> SaveReview(S, ReviewOf(c))
    [] c.op = "authorize"  -> SaveAuthorization(S, AuthorizationOf(c))
    [] c.op = "track"      -> SaveReleaseTrack(S, c.track, 0, NewTrack(c))
    [] c.op = "coordinate" -> Coordinate(c, S, now)
    [] c.op = "promote"    -> Promote(c, S, now)
    [] c.op = "publish"    -> SavePublication(S, PublicationOf(c))

(***************************************************************************)
(* Migration                                                               *)
(***************************************************************************)
\* reconcileLegacyPublications: of several public publications of a path
\* the one a track currently releases stays public.
CurrentPublication(S, p) ==
  \E t \in Tracks : S.tracks[t] # NoTrack /\ ContractOf[t] = p.contract /\ S.tracks[t].current = p.rev
Claims(S, path) == {p \in S.pubs : p.public /\ p.path = path}
Reconcile(S) ==
  LET contested == {path \in {p.path : p \in S.pubs} : Cardinality(Claims(S, path)) > 1} IN
  Check(\A path \in contested : Cardinality({p \in Claims(S, path) : CurrentPublication(S, p)}) = 1,
        [S EXCEPT !.pubs = {IF p.public /\ p.path \in contested /\ ~CurrentPublication(S, p)
                            THEN [p EXCEPT !.public = FALSE] ELSE p : p \in @}])

\* bindLegacyOperationalRevisionOwners, for every reference of the state.
References(S) ==
  (UNION {IF S.tracks[t] = NoTrack THEN {}
          ELSE {<<ContractOf[t], r>> : r \in {S.tracks[t].current, S.tracks[t].cand} \ {NoRevision}} : t \in Tracks})
  \cup {<<p.contract, p.rev>> : p \in S.pubs}
  \cup {<<w.contract, w.base>> : w \in S.reviews} \cup {<<w.contract, w.cand>> : w \in S.reviews}
  \cup {<<n.contract, n.rev>> : n \in {m \in S.syncs : m.result = "success"}}
  \cup {<<ContractOf[e.track], e.rev>> : e \in S.audit \cup S.outbox}
BindAll(S) ==
  MapThenFoldSet(LAMBDA x, A : Then(A, LAMBDA B : Bind(B, x[1], x[2])), S,
                 LAMBDA x : x, LAMBDA X : CHOOSE x \in X : TRUE, References(S))

\* collectAuthoritativeRevisionReferences
Authoritative(S) ==
  {v \in S.revs : \/ \E t \in Tracks : /\ S.tracks[t] # NoTrack
                                       /\ <<ContractOf[t], S.tracks[t].current>> = Key(v)
                  \/ \E p \in S.pubs : p.public /\ <<p.contract, p.rev>> = Key(v)
                  \/ \E a \in S.auths : ContractOf[a.track] = v.contract /\ v.id \in {a.base, a.cand}}

\* migrateOperationalStateToCurrent of a state older than version 3.
DropUnproven(S) ==
  [S EXCEPT !.auths = {},
            !.tracks = [t \in Tracks |-> IF @[t] = NoTrack THEN NoTrack
                                         ELSE [@[t] EXCEPT !.cand = NoRevision, !.last = NoDecision]]]

\* The state a file of an older version stands for, or Refused; and whether
\* its loader accepts it.
Migrated(version, S) ==
  Then(Reconcile(IF version < 3 THEN DropUnproven(S) ELSE S), LAMBDA A :
  Then(BindAll(A), LAMBDA B :
    Check(/\ version < 3 => S.auths = {}
          /\ ValidTracks(B) /\ ValidReferences(B),
          [B EXCEPT !.touched = {}])))
EvidencePresent(S, blobs) == \A v \in Authoritative(S) : EvidenceOK(v, blobs)

\* The flat JSON files of the first release: every revision counts as touched
\* under the key of its file, which is not the key it has once a reference
\* gave it an owner; and records that wait for their snapshot keep the state
\* from being written.
Flattened(S) ==
  Then(Reconcile(S), LAMBDA A :
  Then(BindAll(A), LAMBDA B :
    Check(ValidTracks(B) /\ ValidReferences(B), [B EXCEPT !.touched = {Key(v) : v \in S.revs}])))
AwaitsEnrichment(S) == \E v \in S.revs : v.level = "partial"
FlatEvidencePresent(S, blobs) == \A v \in S.revs : EvidenceOK(v, blobs) \/ v.level = "partial"

(***************************************************************************)
(* What commands preserve                                                  *)
(***************************************************************************)
\* What holds of every state the store writes: one record for every identity;
\* every generation a track took since its first authenticated decision has
\* one event, in the audit log and in the outbox; and decisions were taken in
\* the order of their reviews.
Events(S, t) == {e \in S.audit : e.track = t}
OneEvent(S) == \A e, f \in S.audit : e.track = f.track /\ e.gen = f.gen => e = f
GenerationsTaken(S) ==
  \A t \in Tracks : S.tracks[t] # NoTrack =>
    \E m \in 0..(S.tracks[t].gen + 1) : {e.gen : e \in Events(S, t)} = m..S.tracks[t].gen

EventsReviewed(S) == \A e \in S.audit : \E w \in S.reviews : w.id = e.review
Considerations(S) == {e \in S.audit : e.kind = "considered"}
NoneAfterLast(S) ==
  \A e \in Considerations(S) :
    /\ S.tracks[e.track].last # NoDecision
    /\ Review(S, e.review).at <= S.tracks[e.track].last.at
InReviewOrder(S) ==
  \A e, f \in Considerations(S) :
    e.track = f.track /\ e.gen < f.gen => Review(S, e.review).at < Review(S, f.review).at

Sound(S) ==
  /\ OneRevision(S) /\ OneReview(S) /\ OneAuthorization(S)
  /\ S.audit = S.outbox /\ OneEvent(S) /\ GenerationsTaken(S)
  /\ EventsReviewed(S) /\ NoneAfterLast(S) /\ InReviewOrder(S)
===============================================================================
