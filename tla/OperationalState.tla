--------------------------- MODULE OperationalState ---------------------------
(***************************************************************************)
(* The state the control plane commits as one file (operationalState in    *)
(* internal/adapters/store/fs.go), the operations of its transactions, and *)
(* the validation every commit passes.  An operator that changes a state   *)
(* returns the new state, or Refused where the code returns an error.      *)
(*                                                                         *)
(* Records keep their identity and the fields the validation compares;     *)
(* digests, titles and hostnames are functions of these and are left out,  *)
(* and so is the copy of a track's generation and decision kept in         *)
(* ReleaseTrackAuthorities, written with every track and never alone.      *)
(* "touched" is migratedRevisions plus mutatedRevisions of a transaction.  *)
(***************************************************************************)
EXTENDS ReleaseTracks, FiniteSets

CONSTANTS
  Contracts, NoContract,   \* project IDs; the empty ID of a flat legacy revision
  Tracks, NoTrack,         \* release track IDs
  ContractOf,              \* the contract a track belongs to
  RefOf,                   \* the ref a track is bound to
  Names,                   \* refs, errors and paths
  Refused,                 \* an operation returned an error
  Skew                     \* ReleaseReviewMaxFutureSkew

\* What a revision carries: nothing, a blob, a blob and digests without the
\* review snapshot (an older release wrote those), or complete evidence.
Levels == {"bare", "blob", "partial", "full"}

Owners == Contracts \cup {NoContract}
RevisionRecords == [contract : Owners, id : Revisions, level : Levels, ref : Names]
ReviewRecords == [id : ReviewIDs, contract : Contracts, base : Revisions, cand : Revisions,
                  verdict : {"pass", "fail"}, at : Nat, expires : Nat]
SyncRecords == [contract : Contracts, rev : Revisions, ref : Names,
                result : {"success", "failure"}, error : Names, seen : Nat]
Authorizations == [track : Tracks, review : ReviewIDs,
                   sync : Contracts \X Revisions \X Names \X {"success"},
                   base : Revisions, cand : Revisions, ref : Names, path : Names]
Publications == [contract : Contracts, rev : Revisions, path : Names, public : BOOLEAN]
EventRecords == [track : Tracks, rev : Revisions, review : ReviewIDs, gen : Nat,
                 accepted : {"yes", "no"}, kind : {"considered", "promoted"}, at : Nat]
States == [revs : SUBSET RevisionRecords, reviews : SUBSET ReviewRecords,
           syncs : SUBSET SyncRecords, auths : SUBSET Authorizations,
           pubs : SUBSET Publications, audit : SUBSET EventRecords, outbox : SUBSET EventRecords,
           tracks : [Tracks -> TrackRecords \cup {NoTrack}],
           touched : SUBSET (Owners \X Revisions)]

ASSUME StateConstants ==
  /\ NoContract \notin Contracts
  /\ NoTrack \notin TrackRecords
  /\ Refused \notin States
  /\ ContractOf \in [Tracks -> Contracts]
  /\ RefOf \in [Tracks -> Names]
  /\ {"commit", "none"} \subseteq Names
  /\ Skew \in Nat

\* The element a lookup finds.
Found(X) == CHOOSE x \in X : TRUE

\* The next operation of a transaction, on the result of the one before.
Then(S, Op(_)) == IF S = Refused THEN Refused ELSE Op(S)
Check(ok, S) == IF ok THEN S ELSE Refused

EmptyState == [revs |-> {}, reviews |-> {}, syncs |-> {}, auths |-> {}, pubs |-> {},
               audit |-> {}, outbox |-> {}, tracks |-> [t \in Tracks |-> NoTrack],
               touched |-> {}]

Key(v) == <<v.contract, v.id>>
RevisionsFor(S, c, r) == {v \in S.revs : v.contract = c /\ v.id = r}
Owned(S, c, r) == RevisionsFor(S, c, r) # {}
Complete(S, c, r) == \E v \in RevisionsFor(S, c, r) : v.level = "full"

ReplaceRevision(S, old, new) ==
  [S EXCEPT !.revs = (@ \ {old}) \cup {new},
            !.touched = (@ \ {Key(old)}) \cup {Key(new)}]

\* bindRevisionOwner: a revision no contract owns yet is taken by the first user.
Bind(S, c, r) ==
  LET loose == RevisionsFor(S, NoContract, r) IN
  IF Owned(S, c, r) THEN S
  ELSE IF loose = {} THEN Refused
       ELSE ReplaceRevision(S, Found(loose), [Found(loose) EXCEPT !.contract = c])

(***************************************************************************)
(* Operations of a transaction                                             *)
(***************************************************************************)
\* canEnrichLegacyRevisionEvidence, canCanonicalizeLegacyRevisionRef
CanEnrich(e, v) ==
  /\ e.level \in {"blob", "partial"} /\ v.level = "full"
  /\ e.ref = v.ref /\ e.contract \in {NoContract, v.contract}
CanCanonicalize(e, v) == v = [e EXCEPT !.ref = "commit"]

SaveRevision(S, v) ==
  LET known == IF Owned(S, v.contract, v.id) THEN RevisionsFor(S, v.contract, v.id)
               ELSE RevisionsFor(S, NoContract, v.id)
      e == Found(known)
  IN  IF known = {} THEN [S EXCEPT !.revs = @ \cup {v}, !.touched = @ \cup {Key(v)}]
      ELSE IF e = v THEN S
      ELSE Check(CanEnrich(e, v) \/ CanCanonicalize(e, v), ReplaceRevision(S, e, v))

SaveReview(S, w) ==
  Then(Bind(S, w.contract, w.base), LAMBDA A :
  Then(Bind(A, w.contract, w.cand), LAMBDA B :
    Check(/\ Complete(B, w.contract, w.base) /\ Complete(B, w.contract, w.cand)
          /\ \A x \in B.reviews : x.id = w.id => x = w,
          [B EXCEPT !.reviews = @ \cup {w}])))

\* syncRecordID covers everything but the error and the times, and
\* SameSyncEvidence compares everything but the times.
SyncID(n) == <<n.contract, n.rev, n.ref, n.result>>
SameSyncEvidence(n, m) == SyncID(n) = SyncID(m) /\ n.error = m.error

\* Mutant: the last observation replaces the first.
SaveSyncRecordLast(S, n) ==
  Then(IF n.result = "success" THEN Bind(S, n.contract, n.rev) ELSE S, LAMBDA A :
    [A EXCEPT !.syncs = {m \in @ : SyncID(m) # SyncID(n)} \cup {n}])

SaveSyncRecord(S, n) ==
  Then(IF n.result = "success" THEN Bind(S, n.contract, n.rev) ELSE S, LAMBDA A :
    LET known == {m \in A.syncs : SyncID(m) = SyncID(n)} IN
    IF known = {} THEN [A EXCEPT !.syncs = @ \cup {n}]
    ELSE Check(\A m \in known : SameSyncEvidence(m, n), A))

\* saveReleaseAuthorization
SaveAuthorization(S, a) ==
  Check(\A b \in S.auths : b.review = a.review => b = a, [S EXCEPT !.auths = @ \cup {a}])

BindTrack(S, t, n) ==
  Then(IF n.current = NoRevision THEN S ELSE Bind(S, ContractOf[t], n.current), LAMBDA A :
       IF n.cand = NoRevision THEN A ELSE Bind(A, ContractOf[t], n.cand))

SaveReleaseTrack(S, t, expected, n) ==
  LET old == S.tracks[t] IN
  IF ~ValidTrack(n) THEN Refused
  ELSE IF old = n THEN S
  ELSE IF /\ expected = (IF old = NoTrack THEN 0 ELSE old.gen)
          /\ IF old = NoTrack THEN ValidInitialization(n) ELSE ValidTransition(old, n)
       THEN Then(BindTrack(S, t, n), LAMBDA A : [A EXCEPT !.tracks[t] = n])
       ELSE Refused

\* A public publication takes its path from the others.
SavePublication(S, p) ==
  Then(Bind(S, p.contract, p.rev), LAMBDA A :
    LET others == {q \in A.pubs : <<q.contract, q.rev>> # <<p.contract, p.rev>>}
        demoted == {IF p.public /\ q.public /\ q.path = p.path
                    THEN [q EXCEPT !.public = FALSE] ELSE q : q \in others}
    IN  [A EXCEPT !.pubs = demoted \cup {p}])

\* AppendAuditEvent and Enqueue: the ID of an event covers everything but its time.
EventID(e) == [e EXCEPT !.at = 0]
Same(events, e) == {f \in events : EventID(f) = EventID(e)}
AppendAuditEvent(S, e) ==
  Then(Bind(S, ContractOf[e.track], e.rev), LAMBDA A :
    IF Same(A.audit, e) = {} THEN [A EXCEPT !.audit = @ \cup {e}] ELSE Check(e \in A.audit, A))
Enqueue(S, e) ==
  Then(Bind(S, ContractOf[e.track], e.rev), LAMBDA A :
    IF Same(A.outbox, e) = {} THEN [A EXCEPT !.outbox = @ \cup {e}] ELSE Check(e \in A.outbox, A))

(***************************************************************************)
(* Validation of a commit                                                  *)
(***************************************************************************)
\* validateRevisionEvidence, with the blobs that are in the blob directory.
EvidenceOK(v, blobs) ==
  \/ v.level = "bare"
  \/ v.id \in blobs /\ v.level # "partial" /\ (v.level = "full" => v.contract # NoContract)

\* validateUniquePublicPaths
UniquePublicPaths(S) ==
  \A p, q \in S.pubs : p.public /\ q.public /\ p.path = q.path => p = q

\* validateOperationalReferences up to the evidence authorities.
ReferencesOwned(S) ==
  /\ \A t \in Tracks : S.tracks[t] # NoTrack =>
        \A r \in {S.tracks[t].current, S.tracks[t].cand} \ {NoRevision} : Owned(S, ContractOf[t], r)
  /\ \A p \in S.pubs : Owned(S, p.contract, p.rev)
  /\ \A w \in S.reviews : Owned(S, w.contract, w.base) /\ Owned(S, w.contract, w.cand)
  /\ \A n \in S.syncs : n.result = "success" => Owned(S, n.contract, n.rev)
  /\ \A e \in S.audit \cup S.outbox : Owned(S, ContractOf[e.track], e.rev) /\ S.tracks[e.track] # NoTrack

\* validateReleaseAuthorizationBundle
AuthorizationBundle(S, a) ==
  LET c == ContractOf[a.track] IN
  /\ S.tracks[a.track] # NoTrack
  /\ a.ref = RefOf[a.track]
  /\ Complete(S, c, a.base) /\ Complete(S, c, a.cand)
  /\ \E v \in RevisionsFor(S, c, a.cand) : v.ref \in {a.ref, "commit"}
  /\ \E w \in S.reviews : /\ w.id = a.review /\ w.contract = c
                          /\ w.base = a.base /\ w.cand = a.cand
  /\ \E n \in S.syncs : /\ SyncID(n) = a.sync /\ n.contract = c
                        /\ n.rev = a.cand /\ n.ref = a.ref

Review(S, id) == Found({w \in S.reviews : w.id = id})

\* requireReleaseTransitionEffects
Recorded(S, a, accepted, gen, kind) ==
  LET e == [track |-> a.track, rev |-> a.cand, review |-> a.review, gen |-> gen,
            accepted |-> accepted, kind |-> kind, at |-> 0]
  IN  \E x \in S.audit : EventID(x) = e /\ x \in S.outbox

\* A pinned track whose accepted candidate was promoted.
WasPromoted(t) == t.mode = "pinned" /\ t.cand = NoRevision /\ t.current = t.last.rev

\* Mutant: the publication of a released revision is not required.
DecisionBundleUnpublished(S, t, a) ==
  LET d == t.last  w == Review(S, a.review) IN
  /\ t.cand # NoRevision => t.current = a.base
  /\ d.rev = a.cand /\ d.verdict = w.verdict /\ d.at = w.at
  /\ Recorded(S, a, d.accepted, IF WasPromoted(t) THEN t.gen - 1 ELSE t.gen, "considered")
  /\ WasPromoted(t) => Recorded(S, a, d.accepted, t.gen, "promoted")

\* validateReleaseDecisionBundle
DecisionBundle(S, t, a) ==
  LET d == t.last  w == Review(S, a.review) IN
  /\ t.cand # NoRevision => t.current = a.base
  /\ d.rev = a.cand /\ d.verdict = w.verdict /\ d.at = w.at
  /\ Accepts(d) => \E n \in S.syncs : SyncID(n) = a.sync /\ n.result = "success"
  /\ Recorded(S, a, d.accepted, IF WasPromoted(t) THEN t.gen - 1 ELSE t.gen, "considered")
  /\ Accepts(d) /\ (t.mode = "following" \/ WasPromoted(t)) =>
        [contract |-> ContractOf[a.track], rev |-> a.cand, path |-> a.path, public |-> TRUE] \in S.pubs
  /\ WasPromoted(t) => Recorded(S, a, d.accepted, t.gen, "promoted")

\* validateReleaseEvidenceAuthorities
EvidenceAuthorities(S) ==
  /\ \A a \in S.auths : AuthorizationBundle(S, a)
  /\ \A t \in Tracks :
       LET n == S.tracks[t] IN
       (n # NoTrack /\ n.last # NoDecision) =>
          \E a \in S.auths : a.review = n.last.review /\ a.track = t /\ DecisionBundle(S, n, a)

ValidReferences(S) ==
  /\ UniquePublicPaths(S)
  /\ ReferencesOwned(S)
  /\ EvidenceAuthorities(S)
ValidTracks(S) == \A t \in Tracks : S.tracks[t] # NoTrack => ValidTrack(S.tracks[t])

\* validateAuthorizationBaseline, validateReleaseAuthorizationRevisionEvidence
Bound(before, S, a, blobs) ==
  /\ before.tracks[a.track] # NoTrack
  /\ before.tracks[a.track].current = a.base
  /\ \A v \in S.revs : v.contract = ContractOf[a.track] /\ v.id \in {a.base, a.cand} => EvidenceOK(v, blobs)

\* validateChangedReleaseEvidence
ChangesBound(before, S, blobs) ==
  /\ \A a \in S.auths \ before.auths : Bound(before, S, a, blobs)
  /\ \A t \in Tracks :
       LET n == S.tracks[t] IN
       (n # before.tracks[t] /\ n.last # NoDecision) =>
          \E a \in S.auths : a.review = n.last.review /\ Bound(before, S, a, blobs)

\* validateOperationalState: every touched revision is there under its key,
\* with valid evidence.  What is written has no touched revisions.
Plain(S) == [S EXCEPT !.touched = {}]
Committed(before, S, blobs) ==
  Then(S, LAMBDA A :
    Check(/\ ValidTracks(A) /\ ValidReferences(A)
          /\ A.touched \subseteq {Key(v) : v \in A.revs}
          /\ \A v \in A.revs : Key(v) \in A.touched => EvidenceOK(v, blobs)
          /\ ChangesBound(before, A, blobs),
          Plain(A)))

\* One record for every identity.
OneRevision(S) == \A v, w \in S.revs : Key(v) = Key(w) => v = w
OneReview(S) == \A w, x \in S.reviews : w.id = x.id => w = x
OneAuthorization(S) == \A a, b \in S.auths : a.review = b.review => a = b

\* What a later record of a revision keeps of an earlier one: its owner, and
\* complete evidence but for a ref made canonical.
Keeps(v, w) ==
  /\ w.id = v.id
  /\ v.contract # NoContract => w.contract = v.contract
  /\ v.level = "full" => w.level = "full" /\ w.ref \in {v.ref, "commit"}
===============================================================================
