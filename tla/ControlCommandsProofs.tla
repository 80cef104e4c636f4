------------------------- MODULE ControlCommandsProofs ------------------------
(***************************************************************************)
(* What the commands of the control plane preserve of the operational      *)
(* state, for every set of revisions, reviews, contracts, tracks, commands *)
(* and times.                                                              *)
(***************************************************************************)
EXTENDS ControlCommands, OperationalStateProofs

(***************************************************************************)
(* Commands                                                                *)
(***************************************************************************)
\* The publication of what a track releases.
LEMMA Releases ==
  ASSUME NEW A, NEW B, Twin(A, B), OneRevision(B), NEW a \in Authorizations,
         NEW X, X = Release(A, a), NEW Y, Y = Release(B, a)
  PROVE  Alike(A, B, X, Y) /\ (Y # Refused => Undecided(B, Y) /\ Y.tracks = B.tracks)
<1> DEFINE p == [contract |-> ContractOf[a.track], rev |-> a.cand, path |-> a.path, public |-> TRUE]
<1>1. p \in Publications
  BY StateConstants DEF Authorizations, Publications
<1>2. X = SavePublication(A, p) /\ Y = SavePublication(B, p)
  BY DEF Release
<1> HIDE DEF p
<1> QED BY <1>1, <1>2, SavesPublication DEF Undecided

\* The event of a transition.
EventOf(a, accepted, gen, kind, now) ==
  [track |-> a.track, rev |-> a.cand, review |-> a.review, gen |-> gen,
   accepted |-> accepted, kind |-> kind, at |-> now]

\* A state with one more event in both logs.
Logs(S, T, e) ==
  /\ T.reviews = S.reviews /\ T.auths = S.auths /\ T.tracks = S.tracks
  /\ T.audit = S.audit \cup {e} /\ T.outbox = S.outbox \cup {e}

\* The audit event and the outbox message of a transition.
LEMMA Records ==
  ASSUME NEW A, NEW B, Twin(A, B), OneRevision(B), NEW a, NEW accepted, NEW gen, NEW kind, NEW now,
         EventOf(a, accepted, gen, kind, now) \in EventRecords,
         NEW X, X = Record(A, a, accepted, gen, kind, now),
         NEW Y, Y = Record(B, a, accepted, gen, kind, now)
  PROVE  /\ Alike(A, B, X, Y)
         /\ Y # Refused => Logs(B, Y, EventOf(a, accepted, gen, kind, now))
<1> DEFINE e == EventOf(a, accepted, gen, kind, now)
           A1 == AppendAuditEvent(A, e)
           B1 == AppendAuditEvent(B, e)
<1>1. /\ X = IF A1 = Refused THEN Refused ELSE Enqueue(A1, e)
      /\ Y = IF B1 = Refused THEN Refused ELSE Enqueue(B1, e)
  BY DEF Record, Then, EventOf
<1>2. e \in EventRecords
  OBVIOUS
<1> HIDE DEF e
<1>3. /\ Alike(A, B, A1, B1)
      /\ B1 # Refused => /\ B1.reviews = B.reviews /\ B1.auths = B.auths
                         /\ B1.audit = B.audit \cup {e} /\ B1.outbox = B.outbox /\ B1.tracks = B.tracks
  BY <1>2, AppendsEvent
<1> HIDE DEF A1, B1
<1>4. CASE A1 = Refused /\ B1 = Refused
  BY <1>1, <1>4 DEF Alike
<1>5. CASE ~(A1 = Refused /\ B1 = Refused)
  <2>1. /\ Twin(A1, B1) /\ Grows(B, B1) /\ OneRevision(B1) /\ A1 # Refused /\ B1 # Refused
    BY <1>3, <1>5, AlikeGives
  <2>2. X = Enqueue(A1, e) /\ Y = Enqueue(B1, e)
    BY <1>1, <2>1
  <2>3. /\ Alike(A1, B1, X, Y)
        /\ Y # Refused => /\ Y.reviews = B1.reviews /\ Y.auths = B1.auths
                          /\ Y.audit = B1.audit /\ Y.outbox = B1.outbox \cup {e} /\ Y.tracks = B1.tracks
    BY <1>2, <2>1, <2>2, Enqueues
  <2>4. Alike(A, B, X, Y)
    BY <2>1, <2>3, AlikeTwice
  <2>5. ASSUME Y # Refused PROVE Logs(B, Y, e)
    BY <1>3, <2>1, <2>3, <2>5 DEF Logs
  <2> QED BY <2>4, <2>5 DEF e
<1> QED BY <1>4, <1>5

\* A state in which a track moved, and what else that changes.
Moves(S, T, t, n, e) ==
  /\ T.reviews = S.reviews /\ T.auths = S.auths
  /\ T.tracks = [S.tracks EXCEPT ![t] = n]
  /\ T.audit = S.audit \cup {e} /\ T.outbox = S.outbox \cup {e}

\* The track, its event in both logs, and no other track or decision changes.
LEMMA Transits ==
  ASSUME NEW A, NEW B, Twin(A, B), OneRevision(B), NEW t \in Tracks, NEW n \in TrackRecords,
         NEW a \in Authorizations, NEW release \in BOOLEAN, NEW accepted, NEW kind, NEW now,
         EventOf(a, accepted, n.gen, kind, now) \in EventRecords,
         NEW X, X = Transition(A, t, n, a, release, accepted, kind, now),
         NEW Y, Y = Transition(B, t, n, a, release, accepted, kind, now)
  PROVE  /\ Alike(A, B, X, Y)
         /\ Y # Refused => Moves(B, Y, t, n, EventOf(a, accepted, n.gen, kind, now))
<1> DEFINE e == EventOf(a, accepted, n.gen, kind, now)
           g == B.tracks[t].gen
           A1 == SaveReleaseTrack(A, t, g, n)
           B1 == SaveReleaseTrack(B, t, g, n)
           A2 == IF release THEN Release(A1, a) ELSE A1
           B2 == IF release THEN Release(B1, a) ELSE B1
<1>0. e \in EventRecords
  OBVIOUS
<1>1. A.tracks = B.tracks
  BY DEF Twin
<1>2. /\ X = IF A1 = Refused THEN Refused ELSE IF A2 = Refused THEN Refused
             ELSE Record(A2, a, accepted, n.gen, kind, now)
      /\ Y = IF B1 = Refused THEN Refused ELSE IF B2 = Refused THEN Refused
             ELSE Record(B2, a, accepted, n.gen, kind, now)
  BY <1>1 DEF Transition, Then
<1>3. /\ Alike(A, B, A1, B1)
      /\ B1 # Refused => Placed(B, B1, t, n)
  BY SavesTrack
<1> HIDE DEF e, A1, B1
<1>4. CASE A1 = Refused /\ B1 = Refused
  BY <1>2, <1>4 DEF Alike
<1>5. CASE ~(A1 = Refused /\ B1 = Refused)
  <2>1. /\ Twin(A1, B1) /\ Grows(B, B1) /\ OneRevision(B1) /\ A1 # Refused /\ B1 # Refused
    BY <1>3, <1>5, AlikeGives
  <2>2. Alike(A1, B1, A2, B2) /\ (B2 # Refused => Undecided(B1, B2) /\ B2.tracks = B1.tracks)
    <3>1. CASE release
      BY <2>1, <3>1, Releases
    <3>2. CASE ~release
      BY <2>1, <3>2, AlikeStays DEF Undecided
    <3> QED BY <3>1, <3>2
  <2> HIDE DEF A2, B2
  <2>3. CASE A2 = Refused /\ B2 = Refused
    BY <1>2, <2>1, <2>3 DEF Alike
  <2>4. CASE ~(A2 = Refused /\ B2 = Refused)
    <3>1. /\ Twin(A2, B2) /\ Grows(B1, B2) /\ OneRevision(B2) /\ A2 # Refused /\ B2 # Refused
      BY <2>2, <2>4, AlikeGives
    <3>2. /\ X = Record(A2, a, accepted, n.gen, kind, now)
          /\ Y = Record(B2, a, accepted, n.gen, kind, now)
      BY <1>2, <2>1, <3>1
    <3>3. Alike(A2, B2, X, Y) /\ (Y # Refused => Logs(B2, Y, e))
      BY <1>0, <3>1, <3>2, Records DEF e
    <3>4. Alike(A1, B1, X, Y)
      BY <2>1, <3>1, <3>3, AlikeTwice
    <3>5. Alike(A, B, X, Y)
      BY <2>1, <3>4, AlikeTwice
    <3>6. ASSUME Y # Refused PROVE Moves(B, Y, t, n, e)
      <4>1. Placed(B, B1, t, n)
        BY <1>3, <2>1
      <4>2. Undecided(B1, B2) /\ B2.tracks = B1.tracks
        BY <2>2, <3>1
      <4>3. Logs(B2, Y, e)
        BY <3>3, <3>6
      <4> QED BY <4>1, <4>2, <4>3 DEF Undecided, Placed, Logs, Moves
    <3> QED BY <3>5, <3>6 DEF e
  <2> QED BY <2>3, <2>4
<1> QED BY <1>4, <1>5

\* What a command does to the tracks and their history: nothing, a new track,
\* or one step of one track with its event.
Begins(S, T) ==
  /\ Undecided(S, T)
  /\ \E t \in Tracks :
       /\ S.tracks[t] = NoTrack
       /\ T.tracks = [S.tracks EXCEPT ![t] = T.tracks[t]]
       /\ T.tracks[t].gen = 0 /\ T.tracks[t].last = NoDecision
Advance(S, T, t, e, old, new) ==
  /\ old \in TrackRecords /\ new \in TrackRecords
  /\ T.tracks = [S.tracks EXCEPT ![t] = new]
  /\ T.audit = S.audit \cup {e} /\ T.outbox = S.outbox \cup {e}
  /\ e.track = t /\ e.gen = new.gen /\ new.gen = old.gen + 1
  /\ \E w \in S.reviews : w.id = e.review
  /\ new.last # NoDecision
  /\ \/ e.kind = "promoted" /\ new.last = old.last
     \/ /\ e.kind = "considered" /\ new.last.at = Review(S, e.review).at
        /\ old.last # NoDecision => old.last.at < new.last.at
Advances(S, T) ==
  /\ T.reviews = S.reviews /\ T.auths = S.auths
  /\ \E t \in Tracks, e \in EventRecords : Advance(S, T, t, e, S.tracks[t], T.tracks[t])
History(S, T) == Quiet(S, T) \/ Begins(S, T) \/ Advances(S, T)

\* The authorization of a review, and the review, where there is one.
LEMMA AuthorizationFound ==
  ASSUME NEW S \in States, ValidReferences(S), NEW id, \E x \in S.auths : x.review = id
  PROVE  /\ Authorization(S, id) \in S.auths /\ Authorization(S, id).review = id
         /\ Authorization(S, id) \in Authorizations
         /\ Review(S, id) \in S.reviews /\ Review(S, id).id = id
         /\ Review(S, id) \in ReviewRecords
<1>1. Authorization(S, id) \in {a \in S.auths : a.review = id}
  BY FoundIn DEF Authorization
<1>2. PICK a \in S.auths : a.review = id
  OBVIOUS
<1>3. AuthorizationBundle(S, a)
  BY DEF ValidReferences, EvidenceAuthorities
<1>4. \E w \in S.reviews : w.id = id
  BY <1>2, <1>3 DEF AuthorizationBundle
<1>5. Review(S, id) \in {w \in S.reviews : w.id = id}
  BY <1>4, FoundIn DEF Review
<1> QED BY <1>1, <1>5 DEF States

\* A state looks up the same records as its twin.
LEMMA TwinsFind ==
  ASSUME NEW A, NEW B, Twin(A, B), NEW id
  PROVE  Authorization(A, id) = Authorization(B, id) /\ Review(A, id) = Review(B, id)
<1>1. A.auths = B.auths /\ A.reviews = B.reviews
  BY DEF Twin
<1> QED BY <1>1 DEF Authorization, Review

\* The callback of Coordinate.
LEMMA Coordinates ==
  ASSUME NEW A, NEW B, Twin(A, B), OneRevision(B), ValidReferences(B),
         NEW c, c.track \in Tracks, c.accepted \in {"yes", "no"}, NEW now \in Nat,
         NEW X, X = Coordinate(c, A, now), NEW Y, Y = Coordinate(c, B, now)
  PROVE  /\ Alike(A, B, X, Y)
         /\ Y # Refused /\ OneAuthorization(B) /\ ValidReferences(Y) => History(B, Y)
<1> DEFINE a == Authorization(B, c.review)
           w == Review(B, c.review)
           t == B.tracks[c.track]
           d == DecisionOf(w, c.accepted)
           n == Considered(t, d)
           bad == \/ ~\E x \in B.auths : x.review = c.review
                  \/ t = NoTrack
                  \/ ~ValidTrack(t) \/ a.ref # RefOf[c.track]
                  \/ t.cand # NoRevision /\ t.current # a.base
           late == w.at > now + Skew \/ now >= w.expires \/ ConsiderFails(t, d)
           release == Accepts(d) /\ n.current = a.cand
           go(S) == Transition(S, c.track, n, a, release, c.accepted, "considered", now)
           done(S) == IF bad THEN Refused ELSE IF Replays(t, d) THEN S
                      ELSE IF late THEN Refused ELSE IF ~ConsiderChanges(t, d) THEN S
                      ELSE IF t.current # a.base THEN Refused ELSE go(S)
<1> HIDE DEF a, w, t, d, n, bad, late, release, go, done
<1>1. A.tracks = B.tracks /\ A.auths = B.auths /\ B \in States /\ A \in States
  BY DEF Twin
<1>2. Authorization(A, c.review) = a /\ Review(A, c.review) = w
  BY TwinsFind, SMTT(30) DEF a, w
<1>3. ASSUME NEW S, S.tracks = B.tracks, S.auths = B.auths,
             Authorization(S, c.review) = a, Review(S, c.review) = w
      PROVE  Coordinate(c, S, now) = done(S)
  BY <1>3, Zenon DEF Coordinate, a, w, t, d, n, bad, late, release, go, done
<1>4. X = done(A) /\ Y = done(B)
  BY <1>1, <1>2, <1>3 DEF a, w
<1>5. CASE bad \/ (~Replays(t, d) /\ (late \/ (ConsiderChanges(t, d) /\ t.current # a.base)))
  BY <1>4, <1>5 DEF Alike, done
<1>6. CASE ~bad /\ (Replays(t, d) \/ (~late /\ ~ConsiderChanges(t, d)))
  <2>1. X = A /\ Y = B
    BY <1>4, <1>6 DEF done
  <2>2. Quiet(B, B)
    BY DEF Quiet
  <2> QED BY <2>1, <2>2, AlikeStays DEF History
<1>7. CASE ~bad /\ ~Replays(t, d) /\ ~late /\ ConsiderChanges(t, d) /\ t.current = a.base
  <2>1. X = go(A) /\ Y = go(B)
    BY <1>4, <1>7, Zenon DEF done
  <2>2. /\ a \in B.auths /\ a.review = c.review /\ a \in Authorizations
        /\ w \in B.reviews /\ w.id = c.review /\ w \in ReviewRecords
    BY <1>1, <1>7, AuthorizationFound, Zenon DEF a, w, bad
  <2>3. t \in TrackRecords
    BY <1>1, <1>7 DEF States, t, bad
  <2>4. d \in Decisions /\ d.at = w.at /\ d.review = w.id
    BY <2>2 DEF Decisions, ReviewRecords, DecisionOf, d
  <2>5. n \in TrackRecords /\ n.gen = t.gen + 1 /\ n.last = d
    <3>1. n \in TrackRecords
      BY <1>7, <2>3, <2>4, ConsideredIsValid DEF n, bad, late
    <3>2. n.gen = t.gen + 1 /\ n.last = d
      BY <1>7, <2>3, <2>4 DEF Considered, TrackRecords, n
    <3> QED BY <3>1, <3>2
  <2>a. EventOf(a, c.accepted, n.gen, "considered", now) \in EventRecords
    <3>1. n.gen \in Nat
      BY <2>5, TrackConstants, SMTT(30) DEF TrackRecords
    <3> QED BY <2>2, <3>1 DEF EventOf, EventRecords, Authorizations
  <2>6. /\ Alike(A, B, X, Y)
        /\ Y # Refused => Moves(B, Y, c.track, n, EventOf(a, c.accepted, n.gen, "considered", now))
    <3>1. release \in BOOLEAN
      BY DEF release
    <3> QED BY <2>1, <2>2, <2>5, <2>a, <3>1, Transits, SMTT(30) DEF go
  <2>7. ASSUME Y # Refused, OneAuthorization(B), ValidReferences(Y) PROVE Advances(B, Y)
    <3> DEFINE e == EventOf(a, c.accepted, n.gen, "considered", now)
    <3>1. /\ e \in EventRecords /\ Y.reviews = B.reviews /\ Y.auths = B.auths
          /\ Y.tracks = [B.tracks EXCEPT ![c.track] = n]
          /\ Y.audit = B.audit \cup {e} /\ Y.outbox = B.outbox \cup {e}
      BY <2>6, <2>7, <2>a, SMTT(30) DEF Moves
    <3>2. Y.tracks[c.track] = n
      BY <1>1, <3>1 DEF States
    <3>3. n # NoTrack /\ n.last # NoDecision
      BY <2>4, <2>5, StateConstants, NoDecisionAssumption, SMTT(30)
    <3>4. PICK b \in Y.auths : b.review = n.last.review /\ b.track = c.track
      BY <2>7, <3>2, <3>3 DEF ValidReferences, EvidenceAuthorities
    <3>5. b = a
      BY <2>2, <2>4, <2>5, <2>7, <3>1, <3>4, Zenon DEF OneAuthorization
    <3>6. /\ e.track = c.track /\ e.gen = n.gen /\ e.review = c.review /\ e.kind = "considered"
      BY <2>2, <3>4, <3>5 DEF EventOf
    <3>7. t.last # NoDecision => t.last.at < n.last.at
      <4>1. ASSUME t.last # NoDecision PROVE t.last.at < d.at
        <5>1. t.last \in Decisions
          BY <2>3, <4>1 DEF TrackRecords
        <5>2. ~(d.at < t.last.at) /\ d.at # t.last.at
          BY <1>7, <4>1, SMTT(30) DEF ConsiderChanges, ConsiderFails, Stale, late
        <5> QED BY <2>4, <5>1, <5>2 DEF Decisions
      <4> QED BY <2>5, <4>1
    <3>8. n.last.at = Review(B, e.review).at
      BY <2>4, <2>5, <3>6, SMTT(30) DEF w
    <3>9. \E x \in B.reviews : x.id = e.review
      BY <2>2, <3>6
    <3>10. B.tracks[c.track] = t
      BY SMTT(30) DEF t
    <3> HIDE DEF e
    <3>11. Advance(B, Y, c.track, e, t, n)
      BY <2>3, <2>5, <3>1, <3>3, <3>6, <3>7, <3>8, <3>9 DEF Advance
    <3> QED BY <3>1, <3>2, <3>10, <3>11, SMTT(30) DEF Advances
  <2> QED BY <2>6, <2>7 DEF History
<1> QED BY <1>5, <1>6, <1>7

\* A promotion.
LEMMA Promotes ==
  ASSUME NEW A, NEW B, Twin(A, B), OneRevision(B), ValidReferences(B),
         NEW c, c.track \in Tracks, c.rev \in Revisions, NEW now \in Nat,
         NEW X, X = Promote(c, A, now), NEW Y, Y = Promote(c, B, now)
  PROVE  /\ Alike(A, B, X, Y)
         /\ Y # Refused /\ OneAuthorization(B) => History(B, Y)
<1> DEFINE t == B.tracks[c.track]
           a == Authorization(B, t.last.review)
           n == Promoted(t, c.rev)
           go(S) == Transition(S, c.track, n, a, TRUE, t.last.accepted, "promoted", now)
           done(S) == IF t = NoTrack \/ ~CanPromote(t, c.rev) THEN Refused
                      ELSE IF n = t THEN S ELSE go(S)
<1> HIDE DEF t, a, n, go, done
<1>1. A.tracks = B.tracks /\ A.auths = B.auths /\ B \in States /\ A \in States
  BY DEF Twin
<1>2. Authorization(A, t.last.review) = a
  BY TwinsFind, Zenon DEF a
<1>3. X = done(A) /\ Y = done(B)
  BY <1>1, <1>2 DEF Promote, t, a, n, go, done
<1>4. CASE t = NoTrack \/ ~CanPromote(t, c.rev)
  BY <1>3, <1>4 DEF Alike, done
<1>5. CASE ~(t = NoTrack \/ ~CanPromote(t, c.rev)) /\ n = t
  <2>1. X = A /\ Y = B
    BY <1>3, <1>5 DEF done
  <2>2. Quiet(B, B)
    BY Zenon DEF Quiet
  <2> QED BY <2>1, <2>2, AlikeStays DEF History
<1>6. CASE ~(t = NoTrack \/ ~CanPromote(t, c.rev)) /\ n # t
  <2>1. X = go(A) /\ Y = go(B)
    BY <1>3, <1>6, Zenon DEF done
  <2>2. t # NoTrack /\ CanPromote(t, c.rev) /\ t \in TrackRecords /\ t.last # NoDecision
    BY <1>1, <1>6, Zenon DEF States, CanPromote, t
  <2>3. PICK b \in B.auths : b.review = t.last.review /\ b.track = c.track
    BY <2>2, Zenon DEF ValidReferences, EvidenceAuthorities, t
  <2>4. /\ a \in B.auths /\ a.review = t.last.review /\ a \in Authorizations
        /\ \E w \in B.reviews : w.id = a.review
    BY <1>1, <2>3, AuthorizationFound DEF a
  <2>5. n \in TrackRecords
    BY <2>2, PromotedIsValid DEF n
  <2>6. n.gen = t.gen + 1 /\ n.last = t.last
    BY <1>6, <2>2 DEF Promoted, TrackRecords, n
  <2>7. t.last.accepted \in {"yes", "no"}
    BY <2>2 DEF TrackRecords, Decisions
  <2>8. EventOf(a, t.last.accepted, n.gen, "promoted", now) \in EventRecords
    <3>1. n.gen \in Nat
      BY <2>5, TrackConstants DEF TrackRecords
    <3> QED BY <2>4, <2>7, <3>1 DEF EventOf, EventRecords, Authorizations
  <2>9. /\ Alike(A, B, X, Y)
        /\ Y # Refused => Moves(B, Y, c.track, n, EventOf(a, t.last.accepted, n.gen, "promoted", now))
    <3>1. TRUE \in BOOLEAN
      BY SMTT(30)
    <3> QED BY <2>1, <2>4, <2>5, <2>8, <3>1, Transits, Zenon DEF go
  <2>10. ASSUME Y # Refused, OneAuthorization(B) PROVE Advances(B, Y)
    <3> DEFINE e == EventOf(a, t.last.accepted, n.gen, "promoted", now)
    <3>1. /\ e \in EventRecords /\ Y.reviews = B.reviews /\ Y.auths = B.auths
          /\ Y.tracks = [B.tracks EXCEPT ![c.track] = n]
          /\ Y.audit = B.audit \cup {e} /\ Y.outbox = B.outbox \cup {e}
      BY <2>8, <2>9, <2>10, Zenon DEF Moves
    <3>2. Y.tracks[c.track] = n
      BY <1>1, <3>1 DEF States
    <3>3. a = b
      BY <2>3, <2>4, <2>10 DEF OneAuthorization
    <3>4. /\ e.track = c.track /\ e.gen = n.gen /\ e.review = a.review /\ e.kind = "promoted"
      BY <2>3, <3>3 DEF EventOf
    <3>5. B.tracks[c.track] = t
      BY Zenon DEF t
    <3> HIDE DEF e
    <3>6. Advance(B, Y, c.track, e, t, n)
      BY <2>2, <2>4, <2>5, <2>6, <3>1, <3>4, Zenon DEF Advance
    <3> QED BY <3>1, <3>2, <3>5, <3>6, Zenon DEF Advances
  <2> QED BY <2>9, <2>10 DEF History
<1> QED BY <1>4, <1>5, <1>6

\* The configuration of a new track.
LEMMA Configures ==
  ASSUME NEW A, NEW B, Twin(A, B), OneRevision(B),
         NEW c, c.track \in Tracks, c.mode \in {"pinned", "following"}, c.rev \in Revisions,
         NEW X, X = SaveReleaseTrack(A, c.track, 0, NewTrack(c)),
         NEW Y, Y = SaveReleaseTrack(B, c.track, 0, NewTrack(c))
  PROVE  Alike(A, B, X, Y) /\ (Y # Refused => History(B, Y))
<1> DEFINE n == NewTrack(c)
<1>1. n \in TrackRecords /\ n.gen = 0 /\ n.last = NoDecision
  BY TrackConstants, SMTT(30) DEF NewTrack, TrackRecords, RevisionOrNone
<1> HIDE DEF n
<1>2. B \in States
  BY DEF Twin
<1>3. X = SaveReleaseTrack(A, c.track, 0, n) /\ Y = SaveReleaseTrack(B, c.track, 0, n)
  BY Zenon DEF n
<1>4. Alike(A, B, X, Y) /\ (Y # Refused => Placed(B, Y, c.track, n) /\ Follows(B.tracks[c.track], n))
  BY <1>1, <1>3, SavesTrack
<1>5. ASSUME Y # Refused PROVE History(B, Y)
  <2> DEFINE old == B.tracks[c.track]
  <2>a. Placed(B, Y, c.track, n) /\ Follows(old, n)
    BY <1>4, <1>5
  <2>b. old \in TrackRecords \cup {NoTrack} /\ B.tracks \in [Tracks -> TrackRecords \cup {NoTrack}]
    BY <1>2 DEF States
  <2>c. Y.tracks = [B.tracks EXCEPT ![c.track] = n] /\ Undecided(B, Y)
    BY <2>a, SMTT(30) DEF Placed
  <2>1. CASE old = n
    <3>1. Y.tracks = B.tracks
      BY <2>b, <2>c, <2>1
    <3> QED BY <2>c, <3>1 DEF History, Quiet, Undecided, OneReview, OneAuthorization
  <2>2. CASE old = NoTrack
    <3>1. Y.tracks[c.track] = n
      BY <2>b, <2>c
    <3>2. Begins(B, Y)
      BY <1>1, <2>c, <2>2, <3>1, Zenon DEF Begins
    <3> QED BY <3>2 DEF History
  <2> HIDE DEF old
  <2>3. CASE old # NoTrack /\ old # n /\ ValidTransition(old, n)
    BY <1>1, <2>b, <2>3, TransitionsAreSteps
  <2> QED BY <2>a, <2>1, <2>2, <2>3 DEF Follows
<1> QED BY <1>4, <1>5, Zenon

\* The callback of a sync.
LEMMA Syncs ==
  ASSUME NEW A, NEW B, Twin(A, B), OneRevision(B),
         NEW c, c.contract \in Contracts, c.rev \in Revisions, c.ref \in Names, NEW began \in Nat,
         NEW X, X = SyncRevision(c, A, began), NEW Y, Y = SyncRevision(c, B, began)
  PROVE  Alike(A, B, X, Y) /\ (Y # Refused => Quiet(B, Y))
<1> DEFINE v == [contract |-> c.contract, id |-> c.rev, level |-> "full", ref |-> "commit"]
           n == [contract |-> c.contract, rev |-> c.rev, ref |-> c.ref,
                 result |-> "success", error |-> "none", seen |-> began]
           A1 == SaveRevision(A, v)
           B1 == SaveRevision(B, v)
<1>1. v \in RevisionRecords /\ v.contract \in Contracts /\ v.level = "full"
  BY StateConstants DEF RevisionRecords, Owners, Levels
<1>2. n \in SyncRecords
  BY StateConstants, Zenon DEF SyncRecords
<1>3. /\ X = IF A1 = Refused THEN Refused ELSE SaveSyncRecord(A1, n)
      /\ Y = IF B1 = Refused THEN Refused ELSE SaveSyncRecord(B1, n)
  BY Zenon DEF SyncRevision, Then
<1> HIDE DEF v, n
<1>4. Alike(A, B, A1, B1) /\ (B1 # Refused => Rebound(B, B1))
  BY <1>1, SavesRevision
<1> HIDE DEF A1, B1
<1>5. CASE A1 = Refused /\ B1 = Refused
  BY <1>3, <1>5 DEF Alike
<1>6. CASE ~(A1 = Refused /\ B1 = Refused)
  <2>1. Twin(A1, B1) /\ Grows(B, B1) /\ OneRevision(B1) /\ A1 # Refused /\ B1 # Refused
    BY <1>4, <1>6, AlikeGives
  <2>2. X = SaveSyncRecord(A1, n) /\ Y = SaveSyncRecord(B1, n)
    BY <1>3, <2>1
  <2>3. Alike(A1, B1, X, Y) /\ (Y # Refused => Quiet(B1, Y))
    BY <1>2, <2>1, <2>2, SavesSyncRecord
  <2>4. Quiet(B, B1)
    BY <1>4, <2>1, ReboundQuiet
  <2>5. Y # Refused => Quiet(B, Y)
    BY <2>3, <2>4, Zenon DEF Quiet
  <2> QED BY <2>1, <2>3, <2>5, AlikeTwice
<1> QED BY <1>5, <1>6

\* A command changes two states that differ only in what was touched alike,
\* and moves the tracks by at most one recorded step.
LEMMA Runs ==
  ASSUME NEW A, NEW B, Twin(A, B), OneRevision(B), ValidReferences(B),
         NEW c \in CommandRecords, NEW began \in Nat, NEW now \in Nat,
         NEW X, X = Run(c, A, began, now), NEW Y, Y = Run(c, B, began, now)
  PROVE  /\ Alike(A, B, X, Y)
         /\ Y # Refused /\ OneAuthorization(B) /\ ValidReferences(Y) => History(B, Y)
<1>1. CASE c.op = "sync"
  <2>1. X = SyncRevision(c, A, began) /\ Y = SyncRevision(c, B, began)
    BY <1>1, Zenon DEF Run
  <2>2. c.contract \in Contracts /\ c.rev \in Revisions /\ c.ref \in Names
    BY <1>1 DEF CommandRecords
  <2> QED BY <2>1, <2>2, Syncs DEF History
<1>2. CASE c.op = "fail"
  <2> DEFINE n == [contract |-> c.contract, rev |-> c.rev, ref |-> c.ref,
                   result |-> "failure", error |-> c.error, seen |-> began]
  <2>1. X = SaveSyncRecord(A, n) /\ Y = SaveSyncRecord(B, n)
    BY <1>2, Zenon DEF Run, FailSync
  <2>2. n \in SyncRecords
    BY <1>2 DEF CommandRecords, SyncRecords
  <2> HIDE DEF n
  <2> QED BY <2>1, <2>2, SavesSyncRecord DEF History
<1>3. CASE c.op = "review"
  <2>1. X = SaveReview(A, ReviewOf(c)) /\ Y = SaveReview(B, ReviewOf(c))
    BY <1>3, ZenonT(60) DEF Run
  <2>2. ReviewOf(c) \in ReviewRecords
    BY <1>3 DEF CommandRecords, ReviewRecords, ReviewOf
  <2> QED BY <2>1, <2>2, SavesReview DEF History
<1>4. CASE c.op = "authorize"
  <2>1. X = SaveAuthorization(A, AuthorizationOf(c)) /\ Y = SaveAuthorization(B, AuthorizationOf(c))
    BY <1>4, Zenon DEF Run
  <2>2. AuthorizationOf(c) \in Authorizations
    BY <1>4 DEF CommandRecords, Authorizations, AuthorizationOf
  <2> QED BY <2>1, <2>2, SavesAuthorization DEF History
<1>5. CASE c.op = "track"
  <2>1. /\ X = SaveReleaseTrack(A, c.track, 0, NewTrack(c))
        /\ Y = SaveReleaseTrack(B, c.track, 0, NewTrack(c))
    BY <1>5, Zenon DEF Run
  <2>2. c.track \in Tracks /\ c.mode \in {"pinned", "following"} /\ c.rev \in Revisions
    BY <1>5 DEF CommandRecords
  <2> QED BY <2>1, <2>2, Configures
<1>6. CASE c.op = "coordinate"
  <2>1. X = Coordinate(c, A, now) /\ Y = Coordinate(c, B, now)
    BY <1>6, Zenon DEF Run
  <2>2. c.track \in Tracks /\ c.accepted \in {"yes", "no"}
    BY <1>6 DEF CommandRecords
  <2> QED BY <2>1, <2>2, Coordinates
<1>7. CASE c.op = "promote"
  <2>1. X = Promote(c, A, now) /\ Y = Promote(c, B, now)
    BY <1>7, Zenon DEF Run
  <2>2. c.track \in Tracks /\ c.rev \in Revisions
    BY <1>7, Zenon DEF CommandRecords
  <2> QED BY <2>1, <2>2, Promotes
<1>8. CASE c.op = "publish"
  <2>1. X = SavePublication(A, PublicationOf(c)) /\ Y = SavePublication(B, PublicationOf(c))
    BY <1>8, Zenon DEF Run
  <2>2. PublicationOf(c) \in Publications
    BY <1>8, Zenon DEF CommandRecords, Publications, PublicationOf
  <2>3. /\ Alike(A, B, X, Y)
        /\ Y # Refused => /\ Y.reviews = B.reviews /\ Y.auths = B.auths
                          /\ Y.audit = B.audit /\ Y.outbox = B.outbox /\ Y.tracks = B.tracks
    BY <2>1, <2>2, SavesPublication
  <2> QED BY <2>3 DEF History, Quiet, OneReview, OneAuthorization
<1> QED BY <1>1, <1>2, <1>3, <1>4, <1>5, <1>6, <1>7, <1>8, Zenon DEF CommandRecords

(***************************************************************************)
(* States                                                                  *)
(***************************************************************************)
\* A review that is known stays what it is.
LEMMA ReviewKept ==
  ASSUME NEW S, NEW T, OneReview(T), S.reviews \subseteq T.reviews,
         NEW id, \E w \in S.reviews : w.id = id
  PROVE  Review(T, id) = Review(S, id)
<1>1. PICK w \in S.reviews : w.id = id
  OBVIOUS
<1>2. {x \in S.reviews : x.id = id} = {w} /\ {x \in T.reviews : x.id = id} = {w}
  BY <1>1 DEF OneReview
<1> QED BY <1>2 DEF Review

\* The types of what the audit log and the tracks of a state hold.
LEMMA AuditTypes ==
  ASSUME NEW S \in States
  PROVE  /\ \A e \in S.audit : e.gen \in Nat /\ e.track \in Tracks
         /\ \A t \in Tracks : S.tracks[t] # NoTrack =>
              /\ S.tracks[t] \in TrackRecords /\ S.tracks[t].gen \in Nat
              /\ S.tracks[t].last # NoDecision => S.tracks[t].last.at \in Nat
<1>1. \A e \in S.audit : e \in EventRecords
  BY DEF States
<1>2. \A t \in Tracks : S.tracks[t] \in TrackRecords \cup {NoTrack}
  BY DEF States
<1>3. \A n \in TrackRecords : n.gen \in Nat /\ (n.last # NoDecision => n.last.at \in Nat)
  BY TrackConstants DEF TrackRecords, Decisions
<1>4. \A e \in EventRecords : e.gen \in Nat /\ e.track \in Tracks
  BY DEF EventRecords
<1> QED BY <1>1, <1>2, <1>3, <1>4

\* A review of a state has a time.
LEMMA ReviewTime ==
  ASSUME NEW S \in States, NEW id, \E w \in S.reviews : w.id = id
  PROVE  Review(S, id) \in S.reviews /\ Review(S, id).id = id /\ Review(S, id).at \in Nat
<1>1. Review(S, id) \in {w \in S.reviews : w.id = id}
  BY FoundIn DEF Review
<1>2. S.reviews \subseteq ReviewRecords
  BY Zenon DEF States
<1> QED BY <1>1, <1>2 DEF ReviewRecords

\* The tracks and logs stay: a sound state stays sound.
LEMMA QuietSound ==
  ASSUME NEW S \in States, NEW T \in States, Sound(S), Grows(S, T), Quiet(S, T)
  PROVE  Sound(T)
<1>1. OneRevision(T) /\ OneReview(T) /\ OneAuthorization(T) /\ T.audit = T.outbox
  BY DEF Sound, Quiet, Grows
<1>2. T.audit = S.audit /\ T.tracks = S.tracks /\ S.reviews \subseteq T.reviews
  BY Zenon DEF Quiet, Grows
<1>3. OneEvent(T) /\ GenerationsTaken(T)
  BY <1>2 DEF Sound, OneEvent, GenerationsTaken, Events
<1>4. EventsReviewed(T)
  BY <1>2, Zenon DEF Sound, EventsReviewed
<1>5. \A e \in T.audit : Review(T, e.review) = Review(S, e.review)
  BY <1>1, <1>2, ReviewKept, SMTT(30) DEF Sound, EventsReviewed
<1>6. NoneAfterLast(T)
  BY <1>2, <1>5, Zenon DEF Sound, NoneAfterLast, Considerations
<1>7. InReviewOrder(T)
  BY <1>2, <1>5, Zenon DEF Sound, InReviewOrder, Considerations
<1> QED BY <1>1, <1>3, <1>4, <1>6, <1>7, Zenon DEF Sound

\* A new track has no history.
LEMMA BeginsSound ==
  ASSUME NEW S \in States, NEW T \in States, Sound(S), ReferencesOwned(S), Grows(S, T), Begins(S, T)
  PROVE  Sound(T)
<1>1. T.reviews = S.reviews /\ T.auths = S.auths /\ T.audit = S.audit /\ T.outbox = S.outbox
  BY DEF Begins, Undecided
<1>2. PICK t \in Tracks : /\ S.tracks[t] = NoTrack
                          /\ T.tracks = [S.tracks EXCEPT ![t] = T.tracks[t]]
                          /\ T.tracks[t].gen = 0 /\ T.tracks[t].last = NoDecision
  BY DEF Begins
<1>3. \A u \in Tracks \ {t} : T.tracks[u] = S.tracks[u]
  BY <1>2, Zenon DEF States
<1>4. \A e \in S.audit : e.track \in Tracks \ {t}
  BY <1>2, AuditTypes, SMTT(30) DEF ReferencesOwned
<1>5. OneRevision(T) /\ OneReview(T) /\ OneAuthorization(T) /\ T.audit = T.outbox /\ OneEvent(T)
  BY <1>1, Zenon DEF Sound, Grows, OneReview, OneAuthorization, OneEvent
<1>6. GenerationsTaken(T)
  <2> SUFFICES ASSUME NEW u \in Tracks, T.tracks[u] # NoTrack
               PROVE  \E m \in 0..(T.tracks[u].gen + 1) :
                        {e.gen : e \in Events(T, u)} = m..T.tracks[u].gen
    BY DEF GenerationsTaken
  <2>1. CASE u = t
    <3>1. Events(T, u) = {}
      BY <1>1, <1>4, <2>1 DEF Events
    <3> DEFINE G == {e.gen : e \in Events(T, u)}
               k == T.tracks[u].gen
    <3>2. G = {}
      BY <3>1
    <3>3. k = 0
      BY <1>2, <2>1
    <3> HIDE DEF G, k
    <3>4. 1 \in 0..(k + 1) /\ G = 1..k
      BY <3>2, <3>3
    <3>5. \E m \in 0..(k + 1) : G = m..k
      BY <3>4, Zenon
    <3> QED BY <3>5 DEF G, k
  <2>2. CASE u # t
    <3>1. T.tracks[u] = S.tracks[u] /\ Events(T, u) = Events(S, u)
      BY <1>1, <1>3, <2>2, SMTT(30) DEF Events
    <3> QED BY <3>1, Zenon DEF Sound, GenerationsTaken
  <2> QED BY <2>1, <2>2, Zenon
<1>7. EventsReviewed(T)
  BY <1>1 DEF Sound, EventsReviewed
<1>8. \A id : Review(T, id) = Review(S, id)
  BY <1>1, Zenon DEF Review
<1>9. NoneAfterLast(T)
  BY <1>1, <1>3, <1>4, <1>8, Zenon DEF Sound, NoneAfterLast, Considerations
<1>10. InReviewOrder(T)
  BY <1>1, <1>8, Zenon DEF Sound, InReviewOrder, Considerations
<1> QED BY <1>5, <1>6, <1>7, <1>9, <1>10, Zenon DEF Sound

\* A step of a track continues its history.
LEMMA AdvancesSound ==
  ASSUME NEW S \in States, NEW T \in States, Sound(S), ReferencesOwned(S), Grows(S, T), Advances(S, T)
  PROVE  Sound(T)
<1>1. T.reviews = S.reviews /\ T.auths = S.auths
  BY DEF Advances
<1>2. PICK t \in Tracks, e \in EventRecords : Advance(S, T, t, e, S.tracks[t], T.tracks[t])
  BY SMTT(30) DEF Advances
<1> DEFINE old == S.tracks[t]
           new == T.tracks[t]
<1>3. /\ old \in TrackRecords /\ new \in TrackRecords /\ old # NoTrack
      /\ T.tracks = [S.tracks EXCEPT ![t] = new]
      /\ T.audit = S.audit \cup {e} /\ T.outbox = S.outbox \cup {e}
      /\ e.track = t /\ e.gen = new.gen /\ new.gen = old.gen + 1 /\ new.last # NoDecision
      /\ \E w \in S.reviews : w.id = e.review
  BY <1>2, StateConstants, Zenon DEF Advance
<1>4. \/ e.kind = "promoted" /\ new.last = old.last
      \/ /\ e.kind = "considered" /\ new.last.at = Review(S, e.review).at
         /\ old.last # NoDecision => old.last.at < new.last.at
  BY <1>2, Zenon DEF Advance
<1>a. \A u \in Tracks \ {t} : T.tracks[u] = S.tracks[u]
  BY <1>3, Zenon DEF States
<1> HIDE DEF old, new
<1>b. old.gen \in Nat /\ new.gen \in Nat /\ new.last.at \in Nat /\ (old.last # NoDecision => old.last.at \in Nat)
  <2>1. \A n \in TrackRecords : n.gen \in Nat /\ (n.last # NoDecision => n.last.at \in Nat)
    BY TrackConstants, SMTT(30) DEF TrackRecords, Decisions
  <2> QED BY <1>3, <2>1
<1>5. OneRevision(T) /\ OneReview(T) /\ OneAuthorization(T) /\ T.audit = T.outbox
  BY <1>1, <1>3, Zenon DEF Sound, Grows, OneReview, OneAuthorization
<1>6. PICK m \in 0..(old.gen + 1) : {f.gen : f \in Events(S, t)} = m..old.gen
  BY <1>3, Zenon DEF Sound, GenerationsTaken, old
<1>7. \A f \in S.audit : f.track = t => f.gen \in m..old.gen
  BY <1>6 DEF Events
<1>8. \A f \in S.audit : f.track = t => f.gen \in Nat /\ f.gen < e.gen
  BY <1>3, <1>7, <1>b
<1>9. OneEvent(T)
  BY <1>3, <1>8, <1>b DEF Sound, OneEvent
<1>10. GenerationsTaken(T)
  <2> SUFFICES ASSUME NEW u \in Tracks, T.tracks[u] # NoTrack
               PROVE  \E k \in 0..(T.tracks[u].gen + 1) :
                        {f.gen : f \in Events(T, u)} = k..T.tracks[u].gen
    BY DEF GenerationsTaken
  <2>1. CASE u = t
    <3>1. Events(T, u) = Events(S, t) \cup {e}
      BY <1>3, <2>1 DEF Events
    <3>2. {f.gen : f \in Events(T, u)} = {f.gen : f \in Events(S, t)} \cup {e.gen}
      BY <3>1, Zenon
    <3>3. (m..old.gen) \cup {e.gen} = m..new.gen
      BY <1>3, <1>b, SMTT(30)
    <3>4. {f.gen : f \in Events(T, u)} = m..new.gen /\ m \in 0..(new.gen + 1)
      BY <1>3, <1>6, <1>b, <3>2, <3>3, SMTT(30)
    <3>5. T.tracks[u] = new
      BY <2>1 DEF new
    <3> QED BY <3>4, <3>5, Zenon
  <2>2. CASE u # t
    <3>1. T.tracks[u] = S.tracks[u] /\ Events(T, u) = Events(S, u)
      BY <1>3, <1>a, <2>2, Zenon DEF Events
    <3> QED BY <3>1, Zenon DEF Sound, GenerationsTaken
  <2> QED BY <2>1, <2>2, Zenon
<1>11. EventsReviewed(T)
  BY <1>1, <1>3 DEF Sound, EventsReviewed
<1>12. \A id : Review(T, id) = Review(S, id)
  BY <1>1, Zenon DEF Review
<1>13. \A f \in S.audit : Review(S, f.review).at \in Nat /\ f.track \in Tracks
  BY ReviewTime, AuditTypes, Zenon DEF Sound, EventsReviewed
<1>14. \A f \in Considerations(S) : f.track = t =>
         old.last # NoDecision /\ Review(S, f.review).at <= old.last.at
  BY Zenon DEF Sound, NoneAfterLast, old
<1>15. ASSUME NEW f \in Considerations(T)
       PROVE  /\ T.tracks[f.track].last # NoDecision
              /\ Review(S, f.review).at <= T.tracks[f.track].last.at
  <2>1. f \in S.audit \cup {e} /\ f.kind = "considered"
    BY <1>3, Zenon DEF Considerations
  <2>2. CASE f \in S.audit /\ f.track # t
    <3>1. T.tracks[f.track] = S.tracks[f.track] /\ f \in Considerations(S)
      BY <1>13, <1>a, <2>1, <2>2, Zenon DEF Considerations
    <3> QED BY <3>1, Zenon DEF Sound, NoneAfterLast
  <2>3. CASE f \in S.audit /\ f.track = t
    <3>1. f \in Considerations(S)
      BY <2>1, <2>3, Zenon DEF Considerations
    <3>2. old.last # NoDecision /\ Review(S, f.review).at <= old.last.at
      BY <1>14, <2>3, <3>1, Zenon
    <3>3. Review(S, f.review).at <= new.last.at
      BY <1>4, <1>13, <1>b, <2>3, <3>2, SMTT(30)
    <3> QED BY <1>3, <2>3, <3>3 DEF new
  <2>4. CASE f = e
    <3>1. Review(S, f.review).at <= new.last.at
      BY <1>4, <1>b, <2>1, <2>4, SMTT(30)
    <3> QED BY <1>3, <2>4, <3>1, Zenon DEF new
  <2> QED BY <2>1, <2>2, <2>3, <2>4, Zenon
<1>16. NoneAfterLast(T)
  BY <1>12, <1>15, Zenon DEF NoneAfterLast
<1>17. ASSUME NEW f \in Considerations(T), NEW g \in Considerations(T), f.track = g.track, f.gen < g.gen
       PROVE  Review(S, f.review).at < Review(S, g.review).at
  <2>1. f \in S.audit \cup {e} /\ g \in S.audit \cup {e} /\ f.kind = "considered" /\ g.kind = "considered"
    BY <1>3, Zenon DEF Considerations
  <2>2. CASE f \in S.audit /\ g \in S.audit
    BY <1>17, <2>1, <2>2, Zenon DEF Sound, InReviewOrder, Considerations
  <2>3. CASE f = e
    BY <1>3, <1>8, <1>17, <1>b, <2>1, <2>3, SMTT(30)
  <2>4. CASE f \in S.audit /\ g = e
    <3>1. f \in Considerations(S) /\ f.track = t
      BY <1>3, <1>17, <2>1, <2>4, SMTT(30) DEF Considerations
    <3>2. old.last # NoDecision /\ Review(S, f.review).at <= old.last.at
      BY <1>14, <3>1, Zenon
    <3>3. new.last.at = Review(S, e.review).at /\ old.last.at < new.last.at
      BY <1>4, <2>1, <2>4, <3>2
    <3> QED BY <1>13, <1>b, <2>4, <3>2, <3>3, SMTT(30)
  <2> QED BY <2>1, <2>2, <2>3, <2>4, SMTT(30)
<1>18. InReviewOrder(T)
  BY <1>12, <1>17, SMTT(30) DEF InReviewOrder
<1> QED BY <1>5, <1>9, <1>10, <1>11, <1>16, <1>18 DEF Sound

\* What the store writes and reads back.
Whole(S) == S \in States /\ Sound(S) /\ ValidTracks(S) /\ ValidReferences(S)

\* Evidence that is kept from a state to the next one.
Evolves(S, T) ==
  /\ S.reviews \subseteq T.reviews /\ S.auths \subseteq T.auths
  /\ S.syncs \subseteq T.syncs /\ S.audit \subseteq T.audit
  /\ \A v \in S.revs : \E w \in T.revs : Keeps(v, w)

\* A state without its marks.
LEMMA PlainTwin ==
  ASSUME NEW S \in States
  PROVE  Twin(Plain(S), S) /\ Plain(S) \in States /\ Plain(S).touched = {}
<1>1. /\ Plain(S) \in States /\ Plain(S).touched = {} /\ Plain(S).revs = S.revs
      /\ Plain(S).reviews = S.reviews /\ Plain(S).syncs = S.syncs /\ Plain(S).auths = S.auths
      /\ Plain(S).pubs = S.pubs /\ Plain(S).audit = S.audit /\ Plain(S).outbox = S.outbox
      /\ Plain(S).tracks = S.tracks
  BY DEF States, Plain
<1> QED BY <1>1 DEF Twin

\* What the validation looks at does not depend on the marks.
LEMMA TwinsValid ==
  ASSUME NEW A, NEW B, Twin(A, B)
  PROVE  /\ ValidTracks(A) <=> ValidTracks(B)
         /\ ValidReferences(A) <=> ValidReferences(B)
         /\ Sound(A) <=> Sound(B)
<1>1. /\ A.revs = B.revs /\ A.reviews = B.reviews /\ A.syncs = B.syncs
      /\ A.auths = B.auths /\ A.pubs = B.pubs /\ A.audit = B.audit
      /\ A.outbox = B.outbox /\ A.tracks = B.tracks
  BY DEF Twin
<1>2. ValidTracks(A) <=> ValidTracks(B)
  BY <1>1 DEF ValidTracks
<1>3. /\ \A c, r : RevisionsFor(A, c, r) = RevisionsFor(B, c, r)
      /\ \A id : Review(A, id) = Review(B, id)
  BY <1>1 DEF RevisionsFor, Review
<1>4. \A c, r : (Owned(A, c, r) <=> Owned(B, c, r)) /\ (Complete(A, c, r) <=> Complete(B, c, r))
  BY <1>3 DEF Owned, Complete
<1>5. UniquePublicPaths(A) <=> UniquePublicPaths(B)
  BY <1>1 DEF UniquePublicPaths
<1>6. ReferencesOwned(A) <=> ReferencesOwned(B)
  BY <1>1, <1>4, Zenon DEF ReferencesOwned
<1>7. \A a : AuthorizationBundle(A, a) <=> AuthorizationBundle(B, a)
  <2>1. ASSUME NEW a PROVE AuthorizationBundle(A, a) <=> AuthorizationBundle(B, a)
    <3> DEFINE c == ContractOf[a.track]
    <3>1. /\ (Complete(A, c, a.base) <=> Complete(B, c, a.base))
          /\ (Complete(A, c, a.cand) <=> Complete(B, c, a.cand))
          /\ RevisionsFor(A, c, a.cand) = RevisionsFor(B, c, a.cand)
      BY <1>3, <1>4, Zenon
    <3> QED BY <1>1, <3>1, Zenon DEF AuthorizationBundle
  <2> QED BY <2>1, Zenon
<1>8. \A a, x, g, k : Recorded(A, a, x, g, k) <=> Recorded(B, a, x, g, k)
  BY <1>1, Zenon DEF Recorded
<1>9. \A t, a : DecisionBundle(A, t, a) <=> DecisionBundle(B, t, a)
  <2>1. ASSUME NEW t, NEW a PROVE DecisionBundle(A, t, a) <=> DecisionBundle(B, t, a)
    BY <1>1, <1>3, <1>8, Zenon DEF DecisionBundle
  <2> QED BY <2>1, Zenon
<1>10. EvidenceAuthorities(A) <=> EvidenceAuthorities(B)
  BY <1>1, <1>7, <1>9, ZenonT(60) DEF EvidenceAuthorities
<1>11. /\ OneRevision(A) <=> OneRevision(B)
       /\ OneReview(A) <=> OneReview(B)
       /\ OneAuthorization(A) <=> OneAuthorization(B)
       /\ OneEvent(A) <=> OneEvent(B)
       /\ EventsReviewed(A) <=> EventsReviewed(B)
  BY <1>1, Zenon DEF OneRevision, OneReview, OneAuthorization, OneEvent, EventsReviewed
<1>12. /\ \A t : Events(A, t) = Events(B, t)
       /\ Considerations(A) = Considerations(B)
  BY <1>1, Zenon DEF Events, Considerations
<1>13. GenerationsTaken(A) <=> GenerationsTaken(B)
  BY <1>1, <1>12, SMTT(30) DEF GenerationsTaken
<1>14. (NoneAfterLast(A) <=> NoneAfterLast(B)) /\ (InReviewOrder(A) <=> InReviewOrder(B))
  BY <1>1, <1>3, <1>12 DEF NoneAfterLast, InReviewOrder
<1>15. ValidReferences(A) <=> ValidReferences(B)
  BY <1>5, <1>6, <1>10, ZenonT(60) DEF ValidReferences
<1>16. Sound(A) <=> Sound(B)
  BY <1>1, <1>11, <1>13, <1>14 DEF Sound
<1> QED BY <1>2, <1>15, <1>16

\* A command that moves the tracks by a recorded step leaves a sound state.
LEMMA HistorySound ==
  ASSUME NEW S, Whole(S), NEW T \in States, Grows(S, T), History(S, T)
  PROVE  Sound(T)
BY QuietSound, BeginsSound, AdvancesSound, Zenon DEF Whole, History, ValidReferences

\* What the validation of the changes asks of a smaller set of blobs it asks
\* of a larger one, and of the state without its marks.
LEMMA ChangesBoundMore ==
  ASSUME NEW S, NEW A, NEW B, Twin(A, B), NEW P, Twin(P, S),
         NEW few, NEW many, few \subseteq many, ChangesBound(S, B, few)
  PROVE  ChangesBound(P, A, many)
<1>1. /\ A.revs = B.revs /\ A.auths = B.auths /\ A.tracks = B.tracks
      /\ P.auths = S.auths /\ P.tracks = S.tracks
  BY DEF Twin
<1>2. \A v : EvidenceOK(v, few) => EvidenceOK(v, many)
  BY DEF EvidenceOK
<1>3. \A a : Bound(S, B, a, few) => Bound(P, A, a, many)
  BY <1>1, <1>2, Zenon DEF Bound
<1> QED BY <1>1, <1>3, Zenon DEF ChangesBound

\* A committed command leaves a whole state that keeps the evidence, and that
\* is what the command makes of the unmarked state when no blob is missing.
LEMMA Commits ==
  ASSUME NEW S, Whole(S), NEW c \in CommandRecords, NEW began \in Nat, NEW now \in Nat,
         NEW present \in SUBSET Revisions,
         NEW Z, Z = Committed(S, Run(c, S, began, now), present), Z # Refused
  PROVE  /\ Whole(Z) /\ Z.touched = {} /\ Evolves(S, Z)
         /\ Z = Committed(Plain(S), Run(c, Plain(S), began, now), Revisions)
<1> DEFINE P == Plain(S)
           X == Run(c, P, began, now)
           Y == Run(c, S, began, now)
<1>1. /\ S \in States /\ Sound(S) /\ ValidTracks(S) /\ ValidReferences(S)
      /\ OneRevision(S) /\ OneAuthorization(S)
  BY Zenon DEF Whole, Sound
<1>2. Twin(P, S)
  BY <1>1, PlainTwin
<1> HIDE DEF P
<1>3. Alike(P, S, X, Y) /\ (Y # Refused /\ OneAuthorization(S) /\ ValidReferences(Y) => History(S, Y))
  BY <1>1, <1>2, Runs
<1> HIDE DEF X, Y
<1>4. Z = Committed(S, Y, present)
  BY Zenon DEF Y
<1>5. /\ Y # Refused /\ Z = Plain(Y) /\ ValidTracks(Y) /\ ValidReferences(Y)
      /\ Y.touched \subseteq {Key(v) : v \in Y.revs}
      /\ \A v \in Y.revs : Key(v) \in Y.touched => EvidenceOK(v, present)
      /\ ChangesBound(S, Y, present)
  BY <1>4, Zenon DEF Committed, Then, Check
<1>6. Twin(X, Y) /\ Grows(S, Y) /\ X # Refused /\ X \in States /\ Y \in States
  <2>1. Twin(X, Y) /\ Grows(S, Y)
    BY <1>3, <1>5, Zenon DEF Alike
  <2> QED BY <2>1, StateConstants, Zenon DEF Twin
<1>7. Sound(Y)
  BY <1>1, <1>3, <1>5, <1>6, HistorySound, Zenon DEF Whole
<1>8. Twin(Z, Y) /\ Z \in States /\ Z.touched = {}
  BY <1>5, <1>6, PlainTwin, Zenon
<1>9. Whole(Z)
  BY <1>5, <1>7, <1>8, TwinsValid, Zenon DEF Whole
<1>10. Evolves(S, Z)
  BY <1>6, <1>8, ZenonT(60) DEF Evolves, Grows, Twin
<1>11. Z = Committed(P, X, Revisions)
  <2>1. ValidTracks(X) /\ ValidReferences(X)
    BY <1>5, <1>6, TwinsValid, Zenon
  <2>2. ASSUME NEW v \in X.revs, Key(v) \in X.touched PROVE EvidenceOK(v, Revisions)
    BY <1>5, <1>6, <2>2, ZenonT(60) DEF Twin, EvidenceOK
  <2>3. ChangesBound(P, X, Revisions)
    BY <1>2, <1>5, <1>6, ChangesBoundMore, SMTT(30)
  <2>4. X.touched \subseteq {Key(v) : v \in X.revs}
    BY <1>5, <1>6, Zenon DEF Twin
  <2>5. Committed(P, X, Revisions) = Plain(X)
    BY <1>6, <2>1, <2>2, <2>3, <2>4, Zenon DEF Committed, Then, Check
  <2>6. Plain(X) = Plain(Y)
    BY <1>6, Zenon DEF Twin, States, Plain
  <2> QED BY <1>5, <2>5, <2>6, Zenon
<1> QED BY <1>8, <1>9, <1>10, <1>11, Zenon DEF P, X

\* What a track released is public at its authorized path, and alone there.
LEMMA ReleasesAlone ==
  ASSUME NEW S, Whole(S), NEW t \in Tracks, NEW n, n = S.tracks[t], n # NoTrack,
         n.last # NoDecision, Accepts(n.last), n.cand = NoRevision
  PROVE  \E a \in S.auths :
           /\ a.review = n.last.review /\ a.cand = n.current
           /\ {<<q.contract, q.rev>> : q \in Claims(S, a.path)} = {<<ContractOf[t], n.current>>}
<1>1. S \in States /\ ValidTrack(n) /\ UniquePublicPaths(S) /\ EvidenceAuthorities(S)
  BY DEF Whole, ValidTracks, ValidReferences
<1>2. n \in TrackRecords
  BY <1>1, SMTT(30) DEF States
<1>3. n.last \in Decisions /\ n.last.rev \in Revisions /\ n.mode \in {"pinned", "following"}
  BY <1>2, Zenon DEF TrackRecords, Decisions
<1>4. n.current = n.last.rev
  BY <1>1, <1>3, TrackConstants, Zenon DEF ValidTrack
<1>5. PICK a \in S.auths : a.review = n.last.review /\ a.track = t /\ DecisionBundle(S, n, a)
  BY <1>1, SMTT(30) DEF EvidenceAuthorities
<1>6. a.cand = n.current
  BY <1>4, <1>5, Zenon DEF DecisionBundle
<1>7. n.mode = "following" \/ WasPromoted(n)
  BY <1>3, <1>4, SMTT(30) DEF WasPromoted
<1> DEFINE p == [contract |-> ContractOf[t], rev |-> a.cand, path |-> a.path, public |-> TRUE]
<1>8. p \in S.pubs
  BY <1>5, <1>7, Zenon DEF DecisionBundle
<1>9. p.public /\ p.path = a.path /\ <<p.contract, p.rev>> = <<ContractOf[t], a.cand>>
  BY Zenon
<1> HIDE DEF p
<1>10. Claims(S, a.path) = {p}
  BY <1>1, <1>8, <1>9, Zenon DEF Claims, UniquePublicPaths
<1>11. {<<q.contract, q.rev>> : q \in Claims(S, a.path)} = {<<p.contract, p.rev>>}
  BY <1>10, Zenon
<1>12. {<<q.contract, q.rev>> : q \in Claims(S, a.path)} = {<<ContractOf[t], n.current>>}
  BY <1>6, <1>9, <1>11, Zenon
<1> QED BY <1>5, <1>6, <1>12, Zenon

\* Deciding again what a track last decided changes nothing, at any time.
LEMMA Retries ==
  ASSUME NEW S, Whole(S), S.touched = {}, NEW c \in CommandRecords, c.op = "coordinate",
         NEW present, EvidenceSelected(c, S, present),
         NEW n, n = S.tracks[c.track], n # NoTrack, n.last # NoDecision,
         n.last.review = c.review, n.last.accepted = c.accepted, NEW time
  PROVE  Plain(S) = Committed(S, Coordinate(c, S, time), present)
<1> DEFINE a == Authorization(S, c.review)
           w == Review(S, c.review)
           d == DecisionOf(w, c.accepted)
<1>1. /\ S \in States /\ Sound(S) /\ ValidTracks(S) /\ ValidReferences(S) /\ EvidenceAuthorities(S)
      /\ OneReview(S) /\ OneAuthorization(S)
  BY Zenon DEF Whole, Sound, ValidReferences
<1>2. c.track \in Tracks /\ ValidTrack(n)
  BY <1>1, Zenon DEF CommandRecords, ValidTracks
<1>3. \E x \in S.auths : x.review = c.review /\ x.track = c.track
  BY SMTT(30) DEF EvidenceSelected
<1>4. /\ a \in S.auths /\ a.review = c.review
      /\ w \in S.reviews /\ w.id = c.review /\ w \in ReviewRecords
  BY <1>1, <1>3, AuthorizationFound, Zenon
<1>5. PICK b \in S.auths : b.review = n.last.review /\ b.track = c.track /\ DecisionBundle(S, n, b)
  BY <1>1, <1>2, Zenon DEF EvidenceAuthorities
<1>6. b = a /\ a.track = c.track
  BY <1>1, <1>4, <1>5, Zenon DEF OneAuthorization
<1>7. AuthorizationBundle(S, a)
  BY <1>1, <1>4, Zenon DEF EvidenceAuthorities
<1>8. a.ref = RefOf[c.track]
  BY <1>6, <1>7, Zenon DEF AuthorizationBundle
<1>9. w.cand = a.cand
  <2>1. PICK x \in S.reviews : x.id = a.review /\ x.cand = a.cand
    BY <1>7, Zenon DEF AuthorizationBundle
  <2>2. x = w
    BY <1>1, <1>4, <2>1, Zenon DEF OneReview
  <2> QED BY <2>1, <2>2, SMTT(30)
<1>10. /\ n.cand # NoRevision => n.current = a.base
       /\ n.last.rev = a.cand /\ n.last.verdict = w.verdict /\ n.last.at = w.at
  BY <1>4, <1>5, <1>6, Zenon DEF DecisionBundle
<1> HIDE DEF a, w
<1>11. n.last = d
  <2>1. n \in TrackRecords
    BY <1>1, <1>2, Zenon DEF States
  <2>2. n.last \in Decisions
    BY <2>1 DEF TrackRecords
  <2>3. d \in [rev : {n.last.rev}, review : {n.last.review}, verdict : {n.last.verdict},
               accepted : {n.last.accepted}, at : {n.last.at}]
    BY <1>4, <1>9, <1>10, Zenon DEF DecisionOf
  <2> QED BY <2>2, <2>3, SMTT(30) DEF Decisions
<1>12. Coordinate(c, S, time) = S
  <2> HIDE DEF d
  <2>1. Replays(n, d)
    BY <1>11, SMTT(30) DEF Replays
  <2> QED BY <1>2, <1>3, <1>8, <1>10, <2>1, Zenon DEF Coordinate, a, w, d
<1>13. S # Refused
  BY <1>1, StateConstants, Zenon
<1>14. ChangesBound(S, S, present)
  BY SMTT(30) DEF ChangesBound
<1>15. Committed(S, S, present) = Plain(S)
  BY <1>1, <1>13, <1>14, Zenon DEF Committed, Then, Check
<1> QED BY <1>12, <1>15, SMTT(30)
===============================================================================
