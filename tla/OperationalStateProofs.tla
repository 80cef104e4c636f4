----------------------- MODULE OperationalStateProofs ------------------------
(***************************************************************************)
(* What the operations on a release track guarantee, and what the          *)
(* operations of a transaction keep of the operational state, for every    *)
(* set of revisions, reviews, contracts and tracks and every generation    *)
(* limit.                                                                  *)
(***************************************************************************)
EXTENDS OperationalState, TLAPS

(***************************************************************************)
(* Release tracks                                                          *)
(***************************************************************************)
\* ConsiderReleaseDecision, when it returns no error, returns a track that
\* ValidateReleaseTrack accepts, with its generation in range: the counter
\* cannot wrap.
THEOREM ConsideredIsValid ==
  ASSUME NEW t \in TrackRecords, NEW d \in Decisions, ~ConsiderFails(t, d)
  PROVE  Considered(t, d) \in TrackRecords /\ ValidTrack(Considered(t, d))
<1>1. CASE ~ConsiderChanges(t, d)
  BY <1>1 DEF Considered, ConsiderFails
<1>2. CASE ConsiderChanges(t, d)
  <2>1. t.gen + 1 \in 0..MaxGeneration /\ d.at # 0
    BY <1>2, TrackConstants DEF ConsiderFails, ConsiderChanges, TrackRecords
  <2>2. d # NoDecision /\ ValidDecision(d)
    BY NoDecisionAssumption DEF ConsiderFails
  <2>3. CASE ~Accepts(d) \/ t.mode = "pinned"
    <3> DEFINE n == [t EXCEPT !.gen = t.gen + 1, !.last = d, !.cand = d.rev]
    <3>1. Considered(t, d) = n
      BY <1>2, <2>3 DEF Considered
    <3>2. n \in TrackRecords
      BY <2>1, Zenon DEF TrackRecords, Decisions, RevisionOrNone
    <3>3. n.last = d /\ n.gen = t.gen + 1 /\ n.cand = d.rev /\ n.mode = t.mode
      BY DEF TrackRecords
    <3>4. n.gen > 0
      BY <3>3 DEF TrackRecords
    <3>5. ~(n.mode = "following" /\ Accepts(n.last))
      BY <2>3, <3>3
    <3> QED BY <2>1, <2>2, <3>1, <3>2, <3>3, <3>4, <3>5 DEF ValidTrack
  <2>4. CASE ~(~Accepts(d) \/ t.mode = "pinned")
    <3> DEFINE n == [t EXCEPT !.gen = t.gen + 1, !.last = d, !.current = d.rev, !.cand = NoRevision]
    <3>1. Considered(t, d) = n
      BY <1>2, <2>4 DEF Considered
    <3>2. n \in TrackRecords
      BY <2>1, Zenon DEF TrackRecords, Decisions, RevisionOrNone
    <3>3. /\ n.last = d /\ n.gen = t.gen + 1 /\ n.cand = NoRevision
          /\ n.current = d.rev /\ n.mode = t.mode
      BY DEF TrackRecords
    <3>4. n.gen > 0
      BY <3>3 DEF TrackRecords
    <3> QED BY <2>1, <2>2, <2>4, <3>1, <3>2, <3>3, <3>4 DEF ValidTrack
  <2> QED BY <2>3, <2>4
<1> QED BY <1>1, <1>2

\* A rejected decision, and any decision on a pinned track, leaves what the
\* track releases alone.
THEOREM OnlyAcceptanceReleases ==
  ASSUME NEW t \in TrackRecords, NEW d \in Decisions,
         Considered(t, d).current # t.current
  PROVE  /\ t.mode = "following" /\ Accepts(d)
         /\ Considered(t, d).current = d.rev
         /\ Considered(t, d).gen = t.gen + 1
BY DEF Considered, TrackRecords, Decisions

\* PromoteReleaseRevision keeps a track valid, and releases only the
\* revision of its last decision, which was accepted after a passing review.
THEOREM PromotedIsValid ==
  ASSUME NEW t \in TrackRecords, NEW r \in Revisions, CanPromote(t, r)
  PROVE  /\ Promoted(t, r) \in TrackRecords /\ ValidTrack(Promoted(t, r))
         /\ Promoted(t, r).current = r
         /\ t.last.rev = r /\ Accepts(t.last) /\ t.last.verdict = "pass"
<1>1. CASE AlreadyPromoted(t, r)
  BY <1>1 DEF CanPromote, Promoted, AlreadyPromoted
<1>2. CASE ~AlreadyPromoted(t, r)
  <2> DEFINE n == [t EXCEPT !.gen = t.gen + 1, !.current = r, !.cand = NoRevision]
  <2>1. Promoted(t, r) = n /\ t.gen < MaxGeneration
    BY <1>2 DEF Promoted, CanPromote
  <2>a. t.gen + 1 \in 0..MaxGeneration
    BY <2>1, TrackConstants DEF TrackRecords
  <2>2. n \in TrackRecords
    BY <2>a, Zenon DEF TrackRecords, RevisionOrNone
  <2>3. /\ n.last = t.last /\ n.gen = t.gen + 1 /\ n.cand = NoRevision
        /\ n.current = r /\ n.mode = t.mode
    BY DEF TrackRecords
  <2>4. n.gen > 0
    BY <2>3 DEF TrackRecords
  <2> QED BY <1>2, <2>1, <2>2, <2>3, <2>4 DEF CanPromote, ValidTrack
<1> QED BY <1>1, <1>2

\* A transition the store accepts either changes nothing or takes exactly the
\* next generation; it never takes the decision away; and what the track
\* releases changes only to the revision of an accepted decision.
THEOREM TransitionsAreSteps ==
  ASSUME NEW t \in TrackRecords, NEW n \in TrackRecords,
         ValidTransition(t, n), n # t
  PROVE  /\ n.gen = t.gen + 1
         /\ n.last # NoDecision
         /\ n.current # t.current => n.current = n.last.rev /\ Accepts(n.last)
         /\ t.last # NoDecision => n.last.at >= t.last.at
<1>1. CASE t.last # NoDecision /\ t.last = n.last /\ CanPromote(t, t.cand)
           /\ t.cand # NoRevision /\ n = Promoted(t, t.cand)
  <2>1. n.gen = t.gen + 1 /\ n.current = t.cand
    BY <1>1 DEF Promoted, AlreadyPromoted, TrackRecords
  <2>2. t.last.rev = t.cand /\ Accepts(t.last)
    BY <1>1 DEF CanPromote
  <2>3. t.last.at \in Nat
    BY <1>1 DEF TrackRecords, Decisions
  <2> QED BY <1>1, <2>1, <2>2, <2>3
<1>2. CASE n.last # NoDecision /\ t.last # n.last /\ ~ConsiderFails(t, n.last)
           /\ ConsiderChanges(t, n.last) /\ n = Considered(t, n.last)
  <2>1. n.last \in Decisions
    BY <1>2 DEF TrackRecords
  <2>2. n.gen = t.gen + 1
    BY <1>2, <2>1, Zenon DEF Considered, TrackRecords
  <2>3. n.current # t.current => n.current = n.last.rev /\ Accepts(n.last)
    BY <1>2, <2>1, OnlyAcceptanceReleases
  <2>4. t.last # NoDecision => n.last.at >= t.last.at
    BY <1>2, <2>1 DEF ConsiderChanges, Stale, TrackRecords, Decisions
  <2> QED BY <1>2, <2>2, <2>3, <2>4
<1> QED BY <1>1, <1>2 DEF ValidTransition

(***************************************************************************)
(* States                                                                  *)
(***************************************************************************)
\* Two states that differ only in the revisions a transaction has touched.
Twin(A, B) ==
  /\ A \in States /\ B \in States
  /\ A.revs = B.revs /\ A.reviews = B.reviews /\ A.syncs = B.syncs
  /\ A.auths = B.auths /\ A.pubs = B.pubs /\ A.audit = B.audit
  /\ A.outbox = B.outbox /\ A.tracks = B.tracks
  /\ A.touched \subseteq B.touched

\* Only the revisions differ.
Rebound(S, T) ==
  /\ S.reviews = T.reviews /\ S.syncs = T.syncs /\ S.auths = T.auths
  /\ S.pubs = T.pubs /\ S.audit = T.audit /\ S.outbox = T.outbox /\ S.tracks = T.tracks

\* What an operation leaves in place: evidence grows, and a revision that is
\* new or changed is marked as touched.
Grows(S, T) ==
  /\ T \in States /\ OneRevision(T)
  /\ \A v \in S.revs : \E w \in T.revs : Keeps(v, w)
  /\ \A w \in T.revs : Key(w) \in T.touched \/ (w \in S.revs /\ Key(w) \notin S.touched)
  /\ S.reviews \subseteq T.reviews /\ S.syncs \subseteq T.syncs
  /\ S.auths \subseteq T.auths /\ S.audit \subseteq T.audit

\* What a lookup that finds something finds.
LEMMA FoundIn == ASSUME NEW X, X # {} PROVE Found(X) \in X
BY DEF Found

\* The fields of a state with its revisions replaced.
LEMMA WithRevs ==
  ASSUME NEW S \in States, NEW X \in SUBSET RevisionRecords,
         NEW Y \in SUBSET (Owners \X Revisions),
         NEW T, T = [S EXCEPT !.revs = X, !.touched = Y]
  PROVE  T \in States /\ T.revs = X /\ T.touched = Y /\ Rebound(S, T)
BY Zenon DEF States, Rebound

\* The fields of a state with nothing touched.
LEMMA WithTouched ==
  ASSUME NEW S \in States, NEW T, T = [S EXCEPT !.touched = {}]
  PROVE  T \in States /\ T.touched = {} /\ T.revs = S.revs /\ Rebound(S, T)
BY DEF States, Rebound

\* What is kept twice is kept.
LEMMA KeepsTwice ==
  ASSUME NEW u \in RevisionRecords, NEW v \in RevisionRecords, NEW w \in RevisionRecords,
         Keeps(u, v), Keeps(v, w)
  PROVE  Keeps(u, w)
BY DEF Keeps, RevisionRecords

\* Growth composes.
LEMMA GrowsTwice ==
  ASSUME NEW S \in States, NEW T, NEW U, Grows(S, T), Grows(T, U)
  PROVE  Grows(S, U)
<1>1. S.revs \subseteq RevisionRecords /\ T.revs \subseteq RevisionRecords /\ U.revs \subseteq RevisionRecords
  BY DEF States, Grows
<1>2. ASSUME NEW v \in S.revs PROVE \E w \in U.revs : Keeps(v, w)
  <2>1. PICK x \in T.revs : Keeps(v, x)
    BY DEF Grows
  <2>2. PICK w \in U.revs : Keeps(x, w)
    BY DEF Grows
  <2> QED BY <1>1, <2>1, <2>2, KeepsTwice
<1>3. \A w \in U.revs : Key(w) \in U.touched \/ (w \in S.revs /\ Key(w) \notin S.touched)
  BY DEF Grows
<1> QED BY <1>2, <1>3 DEF Grows

\* What leaves revisions alone and adds records lets the state grow.
LEMMA GrowsBeside ==
  ASSUME NEW S \in States, OneRevision(S), NEW T \in States,
         T.revs = S.revs, T.touched = S.touched,
         S.reviews \subseteq T.reviews, S.syncs \subseteq T.syncs,
         S.auths \subseteq T.auths, S.audit \subseteq T.audit
  PROVE  Grows(S, T)
<1>1. OneRevision(T)
  BY DEF OneRevision
<1>2. \A v \in S.revs : Keeps(v, v)
  BY DEF Keeps
<1> QED BY <1>1, <1>2 DEF Grows

(***************************************************************************)
(* Operations of a transaction, on two states that differ only in what was *)
(* touched: both are refused, or both change alike.                        *)
(***************************************************************************)
Alike(A, B, X, Y) ==
  \/ X = Refused /\ Y = Refused
  \/ Twin(X, Y) /\ Grows(B, Y)

\* An operation that returns the state it was given.
LEMMA AlikeStays == ASSUME NEW A, NEW B, Twin(A, B), OneRevision(B) PROVE Alike(A, B, A, B)
<1>1. Grows(B, B)
  BY GrowsBeside DEF Twin
<1> QED BY <1>1 DEF Alike

\* Operations compose.
LEMMA AlikeTwice ==
  ASSUME NEW A, NEW B, NEW X, NEW Y, NEW U, NEW V, Twin(A, B),
         Twin(X, Y), Grows(B, Y), Alike(X, Y, U, V)
  PROVE  Alike(A, B, U, V)
BY GrowsTwice DEF Alike, Twin

\* ReplaceRevision, of a revision by one that keeps its evidence.
LEMMA Replaces ==
  ASSUME NEW A, NEW B, Twin(A, B), OneRevision(B),
         NEW old \in B.revs, NEW new \in RevisionRecords, Keeps(old, new),
         \A v \in B.revs : Key(v) = Key(new) => v = old,
         NEW X, X = ReplaceRevision(A, old, new), NEW Y, Y = ReplaceRevision(B, old, new)
  PROVE  Twin(X, Y) /\ Grows(B, Y) /\ Rebound(B, Y)
<1> DEFINE R == (B.revs \ {old}) \cup {new}
           TA == (A.touched \ {Key(old)}) \cup {Key(new)}
           TB == (B.touched \ {Key(old)}) \cup {Key(new)}
<1>1. A \in States /\ B \in States /\ A.revs = B.revs /\ A.touched \subseteq B.touched
  BY DEF Twin
<1>2. B.revs \subseteq RevisionRecords /\ A.touched \subseteq Owners \X Revisions
      /\ B.touched \subseteq Owners \X Revisions
  BY <1>1 DEF States
<1>3. Key(new) \in Owners \X Revisions
  BY DEF Key, RevisionRecords
<1>4. X = [A EXCEPT !.revs = R, !.touched = TA] /\ Y = [B EXCEPT !.revs = R, !.touched = TB]
  BY <1>1 DEF ReplaceRevision
<1>5. R \in SUBSET RevisionRecords /\ TA \in SUBSET (Owners \X Revisions) /\ TB \in SUBSET (Owners \X Revisions)
  BY <1>2, <1>3
<1>6. TA \subseteq TB
  BY <1>1
<1> HIDE DEF R, TA, TB
<1>7. X \in States /\ X.revs = R /\ X.touched = TA /\ Rebound(A, X)
  BY <1>1, <1>4, <1>5, WithRevs, Zenon
<1>8. Y \in States /\ Y.revs = R /\ Y.touched = TB /\ Rebound(B, Y)
  BY <1>1, <1>4, <1>5, WithRevs, Zenon
<1>9. Twin(X, Y)
  BY <1>6, <1>7, <1>8, Zenon DEF Twin, Rebound
<1>10. OneRevision(Y)
  BY <1>8 DEF OneRevision, R
<1>11. \A v \in B.revs : \E w \in R : Keeps(v, w)
  <2>1. \A v \in B.revs : Keeps(v, v)
    BY DEF Keeps
  <2> QED BY <2>1 DEF R
<1>12. \A w \in R : Key(w) \in TB \/ (w \in B.revs /\ Key(w) \notin B.touched)
  BY DEF R, TB, OneRevision
<1>13. Grows(B, Y)
  BY <1>8, <1>10, <1>11, <1>12 DEF Grows, Rebound
<1> QED BY <1>8, <1>9, <1>13

\* bindRevisionOwner
LEMMA Binds ==
  ASSUME NEW A, NEW B, Twin(A, B), OneRevision(B), NEW c \in Contracts, NEW r \in Revisions,
         NEW X, X = Bind(A, c, r), NEW Y, Y = Bind(B, c, r)
  PROVE  Alike(A, B, X, Y) /\ (Y # Refused => Rebound(B, Y))
<1>1. A \in States /\ B \in States /\ A.revs = B.revs
  BY DEF Twin
<1>2. Owned(A, c, r) <=> Owned(B, c, r)
  BY <1>1 DEF Owned, RevisionsFor
<1> DEFINE loose == RevisionsFor(B, NoContract, r)
<1>3. RevisionsFor(A, NoContract, r) = loose
  BY <1>1 DEF RevisionsFor
<1>4. CASE Owned(B, c, r)
  <2>1. X = A /\ Y = B
    BY <1>2, <1>4 DEF Bind
  <2> QED BY <2>1, AlikeStays DEF Rebound
<1>5. CASE ~Owned(B, c, r) /\ loose = {}
  BY <1>2, <1>3, <1>5 DEF Bind, Alike
<1>6. CASE ~Owned(B, c, r) /\ loose # {}
  <2> DEFINE old == Found(loose)
             new == [old EXCEPT !.contract = c]
  <2>1. X = ReplaceRevision(A, old, new) /\ Y = ReplaceRevision(B, old, new)
    BY <1>2, <1>3, <1>6 DEF Bind
  <2>2. old \in loose
    BY <1>6, FoundIn
  <2>3. old \in B.revs /\ old.contract = NoContract /\ old.id = r
    BY <2>2 DEF RevisionsFor
  <2>4. old \in RevisionRecords
    BY <1>1, <2>3 DEF States
  <2> HIDE DEF old
  <2>5. /\ new \in RevisionRecords /\ new.contract = c /\ new.id = r
        /\ new.level = old.level /\ new.ref = old.ref
    BY <2>3, <2>4 DEF RevisionRecords, Owners
  <2> HIDE DEF new
  <2>6. Keeps(old, new)
    BY <2>3, <2>5 DEF Keeps
  <2>7. \A v \in B.revs : Key(v) = Key(new) => v = old
    BY <1>6, <2>5 DEF Key, Owned, RevisionsFor
  <2> QED BY <2>1, <2>3, <2>5, <2>6, <2>7, Replaces DEF Alike
<1> QED BY <1>4, <1>5, <1>6

\* SaveRevision
LEMMA SavesRevision ==
  ASSUME NEW A, NEW B, Twin(A, B), OneRevision(B), NEW v \in RevisionRecords,
         v.contract \in Contracts, v.level = "full",
         NEW X, X = SaveRevision(A, v), NEW Y, Y = SaveRevision(B, v)
  PROVE  Alike(A, B, X, Y) /\ (Y # Refused => Rebound(B, Y))
<1>1. A \in States /\ B \in States /\ A.revs = B.revs
  BY DEF Twin
<1> DEFINE own == RevisionsFor(B, v.contract, v.id)
           loose == RevisionsFor(B, NoContract, v.id)
           known == IF Owned(B, v.contract, v.id) THEN own ELSE loose
           e == Found(known)
<1>2. RevisionsFor(A, v.contract, v.id) = own /\ RevisionsFor(A, NoContract, v.id) = loose
      /\ (Owned(A, v.contract, v.id) <=> Owned(B, v.contract, v.id))
  BY <1>1 DEF RevisionsFor, Owned
<1>3. CASE known = {}
  <2> DEFINE R == B.revs \cup {v}
             TA == A.touched \cup {Key(v)}
             TB == B.touched \cup {Key(v)}
  <2>1. X = [A EXCEPT !.revs = R, !.touched = TA] /\ Y = [B EXCEPT !.revs = R, !.touched = TB]
    BY <1>1, <1>2, <1>3 DEF SaveRevision
  <2>2. Key(v) \in Owners \X Revisions
    BY DEF Key, RevisionRecords
  <2>3. R \in SUBSET RevisionRecords /\ TA \in SUBSET (Owners \X Revisions) /\ TB \in SUBSET (Owners \X Revisions)
    BY <1>1, <2>2 DEF States
  <2>4. TA \subseteq TB
    BY DEF Twin
  <2>5. \A w \in B.revs : Key(w) # Key(v)
    BY <1>3 DEF Key, Owned, RevisionsFor
  <2> HIDE DEF R, TA, TB
  <2>6. X \in States /\ X.revs = R /\ X.touched = TA /\ Rebound(A, X)
    BY <1>1, <2>1, <2>3, WithRevs, Zenon
  <2>7. Y \in States /\ Y.revs = R /\ Y.touched = TB /\ Rebound(B, Y)
    BY <1>1, <2>1, <2>3, WithRevs, Zenon
  <2>8. Twin(X, Y)
    BY <2>4, <2>6, <2>7, Zenon DEF Twin, Rebound
  <2>9. OneRevision(Y)
    BY <2>5, <2>7 DEF OneRevision, R
  <2>10. \A w \in B.revs : Keeps(w, w) /\ w \in R
    BY DEF Keeps, R
  <2>11. \A w \in R : Key(w) \in TB \/ (w \in B.revs /\ Key(w) \notin B.touched)
    BY DEF R, TB
  <2> QED BY <2>7, <2>8, <2>9, <2>10, <2>11 DEF Grows, Rebound, Alike
<1>4. CASE known # {}
  <2>1. e \in known
    BY <1>4, FoundIn
  <2>2. e \in B.revs /\ e.id = v.id /\ e.contract \in {NoContract, v.contract}
    BY <2>1 DEF RevisionsFor
  <2>3. e \in RevisionRecords
    BY <1>1, <2>2 DEF States
  <2>4. \A w \in B.revs : Key(w) = Key(v) => w = e
    <3>1. CASE Owned(B, v.contract, v.id)
      BY <2>1, <3>1 DEF Key, RevisionsFor, OneRevision
    <3>2. CASE ~Owned(B, v.contract, v.id)
      BY <3>2 DEF Key, RevisionsFor, Owned
    <3> QED BY <3>1, <3>2
  <2>5. CASE e = v
    <3>1. X = A /\ Y = B
      BY <1>2, <1>4, <2>5 DEF SaveRevision
    <3> QED BY <3>1, AlikeStays DEF Rebound
  <2>6. CASE e # v /\ ~(CanEnrich(e, v) \/ CanCanonicalize(e, v))
    <3>1. X = Refused /\ Y = Refused
      BY <1>2, <1>4, <2>6 DEF SaveRevision, Check
    <3> QED BY <3>1 DEF Alike
  <2>7. CASE e # v /\ (CanEnrich(e, v) \/ CanCanonicalize(e, v))
    <3>1. X = ReplaceRevision(A, e, v) /\ Y = ReplaceRevision(B, e, v)
      BY <1>2, <1>4, <2>7 DEF SaveRevision, Check
    <3> HIDE DEF e
    <3>2. Keeps(e, v)
      <4>1. CASE CanEnrich(e, v)
        BY <2>2, <4>1 DEF CanEnrich, Keeps
      <4>2. CASE CanCanonicalize(e, v)
        <5>1. v.contract = e.contract /\ v.level = e.level /\ v.ref = "commit"
          BY <2>3, <4>2 DEF CanCanonicalize, RevisionRecords
        <5> QED BY <2>2, <5>1 DEF Keeps
      <4> QED BY <2>7, <4>1, <4>2
    <3> QED BY <2>2, <2>4, <3>1, <3>2, Replaces DEF Alike
  <2> QED BY <2>5, <2>6, <2>7
<1> QED BY <1>3, <1>4

\* Neither the tracks nor their events change, and identities stay unique.
Quiet(S, T) ==
  /\ T.audit = S.audit /\ T.outbox = S.outbox /\ T.tracks = S.tracks
  /\ OneReview(S) => OneReview(T)
  /\ OneAuthorization(S) => OneAuthorization(T)

\* What binding leaves alone.
LEMMA ReboundQuiet == ASSUME NEW S, NEW T, Rebound(S, T) PROVE Quiet(S, T)
BY DEF Rebound, Quiet, OneReview, OneAuthorization

\* SaveReview
LEMMA SavesReview ==
  ASSUME NEW A, NEW B, Twin(A, B), OneRevision(B), NEW w \in ReviewRecords,
         NEW X, X = SaveReview(A, w), NEW Y, Y = SaveReview(B, w)
  PROVE  Alike(A, B, X, Y) /\ (Y # Refused => Quiet(B, Y))
<1>t. w.contract \in Contracts /\ w.base \in Revisions /\ w.cand \in Revisions
  BY DEF ReviewRecords
<1> DEFINE A1 == Bind(A, w.contract, w.base)
           B1 == Bind(B, w.contract, w.base)
           A2 == Bind(A1, w.contract, w.cand)
           B2 == Bind(B1, w.contract, w.cand)
           ok(S) == /\ Complete(S, w.contract, w.base) /\ Complete(S, w.contract, w.cand)
                    /\ \A x \in S.reviews : x.id = w.id => x = w
           put(S) == [S EXCEPT !.reviews = S.reviews \cup {w}]
<1>1. /\ X = IF A1 = Refused THEN Refused ELSE IF A2 = Refused THEN Refused
             ELSE IF ok(A2) THEN put(A2) ELSE Refused
      /\ Y = IF B1 = Refused THEN Refused ELSE IF B2 = Refused THEN Refused
             ELSE IF ok(B2) THEN put(B2) ELSE Refused
  BY DEF SaveReview, Then, Check
<1>2. Alike(A, B, A1, B1) /\ (B1 # Refused => Rebound(B, B1))
  BY <1>t, Binds
<1>3. ASSUME A1 # Refused \/ B1 # Refused
      PROVE  Twin(A1, B1) /\ Grows(B, B1) /\ Alike(A1, B1, A2, B2) /\ (B2 # Refused => Rebound(B1, B2))
  <2>1. Twin(A1, B1) /\ Grows(B, B1)
    BY <1>2, <1>3 DEF Alike
  <2>2. OneRevision(B1)
    BY <2>1 DEF Grows
  <2> HIDE DEF A1, B1
  <2> QED BY <1>t, <2>1, <2>2, Binds
<1>4. ASSUME NEW S \in States PROVE S # Refused
  BY StateConstants
<1> HIDE DEF A1, B1, A2, B2
<1>5. CASE A1 = Refused /\ B1 = Refused
  BY <1>1, <1>5 DEF Alike
<1>6. CASE (A1 # Refused \/ B1 # Refused) /\ A2 = Refused /\ B2 = Refused
  BY <1>1, <1>6 DEF Alike
<1>7. CASE (A1 # Refused \/ B1 # Refused) /\ ~(A2 = Refused /\ B2 = Refused)
  <2>1. Twin(A2, B2) /\ Grows(B1, B2) /\ Twin(A1, B1) /\ Grows(B, B1)
    BY <1>3, <1>7 DEF Alike
  <2>2. A1 # Refused /\ B1 # Refused /\ A2 # Refused /\ B2 # Refused
    BY <1>4, <2>1 DEF Twin
  <2>3. Grows(B, B2) /\ Quiet(B, B2) /\ OneRevision(B2)
    <3>1. Grows(B, B2)
      BY <2>1, GrowsTwice DEF Twin
    <3>2. Rebound(B, B1) /\ Rebound(B1, B2)
      BY <1>2, <1>3, <1>7, <2>2
    <3>3. Rebound(B, B2)
      BY <3>2 DEF Rebound
    <3> QED BY <3>1, <3>3, ReboundQuiet DEF Grows
  <2>4. ok(A2) <=> ok(B2)
    BY <2>1 DEF Twin, Complete, RevisionsFor
  <2>5. CASE ~ok(B2)
    <3>1. X = Refused /\ Y = Refused
      BY <1>1, <2>2, <2>4, <2>5
    <3> QED BY <3>1 DEF Alike
  <2>6. CASE ok(B2)
    <3>1. X = put(A2) /\ Y = put(B2)
      BY <1>1, <2>2, <2>4, <2>6
    <3>2. A2 \in States /\ B2 \in States
      BY <2>1 DEF Twin
    <3>3. ASSUME NEW S \in States, NEW Z, Z = put(S)
          PROVE  /\ Z \in States /\ Z.reviews = S.reviews \cup {w} /\ Z.revs = S.revs /\ Z.touched = S.touched
                 /\ Z.syncs = S.syncs /\ Z.auths = S.auths /\ Z.pubs = S.pubs
                 /\ Z.audit = S.audit /\ Z.outbox = S.outbox /\ Z.tracks = S.tracks
      <4>1. S.reviews \cup {w} \in SUBSET ReviewRecords
        BY DEF States
      <4> QED BY <3>3, <4>1 DEF States
    <3> HIDE DEF put
    <3>a. /\ X \in States /\ X.reviews = A2.reviews \cup {w} /\ X.revs = A2.revs /\ X.touched = A2.touched
          /\ X.syncs = A2.syncs /\ X.auths = A2.auths /\ X.pubs = A2.pubs
          /\ X.audit = A2.audit /\ X.outbox = A2.outbox /\ X.tracks = A2.tracks
      BY <3>2, <3>1, <3>3
    <3>4. /\ Y \in States /\ Y.reviews = B2.reviews \cup {w} /\ Y.revs = B2.revs /\ Y.touched = B2.touched
          /\ Y.syncs = B2.syncs /\ Y.auths = B2.auths /\ Y.pubs = B2.pubs
          /\ Y.audit = B2.audit /\ Y.outbox = B2.outbox /\ Y.tracks = B2.tracks
      BY <3>2, <3>1, <3>3
    <3>b. Twin(X, Y)
      BY <2>1, <3>a, <3>4 DEF Twin
    <3>5. Grows(B2, Y)
      BY <2>3, <3>2, <3>4, GrowsBeside
    <3>6. Grows(B, Y)
      BY <2>3, <3>5, GrowsTwice DEF Twin
    <3>7. Quiet(B2, Y)
      BY <2>6, <3>4 DEF Quiet, OneReview, OneAuthorization
    <3>8. Quiet(B, Y)
      BY <2>3, <3>7 DEF Quiet
    <3> QED BY <3>b, <3>6, <3>8 DEF Alike
  <2> QED BY <2>5, <2>6
<1> QED BY <1>5, <1>6, <1>7

\* SaveSyncRecord
LEMMA SavesSyncRecord ==
  ASSUME NEW A, NEW B, Twin(A, B), OneRevision(B), NEW n \in SyncRecords,
         NEW X, X = SaveSyncRecord(A, n), NEW Y, Y = SaveSyncRecord(B, n)
  PROVE  Alike(A, B, X, Y) /\ (Y # Refused => Quiet(B, Y))
<1>t. n.contract \in Contracts /\ n.rev \in Revisions
  BY DEF SyncRecords
<1> DEFINE A1 == IF n.result = "success" THEN Bind(A, n.contract, n.rev) ELSE A
           B1 == IF n.result = "success" THEN Bind(B, n.contract, n.rev) ELSE B
           known(S) == {m \in S.syncs : SyncID(m) = SyncID(n)}
           put(S) == [S EXCEPT !.syncs = S.syncs \cup {n}]
           save(S) == IF known(S) = {} THEN put(S)
                      ELSE IF \A m \in known(S) : SameSyncEvidence(m, n) THEN S ELSE Refused
<1>1. /\ X = IF A1 = Refused THEN Refused ELSE save(A1)
      /\ Y = IF B1 = Refused THEN Refused ELSE save(B1)
  BY DEF SaveSyncRecord, Then, Check
<1>2. Alike(A, B, A1, B1) /\ (B1 # Refused => Quiet(B, B1))
  <2>1. CASE n.result = "success"
    BY <1>t, <2>1, Binds, ReboundQuiet
  <2>2. CASE n.result # "success"
    BY <2>2, AlikeStays DEF Quiet
  <2> QED BY <2>1, <2>2
<1>4. ASSUME NEW S \in States PROVE S # Refused
  BY StateConstants
<1> HIDE DEF A1, B1
<1>5. CASE A1 = Refused /\ B1 = Refused
  BY <1>1, <1>5 DEF Alike
<1>6. CASE ~(A1 = Refused /\ B1 = Refused)
  <2>1. Twin(A1, B1) /\ Grows(B, B1)
    BY <1>2, <1>6 DEF Alike
  <2>2. A1 \in States /\ B1 \in States /\ A1 # Refused /\ B1 # Refused /\ OneRevision(B1)
    BY <1>4, <2>1 DEF Twin, Grows
  <2>3. X = save(A1) /\ Y = save(B1) /\ known(A1) = known(B1) /\ Quiet(B, B1)
    BY <1>1, <1>2, <2>1, <2>2 DEF Twin
  <2>4. CASE known(B1) = {}
    <3>1. X = put(A1) /\ Y = put(B1)
      BY <2>3, <2>4
    <3>3. ASSUME NEW S \in States, NEW Z, Z = put(S)
          PROVE  /\ Z \in States /\ Z.syncs = S.syncs \cup {n} /\ Z.revs = S.revs /\ Z.touched = S.touched
                 /\ Z.reviews = S.reviews /\ Z.auths = S.auths /\ Z.pubs = S.pubs
                 /\ Z.audit = S.audit /\ Z.outbox = S.outbox /\ Z.tracks = S.tracks
      <4>1. S.syncs \cup {n} \in SUBSET SyncRecords
        BY DEF States
      <4> QED BY <3>3, <4>1 DEF States
    <3> HIDE DEF put
    <3>a. /\ X \in States /\ X.syncs = A1.syncs \cup {n} /\ X.revs = A1.revs /\ X.touched = A1.touched
          /\ X.reviews = A1.reviews /\ X.auths = A1.auths /\ X.pubs = A1.pubs
          /\ X.audit = A1.audit /\ X.outbox = A1.outbox /\ X.tracks = A1.tracks
      BY <2>2, <3>1, <3>3
    <3>4. /\ Y \in States /\ Y.syncs = B1.syncs \cup {n} /\ Y.revs = B1.revs /\ Y.touched = B1.touched
          /\ Y.reviews = B1.reviews /\ Y.auths = B1.auths /\ Y.pubs = B1.pubs
          /\ Y.audit = B1.audit /\ Y.outbox = B1.outbox /\ Y.tracks = B1.tracks
      BY <2>2, <3>1, <3>3
    <3>b. Twin(X, Y)
      BY <2>1, <3>a, <3>4 DEF Twin
    <3>5. Grows(B1, Y)
      BY <2>2, <3>4, GrowsBeside
    <3>6. Grows(B, Y)
      BY <2>1, <3>5, GrowsTwice DEF Twin
    <3>7. Quiet(B1, Y)
      BY <3>4 DEF Quiet, OneReview, OneAuthorization
    <3>8. Quiet(B, Y)
      BY <2>3, <3>7 DEF Quiet
    <3> QED BY <3>b, <3>6, <3>8 DEF Alike
  <2>5. CASE known(B1) # {} /\ \A m \in known(B1) : SameSyncEvidence(m, n)
    <3>1. X = A1 /\ Y = B1
      BY <2>3, <2>5
    <3> QED BY <2>1, <2>3, <3>1 DEF Alike
  <2>6. CASE known(B1) # {} /\ ~\A m \in known(B1) : SameSyncEvidence(m, n)
    <3>1. X = Refused /\ Y = Refused
      BY <2>3, <2>6
    <3> QED BY <3>1 DEF Alike
  <2> QED BY <2>4, <2>5, <2>6
<1> QED BY <1>5, <1>6

\* An operation that is not refused.
LEMMA AlikeGives ==
  ASSUME NEW A, NEW B, NEW X, NEW Y, Alike(A, B, X, Y), ~(X = Refused /\ Y = Refused)
  PROVE  /\ Twin(X, Y) /\ Grows(B, Y) /\ OneRevision(Y)
         /\ X \in States /\ Y \in States /\ X # Refused /\ Y # Refused
BY StateConstants DEF Alike, Twin, Grows

\* saveReleaseAuthorization
LEMMA SavesAuthorization ==
  ASSUME NEW A, NEW B, Twin(A, B), OneRevision(B), NEW a \in Authorizations,
         NEW X, X = SaveAuthorization(A, a), NEW Y, Y = SaveAuthorization(B, a)
  PROVE  Alike(A, B, X, Y) /\ (Y # Refused => Quiet(B, Y))
<1> DEFINE ok(S) == \A b \in S.auths : b.review = a.review => b = a
           put(S) == [S EXCEPT !.auths = S.auths \cup {a}]
<1>1. X = (IF ok(A) THEN put(A) ELSE Refused) /\ Y = (IF ok(B) THEN put(B) ELSE Refused)
  BY DEF SaveAuthorization, Check
<1>2. A \in States /\ B \in States /\ (ok(A) <=> ok(B))
  BY DEF Twin
<1>3. CASE ~ok(B)
  BY <1>1, <1>2, <1>3 DEF Alike
<1>4. CASE ok(B)
  <2>1. X = put(A) /\ Y = put(B)
    BY <1>1, <1>2, <1>4
  <2>2. ASSUME NEW S \in States, NEW Z, Z = put(S)
        PROVE  /\ Z \in States /\ Z.auths = S.auths \cup {a} /\ Z.revs = S.revs /\ Z.touched = S.touched
               /\ Z.reviews = S.reviews /\ Z.syncs = S.syncs /\ Z.pubs = S.pubs
               /\ Z.audit = S.audit /\ Z.outbox = S.outbox /\ Z.tracks = S.tracks
    <3>1. S.auths \cup {a} \in SUBSET Authorizations
      BY DEF States
    <3> QED BY <2>2, <3>1 DEF States
  <2> HIDE DEF put
  <2>3. /\ X \in States /\ X.auths = A.auths \cup {a} /\ X.revs = A.revs /\ X.touched = A.touched
        /\ X.reviews = A.reviews /\ X.syncs = A.syncs /\ X.pubs = A.pubs
        /\ X.audit = A.audit /\ X.outbox = A.outbox /\ X.tracks = A.tracks
    BY <1>2, <2>1, <2>2
  <2>4. /\ Y \in States /\ Y.auths = B.auths \cup {a} /\ Y.revs = B.revs /\ Y.touched = B.touched
        /\ Y.reviews = B.reviews /\ Y.syncs = B.syncs /\ Y.pubs = B.pubs
        /\ Y.audit = B.audit /\ Y.outbox = B.outbox /\ Y.tracks = B.tracks
    BY <1>2, <2>1, <2>2
  <2>5. Twin(X, Y)
    BY <2>3, <2>4 DEF Twin
  <2>6. Grows(B, Y)
    BY <1>2, <2>4, GrowsBeside
  <2>7. Quiet(B, Y)
    BY <1>4, <2>4 DEF Quiet, OneReview, OneAuthorization
  <2> QED BY <2>5, <2>6, <2>7 DEF Alike
<1> QED BY <1>3, <1>4

\* Binding the revisions a track names.
LEMMA BindsTrack ==
  ASSUME NEW A, NEW B, Twin(A, B), OneRevision(B), NEW t \in Tracks, NEW n \in TrackRecords,
         NEW X, X = BindTrack(A, t, n), NEW Y, Y = BindTrack(B, t, n)
  PROVE  Alike(A, B, X, Y) /\ (Y # Refused => Rebound(B, Y))
<1>t. /\ ContractOf[t] \in Contracts
      /\ n.current # NoRevision => n.current \in Revisions
      /\ n.cand # NoRevision => n.cand \in Revisions
  BY StateConstants DEF TrackRecords, RevisionOrNone
<1> DEFINE A1 == IF n.current = NoRevision THEN A ELSE Bind(A, ContractOf[t], n.current)
           B1 == IF n.current = NoRevision THEN B ELSE Bind(B, ContractOf[t], n.current)
           A2 == IF n.cand = NoRevision THEN A1 ELSE Bind(A1, ContractOf[t], n.cand)
           B2 == IF n.cand = NoRevision THEN B1 ELSE Bind(B1, ContractOf[t], n.cand)
<1>1. X = (IF A1 = Refused THEN Refused ELSE A2) /\ Y = (IF B1 = Refused THEN Refused ELSE B2)
  BY DEF BindTrack, Then
<1>2. Alike(A, B, A1, B1) /\ (B1 # Refused => Rebound(B, B1))
  <2>1. CASE n.current = NoRevision
    BY <2>1, AlikeStays DEF Rebound
  <2>2. CASE n.current # NoRevision
    BY <1>t, <2>2, Binds
  <2> QED BY <2>1, <2>2
<1>3. CASE A1 = Refused /\ B1 = Refused
  BY <1>1, <1>3 DEF Alike
<1>4. CASE ~(A1 = Refused /\ B1 = Refused)
  <2> HIDE DEF A1, B1
  <2>1. Twin(A1, B1) /\ Grows(B, B1) /\ OneRevision(B1) /\ A1 # Refused /\ B1 # Refused
    BY <1>2, <1>4, AlikeGives
  <2>2. Alike(A1, B1, A2, B2) /\ (B2 # Refused => Rebound(B1, B2))
    <3>1. CASE n.cand = NoRevision
      BY <2>1, <3>1, AlikeStays DEF Rebound
    <3>2. CASE n.cand # NoRevision
      BY <1>t, <2>1, <3>2, Binds
    <3> QED BY <3>1, <3>2
  <2> HIDE DEF A2, B2
  <2>3. X = A2 /\ Y = B2
    BY <1>1, <2>1
  <2>4. Alike(A, B, X, Y)
    BY <2>1, <2>2, <2>3, AlikeTwice
  <2>5. Y # Refused => Rebound(B, Y)
    BY <1>2, <2>1, <2>2, <2>3, Zenon DEF Rebound
  <2> QED BY <2>4, <2>5
<1> QED BY <1>3, <1>4

\* The decisions a state holds are those of another state.
Undecided(S, T) ==
  /\ T.reviews = S.reviews /\ T.auths = S.auths
  /\ T.audit = S.audit /\ T.outbox = S.outbox

\* A track record that replaces another, and the record it may follow.
Placed(S, T, t, n) == Undecided(S, T) /\ T.tracks = [S.tracks EXCEPT ![t] = n]
Follows(old, n) ==
  \/ old = n
  \/ old = NoTrack /\ ValidInitialization(n)
  \/ old # NoTrack /\ ValidTransition(old, n)

\* SaveReleaseTrack: the track is as it was, or takes the first or the next
\* step of its history; nothing else about tracks and decisions changes.
LEMMA SavesTrack ==
  ASSUME NEW A, NEW B, Twin(A, B), OneRevision(B), NEW t \in Tracks,
         NEW expected, NEW n \in TrackRecords,
         NEW X, X = SaveReleaseTrack(A, t, expected, n),
         NEW Y, Y = SaveReleaseTrack(B, t, expected, n)
  PROVE  /\ Alike(A, B, X, Y)
         /\ Y # Refused => Placed(B, Y, t, n) /\ Follows(B.tracks[t], n)
<1> DEFINE old == B.tracks[t]
           fits == /\ expected = (IF old = NoTrack THEN 0 ELSE old.gen)
                   /\ IF old = NoTrack THEN ValidInitialization(n) ELSE ValidTransition(old, n)
           A1 == BindTrack(A, t, n)
           B1 == BindTrack(B, t, n)
           put(S) == [S EXCEPT !.tracks[t] = n]
<1>1. A \in States /\ B \in States /\ A.tracks = B.tracks
  BY DEF Twin
<1>2. CASE ~ValidTrack(n) \/ (old # n /\ ~fits)
  BY <1>1, <1>2, Zenon DEF SaveReleaseTrack, Alike
<1>3. CASE ValidTrack(n) /\ old = n
  <2>1. X = A /\ Y = B
    BY <1>1, <1>3 DEF SaveReleaseTrack
  <2>2. B.tracks = [B.tracks EXCEPT ![t] = n]
    BY <1>1, <1>3 DEF States
  <2> QED BY <1>3, <2>1, <2>2, AlikeStays DEF Placed, Undecided, Follows
<1>4. CASE ValidTrack(n) /\ old # n /\ fits
  <2>1. /\ X = IF A1 = Refused THEN Refused ELSE put(A1)
        /\ Y = IF B1 = Refused THEN Refused ELSE put(B1)
    BY <1>1, <1>4 DEF SaveReleaseTrack, Then
  <2>2. Alike(A, B, A1, B1) /\ (B1 # Refused => Rebound(B, B1))
    BY BindsTrack
  <2> HIDE DEF A1, B1
  <2>3. CASE A1 = Refused /\ B1 = Refused
    BY <2>1, <2>3, SMTT(30) DEF Alike
  <2>4. CASE ~(A1 = Refused /\ B1 = Refused)
    <3>1. /\ Twin(A1, B1) /\ Grows(B, B1) /\ OneRevision(B1) /\ A1 # Refused /\ B1 # Refused
          /\ A1 \in States /\ B1 \in States
      BY <2>2, <2>4, AlikeGives
    <3>2. X = put(A1) /\ Y = put(B1)
      BY <2>1, <3>1
    <3>3. ASSUME NEW S \in States, NEW Z, Z = put(S)
          PROVE  /\ Z \in States /\ Z.tracks = [S.tracks EXCEPT ![t] = n] /\ Z.revs = S.revs
                 /\ Z.touched = S.touched /\ Z.reviews = S.reviews /\ Z.syncs = S.syncs
                 /\ Z.auths = S.auths /\ Z.pubs = S.pubs
                 /\ Z.audit = S.audit /\ Z.outbox = S.outbox
      BY <3>3 DEF States
    <3> HIDE DEF put
    <3>4. /\ X \in States /\ X.tracks = [A1.tracks EXCEPT ![t] = n] /\ X.revs = A1.revs
          /\ X.touched = A1.touched /\ X.reviews = A1.reviews /\ X.syncs = A1.syncs
          /\ X.auths = A1.auths /\ X.pubs = A1.pubs
          /\ X.audit = A1.audit /\ X.outbox = A1.outbox
      BY <3>1, <3>2, <3>3
    <3>5. /\ Y \in States /\ Y.tracks = [B1.tracks EXCEPT ![t] = n] /\ Y.revs = B1.revs
          /\ Y.touched = B1.touched /\ Y.reviews = B1.reviews /\ Y.syncs = B1.syncs
          /\ Y.auths = B1.auths /\ Y.pubs = B1.pubs
          /\ Y.audit = B1.audit /\ Y.outbox = B1.outbox
      BY <3>1, <3>2, <3>3, SMTT(30)
    <3>6. Twin(X, Y)
      BY <3>1, <3>4, <3>5 DEF Twin
    <3>7. Grows(B1, Y)
      BY <3>1, <3>5, GrowsBeside
    <3>8. Alike(A, B, X, Y)
      BY <1>1, <3>1, <3>6, <3>7, GrowsTwice DEF Alike
    <3>9. Rebound(B, B1)
      BY <2>2, <3>1
    <3>10. Placed(B, Y, t, n)
      BY <3>5, <3>9 DEF Placed, Undecided, Rebound
    <3> QED BY <1>4, <3>8, <3>10 DEF Follows
  <2> QED BY <2>3, <2>4
<1> QED BY <1>2, <1>3, <1>4

\* SavePublication
LEMMA SavesPublication ==
  ASSUME NEW A, NEW B, Twin(A, B), OneRevision(B), NEW p \in Publications,
         NEW X, X = SavePublication(A, p), NEW Y, Y = SavePublication(B, p)
  PROVE  /\ Alike(A, B, X, Y)
         /\ Y # Refused => /\ Y.reviews = B.reviews /\ Y.auths = B.auths
                           /\ Y.audit = B.audit /\ Y.outbox = B.outbox /\ Y.tracks = B.tracks
<1>t. p.contract \in Contracts /\ p.rev \in Revisions
  BY DEF Publications
<1> DEFINE A1 == Bind(A, p.contract, p.rev)
           B1 == Bind(B, p.contract, p.rev)
           demote(q) == IF p.public /\ q.public /\ q.path = p.path
                        THEN [q EXCEPT !.public = FALSE] ELSE q
           pubs(S) == {demote(q) : q \in {q \in S.pubs : <<q.contract, q.rev>> # <<p.contract, p.rev>>}} \cup {p}
           put(S) == [S EXCEPT !.pubs = pubs(S)]
<1>1. /\ X = IF A1 = Refused THEN Refused ELSE put(A1)
      /\ Y = IF B1 = Refused THEN Refused ELSE put(B1)
  BY DEF SavePublication, Then
<1>2. Alike(A, B, A1, B1) /\ (B1 # Refused => Rebound(B, B1))
  BY <1>t, Binds
<1>3. CASE A1 = Refused /\ B1 = Refused
  BY <1>1, <1>3 DEF Alike
<1>4. CASE ~(A1 = Refused /\ B1 = Refused)
  <2> HIDE DEF A1, B1
  <2>1. /\ Twin(A1, B1) /\ Grows(B, B1) /\ OneRevision(B1) /\ A1 # Refused /\ B1 # Refused
        /\ A1 \in States /\ B1 \in States
    BY <1>2, <1>4, AlikeGives
  <2>2. X = put(A1) /\ Y = put(B1)
    BY <1>1, <2>1
  <2>a. ASSUME NEW q \in Publications PROVE demote(q) \in Publications
    BY Zenon DEF Publications
  <2>b. ASSUME NEW S \in States PROVE pubs(S) \in SUBSET Publications
    <3>1. S.pubs \subseteq Publications
      BY DEF States
    <3> HIDE DEF demote
    <3> QED BY <2>a, <3>1
  <2>c. pubs(A1) = pubs(B1)
    <3>1. A1.pubs = B1.pubs
      BY <2>1 DEF Twin
    <3> HIDE DEF demote
    <3> QED BY <3>1
  <2> HIDE DEF pubs
  <2>3. ASSUME NEW S \in States, NEW Z, Z = put(S)
        PROVE  /\ Z \in States /\ Z.pubs = pubs(S) /\ Z.revs = S.revs
               /\ Z.touched = S.touched /\ Z.reviews = S.reviews /\ Z.syncs = S.syncs
               /\ Z.auths = S.auths /\ Z.audit = S.audit /\ Z.outbox = S.outbox /\ Z.tracks = S.tracks
    BY <2>b, <2>3 DEF States
  <2> HIDE DEF put
  <2>4. /\ X \in States /\ X.pubs = pubs(A1) /\ X.revs = A1.revs
        /\ X.touched = A1.touched /\ X.reviews = A1.reviews /\ X.syncs = A1.syncs
        /\ X.auths = A1.auths /\ X.audit = A1.audit /\ X.outbox = A1.outbox /\ X.tracks = A1.tracks
    BY <2>1, <2>2, <2>3
  <2>5. /\ Y \in States /\ Y.pubs = pubs(B1) /\ Y.revs = B1.revs
        /\ Y.touched = B1.touched /\ Y.reviews = B1.reviews /\ Y.syncs = B1.syncs
        /\ Y.auths = B1.auths /\ Y.audit = B1.audit /\ Y.outbox = B1.outbox /\ Y.tracks = B1.tracks
    BY <2>1, <2>2, <2>3
  <2>6. Twin(X, Y)
    BY <2>1, <2>c, <2>4, <2>5 DEF Twin
  <2>7. Grows(B1, Y)
    BY <2>1, <2>5, GrowsBeside
  <2>8. Alike(A, B, X, Y)
    BY <2>1, <2>6, <2>7, GrowsTwice DEF Alike, Twin
  <2>9. Rebound(B, B1)
    BY <1>2, <2>1
  <2> QED BY <2>5, <2>8, <2>9 DEF Rebound
<1> QED BY <1>3, <1>4

\* AppendAuditEvent
LEMMA AppendsEvent ==
  ASSUME NEW A, NEW B, Twin(A, B), OneRevision(B), NEW e \in EventRecords,
         NEW X, X = AppendAuditEvent(A, e), NEW Y, Y = AppendAuditEvent(B, e)
  PROVE  /\ Alike(A, B, X, Y)
         /\ Y # Refused => /\ Y.reviews = B.reviews /\ Y.auths = B.auths
                           /\ Y.audit = B.audit \cup {e} /\ Y.outbox = B.outbox /\ Y.tracks = B.tracks
<1>t. ContractOf[e.track] \in Contracts /\ e.rev \in Revisions
  BY StateConstants DEF EventRecords
<1> DEFINE A1 == Bind(A, ContractOf[e.track], e.rev)
           B1 == Bind(B, ContractOf[e.track], e.rev)
           put(S) == [S EXCEPT !.audit = S.audit \cup {e}]
           save(S) == IF Same(S.audit, e) = {} THEN put(S) ELSE IF e \in S.audit THEN S ELSE Refused
<1>1. /\ X = IF A1 = Refused THEN Refused ELSE save(A1)
      /\ Y = IF B1 = Refused THEN Refused ELSE save(B1)
  BY DEF AppendAuditEvent, Then, Check
<1>2. Alike(A, B, A1, B1) /\ (B1 # Refused => Rebound(B, B1))
  BY <1>t, Binds
<1>3. CASE A1 = Refused /\ B1 = Refused
  BY <1>1, <1>3, Zenon DEF Alike
<1>4. CASE ~(A1 = Refused /\ B1 = Refused)
  <2> HIDE DEF A1, B1
  <2>1. /\ Twin(A1, B1) /\ Grows(B, B1) /\ OneRevision(B1) /\ A1 # Refused /\ B1 # Refused
        /\ A1 \in States /\ B1 \in States
    BY <1>2, <1>4, AlikeGives
  <2>2. X = save(A1) /\ Y = save(B1) /\ A1.audit = B1.audit /\ Rebound(B, B1)
    BY <1>1, <1>2, <2>1, ZenonT(60) DEF Twin
  <2>3. CASE Same(B1.audit, e) = {}
    <3>1. X = put(A1) /\ Y = put(B1)
      BY <2>2, <2>3
    <3>2. ASSUME NEW S \in States, NEW Z, Z = put(S)
          PROVE  /\ Z \in States /\ Z.audit = S.audit \cup {e} /\ Z.revs = S.revs
                 /\ Z.touched = S.touched /\ Z.reviews = S.reviews /\ Z.syncs = S.syncs
                 /\ Z.auths = S.auths /\ Z.pubs = S.pubs /\ Z.outbox = S.outbox /\ Z.tracks = S.tracks
      <4>1. S.audit \cup {e} \in SUBSET EventRecords
        BY DEF States
      <4> QED BY <3>2, <4>1 DEF States
    <3> HIDE DEF put
    <3>4. /\ X \in States /\ X.audit = A1.audit \cup {e} /\ X.revs = A1.revs
          /\ X.touched = A1.touched /\ X.reviews = A1.reviews /\ X.syncs = A1.syncs
          /\ X.auths = A1.auths /\ X.pubs = A1.pubs /\ X.outbox = A1.outbox /\ X.tracks = A1.tracks
      BY <2>1, <3>1, <3>2
    <3>5. /\ Y \in States /\ Y.audit = B1.audit \cup {e} /\ Y.revs = B1.revs
          /\ Y.touched = B1.touched /\ Y.reviews = B1.reviews /\ Y.syncs = B1.syncs
          /\ Y.auths = B1.auths /\ Y.pubs = B1.pubs /\ Y.outbox = B1.outbox /\ Y.tracks = B1.tracks
      BY <2>1, <3>1, <3>2
    <3>6. Twin(X, Y)
      BY <2>1, <3>4, <3>5, Zenon DEF Twin
    <3>7. Grows(B1, Y)
      BY <2>1, <3>5, GrowsBeside
    <3>8. Alike(A, B, X, Y)
      BY <2>1, <3>6, <3>7, GrowsTwice DEF Alike, Twin
    <3> QED BY <2>2, <3>5, <3>8 DEF Rebound
  <2>4. CASE Same(B1.audit, e) # {} /\ e \in B1.audit
    <3>1. X = A1 /\ Y = B1 /\ B1.audit = B1.audit \cup {e}
      BY <2>2, <2>4
    <3> QED BY <2>1, <2>2, <3>1, Zenon DEF Alike, Rebound
  <2>5. CASE Same(B1.audit, e) # {} /\ e \notin B1.audit
    <3>1. X = Refused /\ Y = Refused
      BY <2>2, <2>5
    <3> QED BY <3>1 DEF Alike
  <2> QED BY <2>3, <2>4, <2>5
<1> QED BY <1>3, <1>4

\* Enqueue
LEMMA Enqueues ==
  ASSUME NEW A, NEW B, Twin(A, B), OneRevision(B), NEW e \in EventRecords,
         NEW X, X = Enqueue(A, e), NEW Y, Y = Enqueue(B, e)
  PROVE  /\ Alike(A, B, X, Y)
         /\ Y # Refused => /\ Y.reviews = B.reviews /\ Y.auths = B.auths
                           /\ Y.audit = B.audit /\ Y.outbox = B.outbox \cup {e} /\ Y.tracks = B.tracks
<1>t. ContractOf[e.track] \in Contracts /\ e.rev \in Revisions
  BY StateConstants DEF EventRecords
<1> DEFINE A1 == Bind(A, ContractOf[e.track], e.rev)
           B1 == Bind(B, ContractOf[e.track], e.rev)
           put(S) == [S EXCEPT !.outbox = S.outbox \cup {e}]
           save(S) == IF Same(S.outbox, e) = {} THEN put(S) ELSE IF e \in S.outbox THEN S ELSE Refused
<1>1. /\ X = IF A1 = Refused THEN Refused ELSE save(A1)
      /\ Y = IF B1 = Refused THEN Refused ELSE save(B1)
  BY DEF Enqueue, Then, Check
<1>2. Alike(A, B, A1, B1) /\ (B1 # Refused => Rebound(B, B1))
  BY <1>t, Binds
<1>3. CASE A1 = Refused /\ B1 = Refused
  BY <1>1, <1>3, Zenon DEF Alike
<1>4. CASE ~(A1 = Refused /\ B1 = Refused)
  <2> HIDE DEF A1, B1
  <2>1. /\ Twin(A1, B1) /\ Grows(B, B1) /\ OneRevision(B1) /\ A1 # Refused /\ B1 # Refused
        /\ A1 \in States /\ B1 \in States
    BY <1>2, <1>4, AlikeGives
  <2>2. X = save(A1) /\ Y = save(B1) /\ A1.outbox = B1.outbox /\ Rebound(B, B1)
    BY <1>1, <1>2, <2>1, Zenon DEF Twin
  <2>3. CASE Same(B1.outbox, e) = {}
    <3>1. X = put(A1) /\ Y = put(B1)
      BY <2>2, <2>3
    <3>2. ASSUME NEW S \in States, NEW Z, Z = put(S)
          PROVE  /\ Z \in States /\ Z.outbox = S.outbox \cup {e} /\ Z.revs = S.revs
                 /\ Z.touched = S.touched /\ Z.reviews = S.reviews /\ Z.syncs = S.syncs
                 /\ Z.auths = S.auths /\ Z.pubs = S.pubs /\ Z.audit = S.audit /\ Z.tracks = S.tracks
      <4>1. S.outbox \cup {e} \in SUBSET EventRecords
        BY DEF States
      <4> QED BY <3>2, <4>1 DEF States
    <3> HIDE DEF put
    <3>4. /\ X \in States /\ X.outbox = A1.outbox \cup {e} /\ X.revs = A1.revs
          /\ X.touched = A1.touched /\ X.reviews = A1.reviews /\ X.syncs = A1.syncs
          /\ X.auths = A1.auths /\ X.pubs = A1.pubs /\ X.audit = A1.audit /\ X.tracks = A1.tracks
      BY <2>1, <3>1, <3>2
    <3>5. /\ Y \in States /\ Y.outbox = B1.outbox \cup {e} /\ Y.revs = B1.revs
          /\ Y.touched = B1.touched /\ Y.reviews = B1.reviews /\ Y.syncs = B1.syncs
          /\ Y.auths = B1.auths /\ Y.pubs = B1.pubs /\ Y.audit = B1.audit /\ Y.tracks = B1.tracks
      BY <2>1, <3>1, <3>2, SMTT(30)
    <3>6. Twin(X, Y)
      BY <2>1, <3>4, <3>5, Zenon DEF Twin
    <3>7. Grows(B1, Y)
      BY <2>1, <3>5, GrowsBeside
    <3>8. Alike(A, B, X, Y)
      BY <2>1, <3>6, <3>7, GrowsTwice DEF Alike, Twin
    <3> QED BY <2>2, <3>5, <3>8 DEF Rebound
  <2>4. CASE Same(B1.outbox, e) # {} /\ e \in B1.outbox
    <3>1. X = A1 /\ Y = B1 /\ B1.outbox = B1.outbox \cup {e}
      BY <2>2, <2>4
    <3> QED BY <2>1, <2>2, <3>1 DEF Alike, Rebound
  <2>5. CASE Same(B1.outbox, e) # {} /\ e \notin B1.outbox
    <3>1. X = Refused /\ Y = Refused
      BY <2>2, <2>5
    <3> QED BY <3>1 DEF Alike
  <2> QED BY <2>3, <2>4, <2>5
<1> QED BY <1>3, <1>4
==============================================================================
