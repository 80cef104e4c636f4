---------------------------- MODULE ReleaseTracks ----------------------------
(***************************************************************************)
(* Release tracks as values (domain/release.go).  A track publishes one    *)
(* revision of a contract at a time.  A following track moves to every     *)
(* revision an accepted decision names; a pinned track keeps it as a       *)
(* candidate until it is promoted.  Decisions are ordered by the time      *)
(* their review was evaluated, and every change of a track takes the next  *)
(* generation.                                                             *)
(*                                                                         *)
(* The identity of a track, its contract and its bound ref never change    *)
(* and are left to the modules that hold tracks.  The digest of a review   *)
(* is a function of the review, which is immutable, so a decision names    *)
(* the review only.  Time 0 is Go's zero time.                             *)
(***************************************************************************)
EXTENDS Naturals

CONSTANTS
  Revisions,      \* revision IDs
  NoRevision,     \* the empty revision ID
  ReviewIDs,
  NoDecision,     \* LastDecision is nil
  MaxGeneration   \* ^uint64(0)

ASSUME TrackConstants ==
  /\ NoRevision \notin Revisions
  /\ MaxGeneration \in Nat \ {0}

RevisionOrNone == Revisions \cup {NoRevision}

\* ReleaseDecision; accepted is the boolean Accepted.
Decisions == [rev : Revisions, review : ReviewIDs, verdict : {"pass", "fail"},
              accepted : {"yes", "no"}, at : Nat]

ASSUME NoDecisionAssumption == NoDecision \notin Decisions

Accepts(d) == d.accepted = "yes"

TrackRecords == [mode : {"pinned", "following"}, gen : 0..MaxGeneration,
                 current : RevisionOrNone, cand : RevisionOrNone,
                 last : Decisions \cup {NoDecision}]

\* validateReleaseDecision, beyond the form of its identities.
ValidDecision(d) == Accepts(d) => d.verdict = "pass"

\* ValidateReleaseTrack
ValidTrack(t) ==
  IF t.last = NoDecision THEN t.cand = NoRevision
  ELSE /\ t.gen > 0
       /\ ValidDecision(t.last)
       /\ t.last.at # 0
       /\ IF t.mode = "following" /\ Accepts(t.last)
          THEN t.cand = NoRevision /\ t.current = t.last.rev
          ELSE \/ t.cand = t.last.rev
               \/ /\ t.cand = NoRevision
                  /\ Accepts(t.last)
                  /\ t.current = t.last.rev

Replays(t, d) == t.last = d
Stale(t, d) == t.last # NoDecision /\ d.at < t.last.at

\* ConsiderReleaseDecision returns an error ...
ConsiderFails(t, d) ==
  \/ ~ValidTrack(t)
  \/ ~ValidDecision(d)
  \/ /\ ~Replays(t, d)
     /\ \/ t.gen = MaxGeneration
        \/ d.at = 0
        \/ t.last # NoDecision /\ d.at = t.last.at

\* Mutant: an older decision is applied.
ConsiderChangesStale(t, d) == ~Replays(t, d)
\* ... or a track, the same one when it reports no change.
ConsiderChanges(t, d) == ~Replays(t, d) /\ ~Stale(t, d)

\* Mutant: a change takes two generations.
ConsideredSkips(t, d) ==
  IF ~ConsiderChanges(t, d) THEN t
  ELSE IF ~Accepts(d) \/ t.mode = "pinned"
       THEN [t EXCEPT !.gen = t.gen + 2, !.last = d, !.cand = d.rev]
       ELSE [t EXCEPT !.gen = t.gen + 2, !.last = d, !.current = d.rev, !.cand = NoRevision]

Considered(t, d) ==
  IF ~ConsiderChanges(t, d) THEN t
  ELSE IF ~Accepts(d) \/ t.mode = "pinned"
       THEN [t EXCEPT !.gen = t.gen + 1, !.last = d, !.cand = d.rev]
       ELSE [t EXCEPT !.gen = t.gen + 1, !.last = d, !.current = d.rev, !.cand = NoRevision]

\* PromoteReleaseRevision
AlreadyPromoted(t, r) == t.cand = NoRevision /\ t.current = r
CanPromote(t, r) ==
  /\ ValidTrack(t)
  /\ t.mode = "pinned"
  /\ t.last # NoDecision
  /\ Accepts(t.last) /\ t.last.verdict = "pass" /\ t.last.rev = r
  /\ AlreadyPromoted(t, r) \/ (t.cand = r /\ t.gen < MaxGeneration)
Promoted(t, r) ==
  IF AlreadyPromoted(t, r) THEN t
  ELSE [t EXCEPT !.gen = t.gen + 1, !.current = r, !.cand = NoRevision]

\* ValidateReleaseTrackTransition: a no-op, a promotion, or a decision considered.
ValidTransition(t, n) ==
  /\ ValidTrack(t) /\ ValidTrack(n)
  /\ \/ t = n
     \/ /\ t.last # NoDecision /\ t.last = n.last
        /\ t.mode = "pinned" /\ t.cand # NoRevision
        /\ CanPromote(t, t.cand)
        /\ n = Promoted(t, t.cand)
     \/ /\ n.last # NoDecision /\ t.last # n.last
        /\ ~ConsiderFails(t, n.last)
        /\ ConsiderChanges(t, n.last)
        /\ n = Considered(t, n.last)

\* validateReleaseTrackInitialization in the file store.
ValidInitialization(n) ==
  /\ ValidTrack(n)
  /\ IF n.last = NoDecision THEN n.gen = 0
     ELSE LET baseline == [n EXCEPT !.gen = 0, !.cand = NoRevision, !.last = NoDecision,
                             !.current = IF n.mode = "following" /\ Accepts(n.last)
                                         THEN NoRevision ELSE n.current]
          IN  /\ n.gen = 1
              /\ ~ConsiderFails(baseline, n.last)
              /\ ConsiderChanges(baseline, n.last)
              /\ n = Considered(baseline, n.last)
===============================================================================
