----------------------------- MODULE MCControlPlane ----------------------------
(***************************************************************************)
(* One contract, two tracks of it (one following, one pinned), three       *)
(* revisions, four reviews, and the directories of four releases.  The     *)
(* reviews are evaluated from the surfaces of the revisions: the second    *)
(* adds a required parameter, the third removes an operation, and the      *)
(* policy excepts required parameters for a time.                          *)
(***************************************************************************)
EXTENDS ControlPlane, TLC

CONSTANTS r1, r2, r3, c1, f, p, w1, w2, w3, w4, a1, a2

MCRevisions == {r1, r2, r3}
MCReviewIDs == {w1, w2, w3, w4}
MCContractOf == [t \in {f, p} |-> c1]
MCRefOf == [t \in {f, p} |-> "main"]

CR == INSTANCE ContractReview

Operation(required) ==
  [parameters |-> [q \in required |-> TRUE], body |-> FALSE, statuses |-> {"200"}]
SnapshotOf(r) ==
  LET operations == CASE r = r1 -> [k \in {"get", "list"} |-> Operation({})]
                      [] r = r2 -> [k \in {"get", "list"} |-> Operation(IF k = "get" THEN {"q"} ELSE {})]
                      [] r = r3 -> [k \in {"get"} |-> Operation({"q"})]
  IN  [contract |-> c1, revision |-> r, spec |-> r, digest |-> <<operations, {}>>,
       operations |-> operations, schemas |-> {}]
Excepting(expires) ==
  [name |-> "repository", source |-> "repository", baseline |-> TRUE, rules |-> <<>>,
   exceptions |-> {[finding |-> None, rule |-> "request.parameter.required_added",
                    documented |-> TRUE, expires |-> expires, source |-> "repository"]}]
Raising ==
  [name |-> "server", source |-> "server", baseline |-> FALSE,
   rules |-> [r \in {"schema.added"} |-> "warn"], exceptions |-> {}]
Report(base, cand, at, expires) ==
  CR!ReleasePart(CR!EvaluateReview(
    [contract |-> c1, target |-> SnapshotOf(base), candidate |-> SnapshotOf(cand),
     release |-> SnapshotOf(base), policy |-> CR!MergePolicy(<<Excepting(expires), Raising>>), at |-> at]))

\* Every review of this instance is one that the store accepts.
ASSUME ReportsAreAccepted ==
  \A base, cand \in MCRevisions, at \in 1 .. 3, expires \in {2, 9} :
    CR!ReleaseReportAgainstSnapshots(Report(base, cand, at, expires), c1, SnapshotOf(base), SnapshotOf(cand))

Rev(r, level) == [contract |-> c1, id |-> r, level |-> level, ref |-> "commit"]
Sync(r) == [op |-> "sync", contract |-> c1, rev |-> r, ref |-> "main"]
FailedSync(error) == [op |-> "fail", contract |-> c1, rev |-> r3, ref |-> "main", error |-> error]
Reviewed(w, base, cand, verdict, at, expires) ==
  [op |-> "review", review |-> w, contract |-> c1, base |-> base, cand |-> cand,
   verdict |-> verdict, at |-> at, expires |-> expires]
Review1 == Reviewed(w1, r1, r2, "pass", 1, 2)
Review2 == Reviewed(w2, r1, r2, "pass", 2, 9)
Review3 == Reviewed(w3, r1, r2, "pass", 1, 9)
Review4 == Reviewed(w4, r2, r3, "fail", 3, 9)

\* The reviews are what evaluating the surfaces of their revisions gives, under
\* a policy whose exception expires when the review does.
ASSUME ReviewsAreEvaluated ==
  \A c \in {Review1, Review2, Review3, Review4} :
    LET report == Report(c.base, c.cand, c.at, c.expires) IN
    /\ c.verdict = report.verdict
    /\ \A e \in report.comparisons[1].policy.applied : e.expires = c.expires

Authorize(w, t, base, cand, path) ==
  [op |-> "authorize", track |-> t, review |-> w, contract |-> c1, base |-> base, cand |-> cand,
   ref |-> "main", path |-> path]
Decide(t, w, cand, accepted) ==
  [op |-> "coordinate", track |-> t, review |-> w, rev |-> cand, accepted |-> accepted]
Publish(r, path, public) ==
  [op |-> "publish", contract |-> c1, rev |-> r, path |-> path, public |-> public]
Track(t, mode, r) == [op |-> "track", track |-> t, mode |-> mode, rev |-> r]
PromoteTo(t, r) == [op |-> "promote", track |-> t, rev |-> r]

\* States reached by committed commands.
All == MCRevisions
After(S, c) == Committed(S, Run(c, S, 1, 1), All)
RECURSIVE AfterAll(_, _)
AfterAll(S, cs) == IF cs = <<>> THEN S ELSE AfterAll(After(S, Head(cs)), Tail(cs))

Prepared == AfterAll(EmptyState,
  <<Sync(r1), Sync(r2), Track(f, "following", r1), Track(p, "pinned", r1),
    Review1, Authorize(w1, f, r1, r2, "a"),
    Review2, Authorize(w2, f, r1, r2, "a"),
    Review3, Authorize(w3, p, r1, r2, "b")>>)
Released == After(Prepared, Decide(f, w1, r2, "yes"))

Dir(version, marker, raw) == [version |-> version, marker |-> marker, raw |-> raw]

\* A file of version 2 with a decision nothing proves and two public claims of a path.
Legacy2 ==
  [EmptyState EXCEPT
     !.revs = {[contract |-> NoContract, id |-> r1, level |-> "blob", ref |-> "commit"],
               [contract |-> NoContract, id |-> r2, level |-> "bare", ref |-> "commit"]},
     !.pubs = {[contract |-> c1, rev |-> r1, path |-> "a", public |-> TRUE],
               [contract |-> c1, rev |-> r2, path |-> "a", public |-> TRUE]},
     !.tracks[f] = [mode |-> "following", gen |-> 1, current |-> r1, cand |-> r2,
                    last |-> [rev |-> r2, review |-> w1, verdict |-> "fail", accepted |-> "no", at |-> 1]]]
\* The flat records of the first release: a revision with or without an owner,
\* waiting for its snapshot or not, published or not.
Flat1(owner, level, paths) ==
  [EmptyState EXCEPT
     !.revs = {[contract |-> owner, id |-> r1, level |-> level, ref |-> "commit"]},
     !.pubs = {[contract |-> c1, rev |-> r1, path |-> path, public |-> TRUE] : path \in paths}]

MCFirstDirs ==
  {Dir(0, 0, EmptyState),
   Dir(0, 0, Flat1(NoContract, "partial", {})), Dir(0, 0, Flat1(c1, "partial", {"a"})),
   Dir(0, 0, Flat1(NoContract, "partial", {"a"})), Dir(0, 0, Flat1(NoContract, "blob", {"a"})),
   Dir(2, 0, Legacy2), Dir(3, 3, Prepared),
   Dir(4, 4, Prepared), Dir(4, 4, Released)}

MCCommands ==
  {Sync(r1), Sync(r3), FailedSync("e1"), FailedSync("e2"),
   Track(f, "following", r1), Review4, Authorize(w4, f, r2, r3, "a"),
   Decide(f, w1, r2, "yes"), Decide(f, w1, r2, "no"), Decide(f, w2, r2, "yes"), Decide(f, w2, r2, "no"), Decide(f, w4, r3, "no"),
   Decide(p, w3, r2, "yes"), PromoteTo(p, r2), Publish(r1, "a", TRUE)}

Sym == Permutations(Clients)
===============================================================================
