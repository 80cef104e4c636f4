---------------------------- MODULE ContractReview ----------------------------
(***************************************************************************)
(* The compatibility review of a contract (domain/contractsnapshot.go,     *)
(* specdiff.go, policy.go and review.go) as operators: the differences     *)
(* between two snapshots, the policy composed of a repository layer and    *)
(* server layers, the verdict of that policy on the differences at a time, *)
(* the report, and the validation that releases a report against the       *)
(* stored snapshots.  An operation that returns an error has a guard.      *)
(*                                                                         *)
(* Lists that the code sorts before it compares or digests them are sets,  *)
(* and a SHA-256 digest is the value it is computed from.                  *)
(*   snapshot   [contract, revision, spec, digest, operations, schemas],   *)
(*              operations a function from method and path to              *)
(*              [parameters |-> [name and location -> required],           *)
(*               body |-> required, statuses |-> set]                      *)
(*   finding    [rule, subject], which is also what its ID identifies      *)
(*   layer      [name, source, baseline, rules |-> [rule -> level],        *)
(*               exceptions |-> set]                                       *)
(*   exception  [finding, rule, documented, expires, source], one of       *)
(*              finding and rule None; expires = 0: no expiry was given    *)
(***************************************************************************)
EXTENDS Naturals, Sequences, Functions

CONSTANT None      \* an empty field or a nil pointer

BreakingRules ==
  {"operation.removed", "request.parameter.required_added", "request.parameter.became_required",
   "request.body.became_required", "response.status.removed", "schema.removed"}
AdditiveRules == {"operation.added", "response.status.added", "schema.added"}
Rules == BreakingRules \cup AdditiveRules
Levels == {"allow", "warn", "fail"}

(***************************************************************************)
(* Snapshots and their differences.                                        *)
(***************************************************************************)
Surface(s) == <<s.operations, s.schemas>>
ValidSnapshot(s) == s.digest = Surface(s)
SnapshotRef(s) == [revision |-> s.revision, spec |-> s.spec, digest |-> s.digest]

Changes(rule, subjects) == {[rule |-> rule, subject |-> x] : x \in subjects}

OperationBreakingChanges(k, base, next) ==
  LET required == {q \in DOMAIN next.parameters : next.parameters[q]}
      known == DOMAIN base.parameters
  IN  Changes("request.parameter.required_added", {<<k, q>> : q \in required \ known})
        \cup Changes("request.parameter.became_required",
                     {<<k, q>> : q \in {q \in required \cap known : ~ base.parameters[q]}})
        \cup Changes("request.body.became_required", IF next.body /\ ~ base.body THEN {<<k>>} ELSE {})
        \cup Changes("response.status.removed", {<<k, s>> : s \in base.statuses \ next.statuses})

OperationAdditiveChanges(k, base, next) ==
  Changes("response.status.added", {<<k, s>> : s \in next.statuses \ base.statuses})

\* diffValidatedContractSnapshots
DiffSnapshots(base, cand) ==
  LET was == DOMAIN base.operations
      is == DOMAIN cand.operations
  IN  Changes("operation.removed", {<<k>> : k \in was \ is})
        \cup (UNION {OperationBreakingChanges(k, base.operations[k], cand.operations[k])
                       \cup OperationAdditiveChanges(k, base.operations[k], cand.operations[k]) :
                       k \in was \cap is})
        \cup Changes("operation.added", {<<k>> : k \in is \ was})
        \cup Changes("schema.removed", {<<n>> : n \in base.schemas \ cand.schemas})
        \cup Changes("schema.added", {<<n>> : n \in cand.schemas \ base.schemas})

(***************************************************************************)
(* Policies.                                                               *)
(***************************************************************************)
LevelRank(level) == CASE level = "allow" -> 0 [] level = "warn" -> 1 [] level = "fail" -> 2

\* repositoryDefaultRules, which agrees with defaultLevelForFinding.
DefaultLevel(rule) == IF rule \in BreakingRules THEN "fail" ELSE "allow"

ValidException(e, source) ==
  /\ (e.finding = None) # (e.rule = None)
  /\ e.rule # None => e.rule \in Rules
  /\ e.documented /\ e.expires # 0
  /\ e.source = source

ValidLayer(l) ==
  /\ l.source \in {"repository", "server"}
  /\ \A r \in DOMAIN l.rules : r \in Rules /\ l.rules[r] \in Levels
  /\ \A e \in l.exceptions : ValidException(e, l.source)

NormalizedRepositoryLayer(l) ==
  [l EXCEPT !.rules = [r \in Rules |-> IF r \in DOMAIN l.rules THEN l.rules[r] ELSE DefaultLevel(r)]]

\* What MergePolicy asks of a layer after the first.
MayJoin(repository, l) ==
  /\ l.source = "server" /\ ValidLayer(l)
  /\ \A r \in DOMAIN l.rules : LevelRank(l.rules[r]) >= LevelRank(repository.rules[r])

Mergeable(layers) ==
  /\ layers # <<>>
  /\ layers[1].source = "repository" /\ ValidLayer(layers[1])
  /\ \A i \in 2 .. Len(layers) : MayJoin(NormalizedRepositoryLayer(layers[1]), layers[i])

MergePolicy(layers) ==
  [layers |-> [i \in 1 .. Len(layers) |->
                 IF i = 1 THEN NormalizedRepositoryLayer(layers[1]) ELSE layers[i]],
   baseline |-> \E i \in 1 .. Len(layers) : layers[i].baseline]

\* normalizeEffectivePolicy
Normalizable(policy) == Mergeable(policy.layers) /\ MergePolicy(policy.layers).baseline = policy.baseline

\* The layers in canonical order, the repository's first, and their digest.
CanonicalReviewPolicy(policy) == [layers |-> Range(policy.layers), baseline |-> policy.baseline]

\* validateCanonicalPolicyProjection: merging the projected layers again gives them back.
CanonicalProjection(projection) ==
  /\ \E r \in projection.layers :
       /\ r.source = "repository" /\ ValidLayer(r) /\ r = NormalizedRepositoryLayer(r)
       /\ \A l \in projection.layers \ {r} : MayJoin(r, l)
  /\ projection.baseline = \E l \in projection.layers : l.baseline

(***************************************************************************)
(* The verdict of a canonical policy on findings, at a time.               *)
(***************************************************************************)
Contributes(l, f) == l.source = "repository" \/ f.rule \in DOMAIN l.rules
ContributionLevel(l, f) == IF f.rule \in DOMAIN l.rules THEN l.rules[f.rule] ELSE DefaultLevel(f.rule)

MatchingExceptions(l, f, at) ==
  {e \in l.exceptions : /\ ValidException(e, l.source) /\ at < e.expires
                        /\ (e.finding # None /\ e.finding = f) \/ (e.rule # None /\ e.rule = f.rule)}

Decision(l, f, at) ==
  [finding |-> f, level |-> ContributionLevel(l, f), source |-> l.source, layer |-> l.name,
   excepted |-> MatchingExceptions(l, f, at) # {}]

Disposition(l, e, findings, at) ==
  IF \E f \in findings : Contributes(l, f) /\ e \in MatchingExceptions(l, f, at) THEN "applied"
  ELSE IF at >= e.expires THEN "expired" ELSE "not_applicable"

EvaluateFindings(policy, findings, at) ==
  LET contributions == {c \in policy.layers \X findings : Contributes(c[1], c[2])}
      decisions == {Decision(c[1], c[2], at) : c \in contributions}
  IN  [verdict |-> IF \E d \in decisions : d.level = "fail" /\ ~ d.excepted THEN "fail" ELSE "pass",
       decisions |-> decisions,
       applied |-> UNION {MatchingExceptions(c[1], c[2], at) : c \in contributions},
       dispositions |-> UNION {{[layer |-> l.name, exception |-> e,
                                 disposition |-> Disposition(l, e, findings, at)] : e \in l.exceptions} :
                               l \in policy.layers}]

EvaluateComparison(kind, base, cand, policy, at) ==
  LET findings == DiffSnapshots(base, cand)
  IN  [kind |-> kind, baseline |-> SnapshotRef(base), candidate |-> SnapshotRef(cand),
       findings |-> findings, policy |-> EvaluateFindings(policy, findings, at)]

(***************************************************************************)
(* The report of a review: q is the request, q.release None without a      *)
(* release baseline.                                                       *)
(***************************************************************************)
Reviewable(q) ==
  /\ \A s \in {q.target, q.candidate, q.release} \ {None} : s.contract = q.contract /\ ValidSnapshot(s)
  /\ q.at # 0
  /\ Normalizable(q.policy)
  /\ MergePolicy(q.policy.layers).baseline => q.release # None

EvaluateReview(q) ==
  LET policy == CanonicalReviewPolicy(MergePolicy(q.policy.layers))
      comparisons ==
        <<EvaluateComparison("pull_request_delta", q.target, q.candidate, policy, q.at)>>
          \o IF q.release = None THEN <<>>
             ELSE <<EvaluateComparison("release_impact", q.release, q.candidate, policy, q.at)>>
  IN  [contract |-> q.contract, at |-> q.at, policy |-> policy, digest |-> policy,
       verdict |-> IF \E i \in DOMAIN comparisons : comparisons[i].policy.verdict = "fail"
                   THEN "fail" ELSE "pass",
       comparisons |-> comparisons]

\* The release comparison of a report alone, with its own verdict.
ReleasePart(report) ==
  [contract |-> report.contract, at |-> report.at, policy |-> report.policy, digest |-> report.digest,
   verdict |-> report.comparisons[2].policy.verdict, comparisons |-> <<report.comparisons[2]>>]

\* validateReleaseReviewReport
ReleaseReport(report, contract, baseline, candidate) ==
  /\ report.contract = contract /\ report.at # 0
  /\ CanonicalProjection(report.policy) /\ report.digest = report.policy
  /\ Len(report.comparisons) = 1
  /\ LET c == report.comparisons[1] IN
     /\ c.kind = "release_impact"
     /\ c.baseline = baseline /\ c.candidate = candidate
     /\ report.verdict = c.policy.verdict

\* ValidateReleaseReviewReportAgainstSnapshots
ReleaseReportAgainstSnapshots(report, contract, base, cand) ==
  /\ ValidSnapshot(base) /\ ValidSnapshot(cand)
  /\ base.contract = contract /\ cand.contract = contract
  /\ ReleaseReport(report, contract, SnapshotRef(base), SnapshotRef(cand))
  /\ report.comparisons[1] = EvaluateComparison("release_impact", base, cand, report.policy, report.at)

\* validateAppliedExceptionsAtReleaseTime
AppliedExceptionsHold(report, now) ==
  \A i \in DOMAIN report.comparisons :
    \A e \in report.comparisons[i].policy.applied : now < e.expires
===============================================================================
