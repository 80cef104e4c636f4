------------------------ MODULE ReviewAndGatewayProofs ------------------------
(***************************************************************************)
(* The theorems on the two models that no other proof rests on: what a     *)
(* review promises, for every pair of snapshots, every policy that         *)
(* MergePolicy accepts and every time; and what the gateway keeps, for any *)
(* number of requests and calls.                                           *)
(***************************************************************************)
EXTENDS ContractReview, Gateway, FiniteSetTheorems, TLAPS

(***************************************************************************)
(* Reviews                                                                 *)
(***************************************************************************)
Breaking(findings) == {f \in findings : f.rule \in BreakingRules}

\* The verdict without the record it is reported in: some contribution at
\* level fail has no exception.
LEMMA VerdictIs ==
  ASSUME NEW policy, NEW findings, NEW at
  PROVE  LET v == EvaluateFindings(policy, findings, at).verdict IN
         /\ v \in {"pass", "fail"}
         /\ v = "fail" <=> \E l \in policy.layers, f \in findings :
                              /\ Contributes(l, f) /\ ContributionLevel(l, f) = "fail"
                              /\ MatchingExceptions(l, f, at) = {}
<1> DEFINE C == {c \in policy.layers \X findings : Contributes(c[1], c[2])}
           D == {Decision(c[1], c[2], at) : c \in C}
           Unexcepted(l, f) == /\ Contributes(l, f) /\ ContributionLevel(l, f) = "fail"
                               /\ MatchingExceptions(l, f, at) = {}
<1>1. EvaluateFindings(policy, findings, at).verdict
        = IF \E d \in D : d.level = "fail" /\ ~ d.excepted THEN "fail" ELSE "pass"
  BY DEF EvaluateFindings
<1>2. \A l, f : /\ Decision(l, f, at).level = ContributionLevel(l, f)
                /\ Decision(l, f, at).excepted = (MatchingExceptions(l, f, at) # {})
  BY DEF Decision
<1>3. ASSUME NEW d \in D, d.level = "fail", ~ d.excepted
      PROVE  \E l \in policy.layers, f \in findings : Unexcepted(l, f)
  <2>1. PICK c \in C : d = Decision(c[1], c[2], at)
    OBVIOUS
  <2>2. c[1] \in policy.layers /\ c[2] \in findings /\ Contributes(c[1], c[2])
    OBVIOUS
  <2> QED BY <1>2, <1>3, <2>1, <2>2, Zenon
<1>4. ASSUME NEW l \in policy.layers, NEW f \in findings, Unexcepted(l, f)
      PROVE  \E d \in D : d.level = "fail" /\ ~ d.excepted
  <2>1. <<l, f>> \in C
    BY <1>4
  <2>2. Decision(l, f, at) \in D
    BY <2>1
  <2> QED BY <1>2, <1>4, <2>2, Zenon
<1> QED BY <1>1, <1>3, <1>4

\* Layers and policies are records with these fields.
IsLayer(l) ==
  l = [name |-> l.name, source |-> l.source, baseline |-> l.baseline,
       rules |-> l.rules, exceptions |-> l.exceptions]
IsLayers(layers) == layers \in Seq({layers[i] : i \in DOMAIN layers}) /\ \A i \in DOMAIN layers : IsLayer(layers[i])

\* The defaults of the repository layer fill in its rules and nothing else.
LEMMA NormalizedLayer ==
  ASSUME NEW l, IsLayer(l)
  PROVE  LET n == NormalizedRepositoryLayer(l) IN
         /\ IsLayer(n) /\ n.name = l.name /\ n.source = l.source
         /\ n.baseline = l.baseline /\ n.exceptions = l.exceptions
         /\ n.rules = [r \in Rules |-> IF r \in DOMAIN l.rules THEN l.rules[r] ELSE DefaultLevel(r)]
BY DEF IsLayer, NormalizedRepositoryLayer

\* The layers of a merged policy: the repository's with its defaults, and the
\* servers' as they are.
LEMMA MergedLayers ==
  ASSUME NEW layers, IsLayers(layers), layers # <<>>
  PROVE  LET p == CanonicalReviewPolicy(MergePolicy(layers)) IN
         /\ p.layers = {NormalizedRepositoryLayer(layers[1])} \cup {layers[i] : i \in 2 .. Len(layers)}
         /\ p.baseline = \E i \in 1 .. Len(layers) : layers[i].baseline
         /\ DOMAIN layers = 1 .. Len(layers) /\ 1 \in DOMAIN layers /\ Len(layers) \in Nat
<1>1. DOMAIN layers = 1 .. Len(layers) /\ Len(layers) \in Nat /\ Len(layers) # 0
  BY DEF IsLayers
<1> DEFINE m == [i \in 1 .. Len(layers) |->
                   IF i = 1 THEN NormalizedRepositoryLayer(layers[1]) ELSE layers[i]]
<1>2. MergePolicy(layers).layers = m
      /\ MergePolicy(layers).baseline = \E i \in 1 .. Len(layers) : layers[i].baseline
  BY DEF MergePolicy
<1>3. Range(m) = {NormalizedRepositoryLayer(layers[1])} \cup {layers[i] : i \in 2 .. Len(layers)}
  <2>1. Range(m) = {m[i] : i \in 1 .. Len(layers)}
    BY DEF Range
  <2>2. 1 .. Len(layers) = {1} \cup 2 .. Len(layers)
    BY <1>1
  <2>3. m[1] = NormalizedRepositoryLayer(layers[1])
    BY <1>1
  <2>4. \A i \in 2 .. Len(layers) : m[i] = layers[i]
    BY <1>1
  <2> HIDE DEF m
  <2>5. {m[i] : i \in {1} \cup 2 .. Len(layers)} = {m[1]} \cup {m[i] : i \in 2 .. Len(layers)}
    OBVIOUS
  <2>6. {m[i] : i \in 2 .. Len(layers)} = {layers[i] : i \in 2 .. Len(layers)}
    BY <2>4
  <2> QED BY <2>1, <2>2, <2>3, <2>5, <2>6, Zenon
<1> QED BY <1>1, <1>2, <1>3 DEF CanonicalReviewPolicy

\* Server policy is monotonic: what passes the merged policy passes the
\* repository's policy alone.  No server layer, and no exception a server
\* layer carries, lets through a change the repository refuses.
THEOREM ServerOnlyTightens ==
  ASSUME NEW layers, IsLayers(layers), Mergeable(layers), NEW findings, NEW at
  PROVE  LET merged == CanonicalReviewPolicy(MergePolicy(layers))
             alone == CanonicalReviewPolicy(MergePolicy(<<layers[1]>>))
         IN  EvaluateFindings(merged, findings, at).verdict = "pass"
               => EvaluateFindings(alone, findings, at).verdict = "pass"
<1> DEFINE merged == CanonicalReviewPolicy(MergePolicy(layers))
           one == <<layers[1]>>
           alone == CanonicalReviewPolicy(MergePolicy(one))
<1>1. layers # <<>>
  BY DEF Mergeable
<1>2. NormalizedRepositoryLayer(layers[1]) \in merged.layers /\ IsLayer(layers[1])
  BY <1>1, MergedLayers, Zenon DEF IsLayers
<1>3. IsLayers(one) /\ one # <<>> /\ Len(one) = 1 /\ one[1] = layers[1]
  BY <1>2 DEF IsLayers
<1>4. alone.layers = {NormalizedRepositoryLayer(layers[1])} \cup {one[i] : i \in 2 .. 1}
  BY <1>3, MergedLayers, Zenon
<1>5. alone.layers \subseteq merged.layers
  BY <1>2, <1>4
<1> HIDE DEF merged, alone
<1>6. EvaluateFindings(merged, findings, at).verdict = "pass"
        => EvaluateFindings(alone, findings, at).verdict = "pass"
  BY <1>5, VerdictIs
<1> QED BY <1>6 DEF merged, alone

\* The release time check of a report is as good as a new evaluation: when
\* the review passed and every exception it applied still holds, evaluating
\* the same policy at the time of the release passes too.
THEOREM ReleaseTimeReevaluates ==
  ASSUME NEW policy, NEW findings, NEW at, NEW now,
         EvaluateFindings(policy, findings, at).verdict = "pass",
         \A e \in EvaluateFindings(policy, findings, at).applied : now < e.expires
  PROVE  EvaluateFindings(policy, findings, now).verdict = "pass"
<1> DEFINE C == {c \in policy.layers \X findings : Contributes(c[1], c[2])}
<1>1. EvaluateFindings(policy, findings, at).applied
        = UNION {MatchingExceptions(c[1], c[2], at) : c \in C}
  BY DEF EvaluateFindings
<1>2. SUFFICES ASSUME NEW l \in policy.layers, NEW f \in findings,
                      Contributes(l, f), ContributionLevel(l, f) = "fail",
                      MatchingExceptions(l, f, now) = {}
               PROVE  FALSE
  BY VerdictIs
<1>3. PICK e \in MatchingExceptions(l, f, at) : TRUE
  BY <1>2, VerdictIs
<1>4. e \in EvaluateFindings(policy, findings, at).applied
  <2>1. <<l, f>> \in C
    BY <1>2
  <2>2. MatchingExceptions(l, f, at) \in {MatchingExceptions(c[1], c[2], at) : c \in C}
    BY <2>1
  <2> QED BY <1>1, <1>3, <2>2
<1>5. e \in MatchingExceptions(l, f, now)
  BY <1>3, <1>4 DEF MatchingExceptions
<1> QED BY <1>2, <1>5

\* Time only takes exceptions away: what passes at a time passes at every
\* earlier one, so a review never becomes acceptable by waiting.
THEOREM WaitingNeverHelps ==
  ASSUME NEW policy, NEW findings, NEW at \in Nat, NEW earlier \in Nat, earlier <= at,
         \A l \in policy.layers : \A e \in l.exceptions : e.expires \in Nat,
         EvaluateFindings(policy, findings, at).verdict = "pass"
  PROVE  EvaluateFindings(policy, findings, earlier).verdict = "pass"
<1>1. ASSUME NEW l \in policy.layers, NEW f \in findings
      PROVE  MatchingExceptions(l, f, at) \subseteq MatchingExceptions(l, f, earlier)
  <2>1. ASSUME NEW e \in MatchingExceptions(l, f, at)
        PROVE  e \in MatchingExceptions(l, f, earlier)
    <3>1. e \in l.exceptions /\ e.expires \in Nat /\ at < e.expires
      BY DEF MatchingExceptions
    <3>2. earlier < e.expires
      BY <3>1
    <3> QED BY <3>2 DEF MatchingExceptions
  <2> QED BY <2>1
<1> QED BY <1>1, VerdictIs

\* Every difference between two snapshots, by its rule.
LEMMA DiffIs ==
  ASSUME NEW a, NEW b, NEW f
  PROVE  LET Both == DOMAIN a.operations \cap DOMAIN b.operations
             A(k) == a.operations[k]
             B(k) == b.operations[k]
         IN  f \in DiffSnapshots(a, b) <=>
               \/ \E k \in DOMAIN a.operations \ DOMAIN b.operations :
                    f = [rule |-> "operation.removed", subject |-> <<k>>]
               \/ \E k \in DOMAIN b.operations \ DOMAIN a.operations :
                    f = [rule |-> "operation.added", subject |-> <<k>>]
               \/ \E n \in a.schemas \ b.schemas : f = [rule |-> "schema.removed", subject |-> <<n>>]
               \/ \E n \in b.schemas \ a.schemas : f = [rule |-> "schema.added", subject |-> <<n>>]
               \/ \E k \in Both : f \in OperationBreakingChanges(k, A(k), B(k))
               \/ \E k \in Both : f \in OperationAdditiveChanges(k, A(k), B(k))
BY DEF DiffSnapshots, Changes

\* The changes of one operation, as the conditions under which a finding is one.
LEMMA OperationDiffIs ==
  ASSUME NEW k, NEW a, NEW b, NEW f
  PROVE  /\ f \in OperationBreakingChanges(k, a, b) <=>
              \/ \E q \in DOMAIN b.parameters : /\ b.parameters[q] /\ q \notin DOMAIN a.parameters
                   /\ f = [rule |-> "request.parameter.required_added", subject |-> <<k, q>>]
              \/ \E q \in DOMAIN b.parameters : /\ b.parameters[q] /\ q \in DOMAIN a.parameters /\ ~ a.parameters[q]
                   /\ f = [rule |-> "request.parameter.became_required", subject |-> <<k, q>>]
              \/ b.body /\ ~ a.body /\ f = [rule |-> "request.body.became_required", subject |-> <<k>>]
              \/ \E s \in a.statuses \ b.statuses :
                   f = [rule |-> "response.status.removed", subject |-> <<k, s>>]
         /\ f \in OperationAdditiveChanges(k, a, b) <=>
              \E s \in b.statuses \ a.statuses :
                 f = [rule |-> "response.status.added", subject |-> <<k, s>>]
BY DEF OperationBreakingChanges, OperationAdditiveChanges, Changes

\* What it means that nothing of a snapshot is broken by another.
Compatible(a, b) ==
  /\ DOMAIN a.operations \subseteq DOMAIN b.operations
  /\ a.schemas \subseteq b.schemas
  /\ \A k \in DOMAIN a.operations :
       LET was == a.operations[k]
           is == b.operations[k]
       IN  /\ \A q \in DOMAIN is.parameters :
                is.parameters[q] => q \in DOMAIN was.parameters /\ was.parameters[q]
           /\ is.body => was.body
           /\ was.statuses \subseteq is.statuses

\* The differences contain no breaking change exactly when the snapshots are
\* compatible: no rule is missed, and no rule overlaps another.
THEOREM BreakingIsIncompatible ==
  ASSUME NEW a, NEW b
  PROVE  Breaking(DiffSnapshots(a, b)) = {} <=> Compatible(a, b)
<1>1. ASSUME Compatible(a, b), NEW f \in DiffSnapshots(a, b)
      PROVE  f.rule \notin BreakingRules
  <2>1. ASSUME NEW k \in DOMAIN a.operations \cap DOMAIN b.operations
        PROVE  f \notin OperationBreakingChanges(k, a.operations[k], b.operations[k])
    BY <1>1, <2>1, OperationDiffIs DEF Compatible
  <2>2. \/ f.rule = "operation.added" \/ f.rule = "schema.added" \/ f.rule = "response.status.added"
    BY <1>1, <2>1, DiffIs, OperationDiffIs DEF Compatible
  <2> QED BY <2>2 DEF BreakingRules
<1>2. ASSUME Breaking(DiffSnapshots(a, b)) = {}
      PROVE  Compatible(a, b)
  <2>1. \A f \in DiffSnapshots(a, b) : f.rule \notin BreakingRules
    BY <1>2 DEF Breaking
  <2>2. \A x : /\ [rule |-> "operation.removed", subject |-> x] \notin DiffSnapshots(a, b)
               /\ [rule |-> "schema.removed", subject |-> x] \notin DiffSnapshots(a, b)
               /\ [rule |-> "request.parameter.required_added", subject |-> x] \notin DiffSnapshots(a, b)
               /\ [rule |-> "request.parameter.became_required", subject |-> x] \notin DiffSnapshots(a, b)
               /\ [rule |-> "request.body.became_required", subject |-> x] \notin DiffSnapshots(a, b)
               /\ [rule |-> "response.status.removed", subject |-> x] \notin DiffSnapshots(a, b)
    BY <2>1 DEF BreakingRules
  <2>3. DOMAIN a.operations \subseteq DOMAIN b.operations
    <3>1. ASSUME NEW k \in DOMAIN a.operations, k \notin DOMAIN b.operations
          PROVE  [rule |-> "operation.removed", subject |-> <<k>>] \in DiffSnapshots(a, b)
      BY <3>1, DiffIs
    <3> QED BY <2>2, <3>1, Zenon
  <2>4. a.schemas \subseteq b.schemas
    <3>1. ASSUME NEW n \in a.schemas, n \notin b.schemas
          PROVE  [rule |-> "schema.removed", subject |-> <<n>>] \in DiffSnapshots(a, b)
      BY <3>1, DiffIs
    <3> QED BY <2>2, <3>1, Zenon
  <2>5. ASSUME NEW k \in DOMAIN a.operations
        PROVE  /\ \A q \in DOMAIN b.operations[k].parameters :
                    b.operations[k].parameters[q] =>
                      q \in DOMAIN a.operations[k].parameters /\ a.operations[k].parameters[q]
               /\ b.operations[k].body => a.operations[k].body
               /\ a.operations[k].statuses \subseteq b.operations[k].statuses
    <3> DEFINE was == a.operations[k]
               is == b.operations[k]
    <3>1. \A f : f \in OperationBreakingChanges(k, was, is) => f \in DiffSnapshots(a, b)
      BY <2>3, DiffIs
    <3> HIDE DEF was, is
    <3>2. ASSUME NEW q \in DOMAIN is.parameters, is.parameters[q]
          PROVE  q \in DOMAIN was.parameters /\ was.parameters[q]
      <4>1. q \in DOMAIN was.parameters
        <5>1. q \notin DOMAIN was.parameters =>
                [rule |-> "request.parameter.required_added", subject |-> <<k, q>>]
                  \in OperationBreakingChanges(k, was, is)
          BY <3>2, OperationDiffIs
        <5> QED BY <2>2, <3>1, <5>1, Zenon
      <4>2. was.parameters[q]
        <5>1. ~ was.parameters[q] =>
                [rule |-> "request.parameter.became_required", subject |-> <<k, q>>]
                  \in OperationBreakingChanges(k, was, is)
          BY <3>2, <4>1, OperationDiffIs
        <5> QED BY <2>2, <3>1, <5>1, Zenon
      <4> QED BY <4>1, <4>2
    <3>3. is.body => was.body
      <4>1. is.body /\ ~ was.body =>
              [rule |-> "request.body.became_required", subject |-> <<k>>]
                \in OperationBreakingChanges(k, was, is)
        BY OperationDiffIs
      <4> QED BY <2>2, <3>1, <4>1, Zenon
    <3>4. ASSUME NEW s \in was.statuses, s \notin is.statuses
          PROVE  FALSE
      <4>1. [rule |-> "response.status.removed", subject |-> <<k, s>>]
              \in OperationBreakingChanges(k, was, is)
        BY <3>4, OperationDiffIs
      <4> QED BY <2>2, <3>1, <4>1, Zenon
    <3> QED BY <3>2, <3>3, <3>4 DEF was, is
  <2> QED BY <2>3, <2>4, <2>5 DEF Compatible
<1> QED BY <1>1, <1>2 DEF Breaking

\* Compatible steps compose, and nothing is found between the ends of two of
\* them that was not found at one.
LEMMA CompatibleStepsCompose ==
  ASSUME NEW a, NEW b, NEW c, Compatible(a, b), Compatible(b, c)
  PROVE  Compatible(a, c) /\ DiffSnapshots(a, c) \subseteq DiffSnapshots(a, b) \cup DiffSnapshots(b, c)
<1>1. Compatible(a, c)
  <2>1. DOMAIN a.operations \subseteq DOMAIN c.operations /\ a.schemas \subseteq c.schemas
    BY DEF Compatible
  <2>2. ASSUME NEW k \in DOMAIN a.operations
        PROVE  /\ \A q \in DOMAIN c.operations[k].parameters :
                    c.operations[k].parameters[q] =>
                      q \in DOMAIN a.operations[k].parameters /\ a.operations[k].parameters[q]
               /\ c.operations[k].body => a.operations[k].body
               /\ a.operations[k].statuses \subseteq c.operations[k].statuses
    BY DEF Compatible
  <2> QED BY <2>1, <2>2 DEF Compatible
<1>2. ASSUME NEW f \in DiffSnapshots(a, c)
      PROVE  f \in DiffSnapshots(a, b) \/ f \in DiffSnapshots(b, c)
  <2>1. f.rule \in Rules \ BreakingRules
    <3>1. f.rule \notin BreakingRules
      BY <1>1, BreakingIsIncompatible DEF Breaking
    <3>2. f.rule \in Rules
      BY DiffIs, OperationDiffIs DEF Rules, BreakingRules, AdditiveRules
    <3> QED BY <3>1, <3>2
  <2>2. \/ \E k \in DOMAIN c.operations \ DOMAIN a.operations :
             f = [rule |-> "operation.added", subject |-> <<k>>]
        \/ \E n \in c.schemas \ a.schemas : f = [rule |-> "schema.added", subject |-> <<n>>]
        \/ \E k \in DOMAIN a.operations \cap DOMAIN c.operations :
             f \in OperationAdditiveChanges(k, a.operations[k], c.operations[k])
    BY <2>1, DiffIs, OperationDiffIs DEF BreakingRules
  <2>3. CASE \E k \in DOMAIN c.operations \ DOMAIN a.operations :
               f = [rule |-> "operation.added", subject |-> <<k>>]
    BY <2>3, DiffIs
  <2>4. CASE \E n \in c.schemas \ a.schemas : f = [rule |-> "schema.added", subject |-> <<n>>]
    BY <2>4, DiffIs
  <2>5. ASSUME NEW k \in DOMAIN a.operations \cap DOMAIN c.operations,
               f \in OperationAdditiveChanges(k, a.operations[k], c.operations[k])
        PROVE  f \in DiffSnapshots(a, b) \/ f \in DiffSnapshots(b, c)
    <3>1. k \in DOMAIN b.operations
      BY DEF Compatible
    <3>2. \/ f \in OperationAdditiveChanges(k, a.operations[k], b.operations[k])
          \/ f \in OperationAdditiveChanges(k, b.operations[k], c.operations[k])
      BY <2>5, OperationDiffIs
    <3> QED BY <3>1, <3>2, DiffIs
  <2> QED BY <2>2, <2>3, <2>4, <2>5
<1> QED BY <1>1, <1>2

\* A policy that fails every breaking change and grants no exception.
Strict(policy) ==
  /\ \A l \in policy.layers : l.exceptions = {}
  /\ \E r \in policy.layers : /\ r.source = "repository"
                              /\ \A b \in BreakingRules : b \in DOMAIN r.rules /\ r.rules[b] = "fail"

\* Passing releases compose: under a strict policy, whatever its servers ask
\* of additions, a track that moves from a to b and from b to c by passing
\* reviews has made a move that passes from a to c.  Reviewing against the
\* current revision alone is therefore enough.
THEOREM PassingReleasesCompose ==
  ASSUME NEW policy, Strict(policy), NEW a, NEW b, NEW c, NEW t1, NEW t2, NEW t3,
         EvaluateFindings(policy, DiffSnapshots(a, b), t1).verdict = "pass",
         EvaluateFindings(policy, DiffSnapshots(b, c), t2).verdict = "pass"
  PROVE  EvaluateFindings(policy, DiffSnapshots(a, c), t3).verdict = "pass"
<1>1. \A l \in policy.layers : \A f, t : MatchingExceptions(l, f, t) = {}
  BY DEF Strict, MatchingExceptions
<1>2. ASSUME NEW F, NEW t, EvaluateFindings(policy, F, t).verdict = "pass"
      PROVE  Breaking(F) = {}
  <2>1. PICK r \in policy.layers : /\ r.source = "repository"
                                   /\ \A x \in BreakingRules : x \in DOMAIN r.rules /\ r.rules[x] = "fail"
    BY DEF Strict
  <2>2. ASSUME NEW f \in F, f.rule \in BreakingRules
        PROVE  Contributes(r, f) /\ ContributionLevel(r, f) = "fail"
    BY <2>1, <2>2 DEF Contributes, ContributionLevel
  <2>3. \A f \in F : f.rule \notin BreakingRules
    BY <1>1, <1>2, <2>1, <2>2, VerdictIs
  <2> QED BY <2>3 DEF Breaking
<1>3. Compatible(a, b) /\ Compatible(b, c)
  BY <1>2, BreakingIsIncompatible
<1>4. DiffSnapshots(a, c) \subseteq DiffSnapshots(a, b) \cup DiffSnapshots(b, c)
  BY <1>3, CompatibleStepsCompose
<1>5. SUFFICES ASSUME NEW l \in policy.layers, NEW f \in DiffSnapshots(a, c),
                      Contributes(l, f), ContributionLevel(l, f) = "fail"
               PROVE  FALSE
  BY VerdictIs
<1>6. f \in DiffSnapshots(a, b) \/ f \in DiffSnapshots(b, c)
  BY <1>4
<1> QED BY <1>1, <1>5, <1>6, VerdictIs

\* A merged policy survives its own validation: merging the canonical layers
\* again changes nothing, so a report carries a policy that its readers accept.
THEOREM MergedIsCanonical ==
  ASSUME NEW layers, IsLayers(layers), Mergeable(layers)
  PROVE  CanonicalProjection(CanonicalReviewPolicy(MergePolicy(layers)))
<1> DEFINE p == CanonicalReviewPolicy(MergePolicy(layers))
           n == NormalizedRepositoryLayer(layers[1])
<1>1. layers # <<>> /\ layers[1].source = "repository" /\ ValidLayer(layers[1])
      /\ \A i \in 2 .. Len(layers) : MayJoin(n, layers[i])
  BY DEF Mergeable
<1>2. /\ p.layers = {n} \cup {layers[i] : i \in 2 .. Len(layers)}
      /\ p.baseline = \E i \in 1 .. Len(layers) : layers[i].baseline
      /\ Len(layers) \in Nat /\ 1 \in 1 .. Len(layers) /\ IsLayer(layers[1])
  BY <1>1, MergedLayers, Zenon DEF IsLayers
<1>3. /\ IsLayer(n) /\ n.source = "repository" /\ n.baseline = layers[1].baseline
      /\ n.exceptions = layers[1].exceptions
      /\ n.rules = [r \in Rules |-> IF r \in DOMAIN layers[1].rules THEN layers[1].rules[r] ELSE DefaultLevel(r)]
  BY <1>1, <1>2, NormalizedLayer
<1> HIDE DEF n, p
<1>4. ValidLayer(n)
  BY <1>1, <1>3 DEF ValidLayer, DefaultLevel, Levels
<1>5. n = NormalizedRepositoryLayer(n)
  <2>1. LET m == NormalizedRepositoryLayer(n) IN
        /\ IsLayer(m) /\ m.name = n.name /\ m.source = n.source
        /\ m.baseline = n.baseline /\ m.exceptions = n.exceptions
        /\ m.rules = [r \in Rules |-> IF r \in DOMAIN n.rules THEN n.rules[r] ELSE DefaultLevel(r)]
    BY <1>3, NormalizedLayer
  <2>2. [r \in Rules |-> IF r \in DOMAIN n.rules THEN n.rules[r] ELSE DefaultLevel(r)] = n.rules
    BY <1>3
  <2> QED BY <1>3, <2>1, <2>2 DEF IsLayer
<1>6. \A l \in p.layers \ {n} : MayJoin(n, l)
  BY <1>1, <1>2
<1>7. p.baseline = \E l \in p.layers : l.baseline
  <2>1. (\E i \in 1 .. Len(layers) : layers[i].baseline) <=> \E l \in p.layers : l.baseline
    <3>1. \A i \in 1 .. Len(layers) : i = 1 \/ i \in 2 .. Len(layers)
      BY <1>2
    <3>2. \A i \in 2 .. Len(layers) : i \in 1 .. Len(layers)
      BY <1>2
    <3> QED BY <1>2, <1>3, <3>1, <3>2
  <2> QED BY <1>2, <2>1
<1>8. n \in p.layers
  BY <1>2
<1>9. CanonicalProjection(p)
  BY <1>3, <1>4, <1>5, <1>6, <1>7, <1>8 DEF CanonicalProjection
<1> QED BY <1>9 DEF p

\* The release comparison of a review is accepted against the snapshots it was
\* made from: evaluation and validation compute the same comparison from the
\* same policy.
THEOREM ReleasePartIsAccepted ==
  ASSUME NEW q, Reviewable(q), q.release # None, q.candidate # None, IsLayers(q.policy.layers)
  PROVE  ReleaseReportAgainstSnapshots(ReleasePart(EvaluateReview(q)), q.contract, q.release, q.candidate)
<1> DEFINE policy == CanonicalReviewPolicy(MergePolicy(q.policy.layers))
           r == EvaluateReview(q)
           c == EvaluateComparison("release_impact", q.release, q.candidate, policy, q.at)
<1>1. /\ ValidSnapshot(q.release) /\ ValidSnapshot(q.candidate)
      /\ q.release.contract = q.contract /\ q.candidate.contract = q.contract
      /\ q.at # 0 /\ Mergeable(q.policy.layers)
  BY Zenon DEF Reviewable, Normalizable
<1>2. CanonicalProjection(policy)
  BY <1>1, MergedIsCanonical
<1> HIDE DEF policy
<1>3. /\ r.contract = q.contract /\ r.at = q.at /\ r.policy = policy /\ r.digest = policy
      /\ r.comparisons[2] = c
  BY SMTT(30) DEF EvaluateReview, policy
<1> HIDE DEF r
<1>4. /\ c.kind = "release_impact" /\ c.baseline = SnapshotRef(q.release)
      /\ c.candidate = SnapshotRef(q.candidate)
  BY DEF EvaluateComparison
<1> HIDE DEF c
<1> DEFINE x == ReleasePart(r)
<1>5. /\ x.contract = q.contract /\ x.at = q.at /\ x.policy = policy /\ x.digest = policy
      /\ Len(x.comparisons) = 1 /\ x.comparisons[1] = c /\ x.verdict = c.policy.verdict
  BY <1>3 DEF ReleasePart
<1> HIDE DEF x
<1>6. ReleaseReport(x, q.contract, SnapshotRef(q.release), SnapshotRef(q.candidate))
  BY <1>1, <1>2, <1>4, <1>5 DEF ReleaseReport
<1>7. x.comparisons[1] = EvaluateComparison("release_impact", q.release, q.candidate, x.policy, x.at)
  BY <1>5 DEF c
<1>8. ReleaseReportAgainstSnapshots(x, q.contract, q.release, q.candidate)
  BY <1>1, <1>6, <1>7 DEF ReleaseReportAgainstSnapshots
<1> QED BY <1>8 DEF x, r

\* The report of a review is never accepted for a release as it stands: its
\* first comparison is with the target of the pull request, whether or not a
\* release baseline was given.
THEOREM ReviewIsNotAReleaseReport ==
  ASSUME NEW q, NEW contract, NEW baseline, NEW candidate
  PROVE  ~ ReleaseReport(EvaluateReview(q), contract, baseline, candidate)
<1> DEFINE policy == CanonicalReviewPolicy(MergePolicy(q.policy.layers))
           c == EvaluateComparison("pull_request_delta", q.target, q.candidate, policy, q.at)
           d == EvaluateComparison("release_impact", q.release, q.candidate, policy, q.at)
<1>1. EvaluateReview(q).comparisons = <<c>> \o IF q.release = None THEN <<>> ELSE <<d>>
  BY SMTT(30) DEF EvaluateReview
<1>2. c.kind = "pull_request_delta"
  BY DEF EvaluateComparison
<1> HIDE DEF c, d
<1>3. CASE q.release = None
  <2>1. (<<c>> \o <<>>)[1] = c
    OBVIOUS
  <2> QED BY <1>1, <1>2, <1>3, <2>1 DEF ReleaseReport
<1>4. CASE q.release # None
  <2>1. Len(<<c>> \o <<d>>) = 2
    OBVIOUS
  <2> QED BY <1>1, <1>4, <2>1 DEF ReleaseReport
<1> QED BY <1>3, <1>4

\* What a release rests on: when a passing report is accepted against the
\* stored snapshots and its exceptions hold at the time of the release, every
\* difference between the snapshots that some layer of the policy fails has an
\* exception of that layer that is live at that time.
THEOREM ReleasedDifferencesAreAllowed ==
  ASSUME NEW report, NEW contract, NEW base, NEW cand, NEW now,
         ReleaseReportAgainstSnapshots(report, contract, base, cand),
         report.comparisons \in Seq({report.comparisons[1]}),
         report.verdict = "pass", AppliedExceptionsHold(report, now)
  PROVE  \A l \in report.policy.layers, f \in DiffSnapshots(base, cand) :
            Contributes(l, f) /\ ContributionLevel(l, f) = "fail"
              => MatchingExceptions(l, f, now) # {}
<1> DEFINE c == report.comparisons[1]
           e == EvaluateFindings(report.policy, DiffSnapshots(base, cand), report.at)
<1>1. /\ c = EvaluateComparison("release_impact", base, cand, report.policy, report.at)
      /\ Len(report.comparisons) = 1 /\ report.verdict = c.policy.verdict
  BY DEF ReleaseReportAgainstSnapshots, ReleaseReport
<1>2. c.policy = e
  BY <1>1 DEF EvaluateComparison
<1>3. 1 \in DOMAIN report.comparisons
  BY <1>1
<1>4. \A x \in e.applied : now < x.expires
  BY <1>2, <1>3 DEF AppliedExceptionsHold
<1>5. EvaluateFindings(report.policy, DiffSnapshots(base, cand), now).verdict = "pass"
  BY <1>1, <1>2, <1>4, ReleaseTimeReevaluates
<1> QED BY <1>5, VerdictIs

(***************************************************************************)
(* The gateway                                                             *)
(***************************************************************************)
\* The slot of server.activation and server.initialize exclude.
Holders ==
  /\ \A o \in Openers : pc[o] = "opening" => initialize = o
  /\ \A a \in Activators :
       pc[a] \in ActivatorStates \ {"start", "queued", "gone"} => token = a
  /\ \A c \in Closers :
       /\ pc[c] \in CloserStates \ {"start", "gone"} => token = c
       /\ pc[c] \in CloserStates \ {"start", "locking", "gone"} => initialize = c
       /\ pc[c] \in CloserStates \ {"start", "locking"} => "closed" \in server

\* The gate: the counter, the flag, and the drained gate a promotion proceeds with.
Counted == readers = Cardinality(InGate)
Flagged == "promoting" \in gate <=> Promoters # {}
Drained == \A a \in Activators : pc[a] \in {"promoted", "writing", "ending"} => readers = 0

\* The store: it is open while the delegate is installed, a request renders only then, and
\* once server.closed is set only the Close that is draining the gate still has it open.
Stored ==
  /\ "installed" \in server => coordinator = "open"
  /\ RenderedFromOpenStore
  /\ "closed" \in server =>
       \/ \E c \in Closers : pc[c] \in {"closing", "draining"}
       \/ coordinator # "open" /\ "installed" \notin server
  /\ \A c, d \in Closers : pc[c] \in {"closing", "draining"} => pc[d] \notin {"releasing", "gone"}

Inv == TypeOK /\ Holders /\ Counted /\ Flagged /\ Drained /\ Stored

\* An admitted request raises the count by one, an answered one lowers it.
LEMMA InGateFinite == IsFiniteSet(InGate) /\ Cardinality(InGate) \in Nat
BY FS_Subset, FS_CardinalityType, GatewayConstants DEF InGate

\* The count is zero exactly when nobody is in the gate.
LEMMA InGateEmpty == Cardinality(InGate) = 0 <=> InGate = {}
BY InGateFinite, FS_EmptySet

-------------------------------------------------------------------------------
\* Types

PcTyped(f) ==
  /\ f \in [Procs -> RequestStates \cup ActivatorStates \cup OpenerStates \cup CloserStates]
  /\ \A r \in Requests : f[r] \in RequestStates
  /\ \A a \in Activators : f[a] \in ActivatorStates
  /\ \A o \in Openers : f[o] \in OpenerStates
  /\ \A c \in Closers : f[c] \in CloserStates

\* A goroutine that moves within its states keeps every place in its type.
LEMMA GotoTyped ==
  ASSUME PcTyped(pc), NEW p \in Procs, NEW l,
         \/ p \in Requests /\ l \in RequestStates
         \/ p \in Activators /\ l \in ActivatorStates
         \/ p \in Openers /\ l \in OpenerStates
         \/ p \in Closers /\ l \in CloserStates
  PROVE  PcTyped([pc EXCEPT ![p] = l])
BY GatewayConstants DEF PcTyped, Procs

\* Every step keeps the types.
LEMMA TypeNext == TypeOK /\ [Next]_vars => TypeOK'
<1> SUFFICES ASSUME TypeOK, [Next]_vars PROVE TypeOK'
  OBVIOUS
<1>0. PcTyped(pc)
  BY DEF TypeOK, PcTyped
<1>1. ASSUME NEW p \in Procs, Cancel(p) PROVE TypeOK'
  BY <1>1, GatewayConstants DEF Cancel, TypeOK, shared, locks
<1>2. ASSUME NEW r \in Requests, RequestStep(r) PROVE TypeOK'
  <2>1. CASE Enter(r)
    <3>1. PcTyped(pc')
      BY <1>0, <2>1, GotoTyped DEF Enter, Goto, RequestStates, Procs
    <3>2. gate' = gate /\ readers' \in Nat /\ asleep' \subseteq Procs
      BY <2>1 DEF TypeOK, Enter, Sleep, shared, Procs
    <3>3. UNCHANGED <<cancelled, locks, coordinator, server, version>>
      BY <2>1 DEF Enter
    <3> QED
      BY <3>1, <3>2, <3>3 DEF TypeOK, PcTyped, locks
  <2>2. CASE EnterCancelled(r)
    <3>1. PcTyped(pc')
      BY <1>0, <2>2, GotoTyped, Zenon DEF EnterCancelled, Goto, RequestStates, Procs
    <3> QED
      BY <2>2, <3>1 DEF TypeOK, PcTyped, EnterCancelled, shared, locks, Procs
  <2>3. CASE Dispatch(r)
    <3>1. PcTyped(pc')
      BY <1>0, <2>3, GotoTyped DEF Dispatch, Goto, RequestStates, Procs
    <3> QED
      BY <2>3, <3>1 DEF TypeOK, PcTyped, Dispatch, shared, locks, Procs
  <2>4. CASE Render(r)
    <3>1. PcTyped(pc')
      BY <1>0, <2>4, GotoTyped, Zenon DEF Render, Goto, RequestStates, Procs
    <3> QED
      BY <2>4, <3>1 DEF TypeOK, PcTyped, Render, shared, locks, Procs
  <2>5. CASE Leave(r)
    <3>1. PcTyped(pc')
      BY <1>0, <2>5, GotoTyped, Zenon DEF Leave, Goto, RequestStates, Procs
    <3> QED
      BY <2>5, <3>1 DEF TypeOK, PcTyped, Leave, Notify, shared, locks, Procs
  <2> QED
    BY <1>2, <2>1, <2>2, <2>3, <2>4, <2>5 DEF RequestStep
<1>3. ASSUME NEW a \in Activators, ActivatorStep(a) PROVE TypeOK'
  <2>1. CASE ActivateStart(a)
    <3>1. PcTyped(pc')
      BY <1>0, <2>1, GotoTyped DEF ActivateStart, Goto, ActivatorStates, Procs
    <3> QED
      BY <2>1, <3>1 DEF TypeOK, PcTyped, ActivateStart, shared, locks, Procs
  <2>2. CASE ActivateTake(a)
    <3>1. PcTyped(pc')
      BY <1>0, <2>2, GotoTyped DEF ActivateTake, Goto, ActivatorStates, Procs
    <3> QED
      BY <2>2, <3>1 DEF TypeOK, PcTyped, ActivateTake, shared, locks, Procs
  <2>3. CASE ActivateLock(a)
    <3>1. PcTyped(pc')
      BY <1>0, <2>3, GotoTyped DEF ActivateLock, Goto, ActivatorStates, Procs
    <3> QED
      BY <2>3, <3>1 DEF TypeOK, PcTyped, ActivateLock, shared, locks, Procs
  <2>4. CASE ActivateOpen(a)
    <3>1. PcTyped(pc')
      BY <1>0, <2>4, GotoTyped DEF ActivateOpen, EnsureRuntime, Goto, ActivatorStates, Procs
    <3> QED
      BY <2>4, <3>1, Zenon DEF TypeOK, PcTyped, ActivateOpen, EnsureRuntime, shared, locks, Procs
  <2>5. CASE CompileFails(a)
    <3>1. PcTyped(pc')
      BY <1>0, <2>5, GotoTyped, Zenon DEF CompileFails, Goto, ActivatorStates, Procs
    <3> QED
      BY <2>5, <3>1 DEF TypeOK, PcTyped, CompileFails, shared, locks, Procs
  <2>6. CASE BeginPromotion(a)
    <3>1. PcTyped(pc')
      BY <1>0, <2>6, GotoTyped DEF BeginPromotion, PromotionTurn, Notify, Goto, ActivatorStates, Procs
    <3> QED
      BY <2>6, <3>1, Zenon DEF TypeOK, PcTyped, BeginPromotion, PromotionTurn, Notify, shared, locks, Procs
  <2>7. CASE DrainReaders(a)
    <3>1. PcTyped(pc')
      BY <1>0, <2>7, GotoTyped DEF DrainReaders, PromotionTurn, Notify, Goto, ActivatorStates, Procs
    <3> QED
      BY <2>7, <3>1, Zenon DEF TypeOK, PcTyped, DrainReaders, PromotionTurn, Notify, shared, locks, Procs
  <2>8. CASE LockRuntime(a)
    <3>1. PcTyped(pc')
      BY <1>0, <2>8, GotoTyped, Zenon DEF LockRuntime, Goto, ActivatorStates, Procs
    <3> QED
      BY <2>8, <3>1 DEF TypeOK, PcTyped, LockRuntime, shared, locks, Procs
  <2>9. CASE Promote(a)
    <3>1. PcTyped(pc')
      BY <1>0, <2>9, GotoTyped, Zenon DEF Promote, Goto, ActivatorStates, Procs
    <3> QED
      BY <2>9, <3>1 DEF TypeOK, PcTyped, Promote, shared, locks, Procs
  <2>10. CASE EndPromotion(a)
    <3>1. PcTyped(pc')
      BY <1>0, <2>10, GotoTyped, Zenon DEF EndPromotion, Notify, Goto, ActivatorStates, Procs
    <3> QED
      BY <2>10, <3>1 DEF TypeOK, PcTyped, EndPromotion, Notify, shared, locks, Procs
  <2>11. CASE ActivateRelease(a)
    <3>1. PcTyped(pc')
      BY <1>0, <2>11, GotoTyped, Zenon DEF ActivateRelease, Goto, ActivatorStates, Procs
    <3> QED
      BY <2>11, <3>1 DEF TypeOK, PcTyped, ActivateRelease, shared, locks, Procs
  <2> QED
    BY <1>3, <2>1, <2>2, <2>3, <2>4, <2>5, <2>6, <2>7, <2>8, <2>9, <2>10, <2>11, Zenon DEF ActivatorStep
<1>4. ASSUME NEW o \in Openers, OpenerStep(o) PROVE TypeOK'
  <2>1. PcTyped(pc')
    BY <1>0, <1>4, GotoTyped DEF OpenerStep, RecoverLock, Recover, EnsureRuntime, Goto,
       OpenerStates, Procs
  <2> QED
    BY <1>4, <2>1, Zenon DEF TypeOK, PcTyped, OpenerStep, RecoverLock, Recover, EnsureRuntime, shared,
       locks
<1>5. ASSUME NEW c \in Closers, CloserStep(c) PROVE TypeOK'
  <2>1. PcTyped(pc')
    BY <1>0, <1>5, GotoTyped DEF CloserStep, CloseTake, CloseLock, CloseAdmissions, ShutDown,
       CloseRelease, Goto, CloserStates, Procs
  <2> QED
    BY <1>5, <2>1, Zenon DEF TypeOK, PcTyped, CloserStep, CloseTake, CloseLock, CloseAdmissions, ShutDown,
       CloseRelease, shared, locks, Notify, Procs
<1>6. CASE UNCHANGED vars
  BY <1>6 DEF vars, TypeOK
<1> QED
  BY <1>1, <1>2, <1>3, <1>4, <1>5, <1>6 DEF Next, Finished

-------------------------------------------------------------------------------
\* Frames

\* A step of one goroutine moves no other.
Moved(p) == \A q \in Procs \ {p} : pc'[q] = pc[q]

\* A request moves only itself, and leaves the flags, the locks and the store alone.
LEMMA RequestFrame ==
  ASSUME TypeOK, NEW r \in Requests, RequestStep(r)
  PROVE  /\ Moved(r)
         /\ UNCHANGED <<gate, token, initialize, writer, coordinator, server, version>>
BY DEF RequestStep, Enter, EnterCancelled, Dispatch, Render, Leave, Goto, Moved, TypeOK, shared,
       locks, Procs

\* An activation moves only itself and never counts as a reader.
LEMMA ActivatorFrame ==
  ASSUME TypeOK, NEW a \in Activators, ActivatorStep(a)
  PROVE  Moved(a) /\ UNCHANGED readers
<1>1. Moved(a)
  BY Zenon DEF ActivatorStep, ActivateStart, ActivateTake, ActivateLock, ActivateOpen, CompileFails,
         BeginPromotion, PromotionTurn, DrainReaders, LockRuntime, Promote, EndPromotion,
         ActivateRelease, EnsureRuntime, Goto, Moved, TypeOK, Procs
<1>2. UNCHANGED readers
  BY DEF ActivatorStep, ActivateStart, ActivateTake, ActivateLock, ActivateOpen, CompileFails,
         BeginPromotion, PromotionTurn, DrainReaders, LockRuntime, Promote, EndPromotion,
         ActivateRelease, EnsureRuntime, shared
<1> QED
  BY <1>1, <1>2, Zenon

\* Recover moves only itself and leaves the gate and the slot alone.
LEMMA OpenerFrame ==
  ASSUME TypeOK, NEW o \in Openers, OpenerStep(o)
  PROVE  Moved(o) /\ UNCHANGED <<readers, gate, token, version>>
BY DEF OpenerStep, RecoverLock, Recover, EnsureRuntime, Goto, Moved, TypeOK, shared, Procs

\* Close moves only itself and changes the gate only by closing it.
LEMMA CloserFrame ==
  ASSUME TypeOK, NEW c \in Closers, CloserStep(c)
  PROVE  Moved(c) /\ UNCHANGED <<readers, version>> /\ gate' \in {gate, gate \cup {"closed"}}
BY DEF CloserStep, CloseTake, CloseLock, CloseAdmissions, ShutDown, CloseRelease, Goto, Moved,
       TypeOK, shared, Procs

-------------------------------------------------------------------------------
\* The counter of the gate

\* A step of a goroutine that is not a request leaves the gate's requests alone.
LEMMA OthersKeepInGate ==
  ASSUME NEW p \in Procs \ Requests, Moved(p)
  PROVE  InGate' = InGate
BY DEF Moved, InGate, Procs

\* A request keeps the count of readers exact.
LEMMA RequestCounted ==
  ASSUME TypeOK, Counted, NEW r \in Requests, RequestStep(r)
  PROVE  Counted'
<1>1. Moved(r)
  BY RequestFrame
<1>2. \A q \in Requests \ {r} : q \in InGate <=> q \in InGate'
  BY <1>1 DEF Moved, InGate, Procs
<1>3. CASE Enter(r)
  <2>1. r \notin InGate
    BY <1>3 DEF Enter, InGate
  <2>2. CASE readers' = readers + 1 /\ pc'[r] = "admitted"
    <3>1. InGate' = InGate \cup {r}
      BY <1>2, <2>2 DEF InGate
    <3> QED
      BY <2>1, <2>2, <3>1, InGateFinite, FS_AddElement DEF Counted
  <2>3. CASE readers' = readers /\ pc'[r] \in {"gone", "waiting"}
    <3>1. InGate' = InGate
      BY <1>2, <2>1, <2>3 DEF InGate
    <3> QED
      BY <2>3, <3>1 DEF Counted
  <2> QED
    BY <1>3, <2>2, <2>3 DEF Enter, Goto, TypeOK, shared, Procs
<1>4. CASE EnterCancelled(r) \/ Dispatch(r) \/ Render(r)
  <2>1. readers' = readers /\ (r \in InGate <=> r \in InGate')
    BY <1>4 DEF EnterCancelled, Dispatch, Render, Goto, InGate, TypeOK, shared, Procs
  <2>2. InGate' = InGate
    BY <1>2, <2>1 DEF InGate
  <2> QED
    BY <2>1, <2>2 DEF Counted
<1>5. CASE Leave(r)
  <2>1. r \in InGate /\ readers' = readers - 1 /\ pc'[r] = "gone"
    BY <1>5 DEF Leave, Goto, InGate, TypeOK, Procs
  <2>2. InGate' = InGate \ {r}
    BY <1>2, <2>1 DEF InGate
  <2> QED
    BY <2>1, <2>2, InGateFinite, FS_RemoveElement DEF Counted
<1> QED
  BY <1>3, <1>4, <1>5 DEF RequestStep

\* Every step keeps the count of readers exact.
LEMMA CountedNext ==
  ASSUME TypeOK, Counted, [Next]_vars
  PROVE  Counted'
<1>1. ASSUME NEW p \in Procs, Cancel(p) PROVE Counted'
  BY <1>1 DEF Cancel, Counted, InGate, shared
<1>2. ASSUME NEW a \in Activators, ActivatorStep(a) PROVE Counted'
  BY <1>2, ActivatorFrame, OthersKeepInGate, GatewayConstants DEF Counted, Procs
<1>3. ASSUME NEW o \in Openers, OpenerStep(o) PROVE Counted'
  BY <1>3, OpenerFrame, OthersKeepInGate, GatewayConstants DEF Counted, Procs
<1>4. ASSUME NEW c \in Closers, CloserStep(c) PROVE Counted'
  BY <1>4, CloserFrame, OthersKeepInGate, GatewayConstants DEF Counted, Procs
<1>5. CASE UNCHANGED vars
  BY <1>5 DEF vars, Counted, InGate
<1> QED
  BY <1>1, <1>2, <1>3, <1>4, <1>5, RequestCounted DEF Next, Finished

-------------------------------------------------------------------------------
\* The holders of the slot and of server.initialize

\* Every step keeps the holders of the slot and of the mutexes exact.
LEMMA HoldersNext ==
  ASSUME TypeOK, Holders, [Next]_vars
  PROVE  Holders'
<1>1. ASSUME NEW p \in Procs, Cancel(p) PROVE Holders'
  BY <1>1 DEF Cancel, Holders, locks
<1>2. ASSUME NEW r \in Requests, RequestStep(r) PROVE Holders'
  BY <1>2, RequestFrame, GatewayConstants DEF Holders, Moved, Procs
<1>3. ASSUME NEW a \in Activators, ActivatorStep(a) PROVE Holders'
  <2>0. Moved(a)
    BY <1>3, ActivatorFrame
  <2>1. CASE ActivateStart(a)
    BY <2>0, <2>1, GatewayConstants, SMTT(30) DEF Holders, Moved, ActivateStart, Goto, TypeOK, ActivatorStates, CloserStates, locks, Procs
  <2>2. CASE ActivateTake(a)
    BY <2>0, <2>2, GatewayConstants, SMTT(30) DEF Holders, Moved, ActivateTake, Goto, TypeOK, ActivatorStates, CloserStates, locks, Procs
  <2>3. CASE ActivateLock(a)
    BY <2>0, <2>3, GatewayConstants, Zenon DEF Holders, Moved, ActivateLock, Goto, TypeOK, ActivatorStates, CloserStates, locks, Procs
  <2>4. CASE ActivateOpen(a)
    BY <2>0, <2>4, GatewayConstants, SMTT(30) DEF Holders, Moved, ActivateOpen, EnsureRuntime, Goto, TypeOK, ActivatorStates, CloserStates, locks, Procs
  <2>5. CASE CompileFails(a)
    BY <2>0, <2>5, GatewayConstants, ZenonT(60) DEF Holders, Moved, CompileFails, Goto, TypeOK, ActivatorStates, CloserStates, locks, Procs
  <2>6. CASE BeginPromotion(a)
    BY <2>0, <2>6, GatewayConstants, SMTT(30) DEF Holders, Moved, BeginPromotion, PromotionTurn, Goto, TypeOK, ActivatorStates, CloserStates, locks, Procs
  <2>7. CASE DrainReaders(a)
    BY <2>0, <2>7, GatewayConstants, SMTT(30) DEF Holders, Moved, DrainReaders, PromotionTurn, Goto, TypeOK, ActivatorStates, CloserStates, locks, Procs
  <2>8. CASE LockRuntime(a)
    BY <2>0, <2>8, GatewayConstants, Zenon DEF Holders, Moved, LockRuntime, Goto, TypeOK, ActivatorStates, CloserStates, locks, Procs
  <2>9. CASE Promote(a)
    BY <2>0, <2>9, GatewayConstants, Zenon DEF Holders, Moved, Promote, Goto, TypeOK, ActivatorStates, CloserStates, locks, Procs
  <2>10. CASE EndPromotion(a)
    BY <2>0, <2>10, GatewayConstants, Zenon DEF Holders, Moved, EndPromotion, Goto, TypeOK, ActivatorStates, CloserStates, locks, Procs
  <2>11. CASE ActivateRelease(a)
    BY <2>0, <2>11, GatewayConstants DEF Holders, Moved, ActivateRelease, Goto, TypeOK, ActivatorStates, CloserStates, locks, Procs
  <2> QED
    BY <1>3, <2>1, <2>2, <2>3, <2>4, <2>5, <2>6, <2>7, <2>8, <2>9, <2>10, <2>11 DEF ActivatorStep
<1>4. ASSUME NEW o \in Openers, OpenerStep(o) PROVE Holders'
  <2>0. Moved(o)
    BY <1>4, OpenerFrame
  <2>1. CASE RecoverLock(o)
    BY <2>0, <2>1, GatewayConstants, SMTT(30) DEF Holders, Moved, RecoverLock, Goto, TypeOK, OpenerStates, CloserStates, locks, Procs
  <2>2. CASE Recover(o)
    BY <2>0, <2>2, GatewayConstants DEF Holders, Moved, Recover, EnsureRuntime, Goto, TypeOK, OpenerStates, CloserStates, locks, Procs
  <2> QED
    BY <1>4, <2>1, <2>2 DEF OpenerStep
<1>5. ASSUME NEW c \in Closers, CloserStep(c) PROVE Holders'
  <2>0. Moved(c)
    BY <1>5, CloserFrame, Zenon
  <2>1. CASE CloseTake(c)
    BY <2>0, <2>1, GatewayConstants, SMTT(30) DEF Holders, Moved, CloseTake, Goto, TypeOK, ActivatorStates, CloserStates, locks, Procs
  <2>2. CASE CloseLock(c)
    BY <2>0, <2>2, GatewayConstants, Zenon DEF Holders, Moved, CloseLock, Goto, TypeOK, ActivatorStates, CloserStates, locks, Procs
  <2>3. CASE CloseAdmissions(c)
    BY <2>0, <2>3, GatewayConstants, Zenon DEF Holders, Moved, CloseAdmissions, Goto, TypeOK, ActivatorStates, CloserStates, locks, Procs
  <2>4. CASE ShutDown(c)
    BY <2>0, <2>4, GatewayConstants, Zenon DEF Holders, Moved, ShutDown, Goto, TypeOK, ActivatorStates, CloserStates, locks, Procs
  <2>5. CASE CloseRelease(c)
    BY <2>0, <2>5, GatewayConstants DEF Holders, Moved, CloseRelease, Goto, TypeOK, ActivatorStates, CloserStates, locks, Procs
  <2> QED
    BY <1>5, <2>1, <2>2, <2>3, <2>4, <2>5 DEF CloserStep
<1>6. CASE UNCHANGED vars
  BY <1>6 DEF vars, Holders
<1> QED
  BY <1>1, <1>2, <1>3, <1>4, <1>5, <1>6 DEF Next, Finished

-------------------------------------------------------------------------------
\* The promotion flag and the drained gate

\* The slot admits one activation, so there is at most one promotion.
LEMMA OnePromoter ==
  ASSUME TypeOK, Holders, NEW a \in Activators,
         pc[a] \in ActivatorStates \ {"start", "queued", "gone"}
  PROVE  Promoters \subseteq {a}
BY DEF Holders, Promoters, ActivatorStates

\* Only activations become or cease to be promoters.
LEMMA OthersKeepPromoters ==
  ASSUME NEW p \in Procs \ Activators, Moved(p)
  PROVE  Promoters' = Promoters
BY DEF Moved, Promoters, Procs

\* An activation keeps the flag exact and the gate drained while it publishes.
LEMMA ActivatorFlagged ==
  ASSUME TypeOK, Holders, Flagged, Drained, NEW a \in Activators, ActivatorStep(a)
  PROVE  Flagged' /\ Drained'
<1>1. Moved(a) /\ readers' = readers
  BY ActivatorFrame
<1>2. \A b \in Activators \ {a} : (b \in Promoters' <=> b \in Promoters) /\ pc'[b] = pc[b]
  BY <1>1 DEF Moved, Promoters, Procs
<1>3. ASSUME gate' = gate, a \in Promoters' <=> a \in Promoters,
             pc'[a] \in {"promoted", "writing", "ending"} => readers = 0
      PROVE  Flagged' /\ Drained'
  <2>1. Promoters' = Promoters
    BY <1>2, <1>3, Zenon DEF Promoters
  <2> QED
    BY <1>1, <1>2, <1>3, <2>1 DEF Flagged, Drained
<1>4. CASE ActivateStart(a) \/ ActivateTake(a) \/ ActivateLock(a) \/ ActivateOpen(a)
  BY <1>3, <1>4, Zenon DEF ActivateStart, ActivateTake, ActivateLock, ActivateOpen, EnsureRuntime, Goto,
     Promoters, TypeOK, shared, Procs
<1>5. CASE CompileFails(a) \/ LockRuntime(a) \/ Promote(a) \/ ActivateRelease(a)
  BY <1>3, <1>5, Zenon DEF CompileFails, LockRuntime, Promote, ActivateRelease, Goto, Promoters, Drained,
     TypeOK, shared, Procs
<1>6. CASE BeginPromotion(a)
  <2>1. Promoters = {} /\ pc'[a] \in {"releasing", "promoted", "draining"}
    BY <1>6, OnePromoter, SMTT(30) DEF BeginPromotion, PromotionTurn, Goto, Promoters, TypeOK,
       ActivatorStates, Procs
  <2>2. /\ pc'[a] = "releasing" => "promoting" \notin gate'
        /\ pc'[a] # "releasing" => "promoting" \in gate'
        /\ pc'[a] = "promoted" => readers = 0
    BY <1>6, <2>1 DEF BeginPromotion, PromotionTurn, Goto, TypeOK, shared, Flagged, Procs
  <2> QED
    BY <1>1, <1>2, <2>1, <2>2, Zenon DEF Flagged, Drained, Promoters
<1>7. CASE DrainReaders(a)
  <2>1. Promoters \subseteq {a} /\ pc'[a] \in {"releasing", "promoted", "draining"}
    BY <1>7, OnePromoter, Zenon DEF DrainReaders, PromotionTurn, Goto, TypeOK, ActivatorStates, Procs
  <2>2. /\ pc'[a] = "releasing" => "promoting" \notin gate'
        /\ pc'[a] # "releasing" => "promoting" \in gate'
        /\ pc'[a] = "promoted" => readers = 0
    BY <1>7, Zenon DEF DrainReaders, PromotionTurn, Goto, TypeOK, Procs
  <2> QED
    BY <1>1, <1>2, <2>1, <2>2, Zenon DEF Flagged, Drained, Promoters
<1>8. CASE EndPromotion(a)
  <2>1. Promoters \subseteq {a} /\ pc'[a] = "releasing" /\ "promoting" \notin gate'
    BY <1>8, OnePromoter DEF EndPromotion, Goto, TypeOK, ActivatorStates, Procs
  <2> QED
    BY <1>1, <1>2, <2>1, Zenon DEF Flagged, Drained, Promoters
<1> QED
  BY <1>4, <1>5, <1>6, <1>7, <1>8 DEF ActivatorStep

\* Every step keeps the flag exact and the gate drained during a publication.
LEMMA FlaggedNext ==
  ASSUME TypeOK, Holders, Flagged, Drained, [Next]_vars
  PROVE  Flagged' /\ Drained'
<1>1. ASSUME NEW p \in Procs, Cancel(p) PROVE Flagged' /\ Drained'
  BY <1>1 DEF Cancel, Flagged, Drained, Promoters, shared
<1>2. ASSUME NEW r \in Requests, RequestStep(r) PROVE Flagged' /\ Drained'
  <2>1. Promoters' = Promoters /\ gate' = gate /\ Moved(r)
    BY <1>2, RequestFrame, OthersKeepPromoters, GatewayConstants, Zenon DEF Procs
  <2>2. readers' = readers \/ readers # 0 \/ "promoting" \notin gate
    BY <1>2 DEF RequestStep, Enter, EnterCancelled, Dispatch, Render, Leave, shared, TypeOK
  <2>3. \A a \in Activators : pc'[a] = pc[a]
    BY <2>1, GatewayConstants DEF Moved, Procs
  <2> QED
    BY <2>1, <2>2, <2>3 DEF Flagged, Drained, Promoters
<1>3. ASSUME NEW o \in Openers, OpenerStep(o) PROVE Flagged' /\ Drained'
  <2>1. Promoters' = Promoters /\ \A a \in Activators : pc'[a] = pc[a]
    BY <1>3, OpenerFrame, OthersKeepPromoters, GatewayConstants DEF Moved, Procs
  <2> QED
    BY <1>3, <2>1, OpenerFrame, SMTT(30) DEF Flagged, Drained
<1>4. ASSUME NEW c \in Closers, CloserStep(c) PROVE Flagged' /\ Drained'
  <2>1. Promoters' = Promoters /\ \A a \in Activators : pc'[a] = pc[a]
    BY <1>4, CloserFrame, OthersKeepPromoters, GatewayConstants DEF Moved, Procs
  <2> QED
    BY <1>4, <2>1, CloserFrame, SMTT(30) DEF Flagged, Drained
<1>5. CASE UNCHANGED vars
  BY <1>5 DEF vars, Flagged, Drained, Promoters
<1> QED
  BY <1>1, <1>2, <1>3, <1>4, <1>5, ActivatorFlagged DEF Next, Finished

-------------------------------------------------------------------------------
\* The store and server.closed

\* What opening the runtime does to the store.
LEMMA EnsureRuntimeStored ==
  ASSUME Stored, NEW p \in Activators \cup Openers, NEW l1, NEW l2, EnsureRuntime(p, l1, l2),
         Moved(p)
  PROVE  Stored'
<1>1. /\ \A c \in Closers : pc'[c] = pc[c]
      /\ \A r \in Requests : pc'[r] = pc[r]
  BY GatewayConstants DEF Moved, Procs
<1>2. \/ UNCHANGED <<coordinator, server>>
      \/ "closed" \notin server /\ coordinator' = "open" /\ server' = server \cup {"installed"}
  BY DEF EnsureRuntime
<1> QED
  BY <1>1, <1>2 DEF Stored, RenderedFromOpenStore

\* Close keeps the store open for whoever renders and closed once it has returned.
LEMMA CloserStored ==
  ASSUME TypeOK, Holders, Counted, Stored, NEW c \in Closers, CloserStep(c)
  PROVE  Stored'
<1>1. /\ \A d \in Closers \ {c} : pc'[d] = pc[d]
      /\ \A r \in Requests : pc'[r] = pc[r]
  BY CloserFrame, GatewayConstants DEF Moved, Procs
<1>2. CASE CloseTake(c)
  <2>1. pc[c] = "start" /\ pc'[c] = "locking" /\ UNCHANGED <<coordinator, server>>
    BY <1>2, Zenon DEF CloseTake, Goto, TypeOK, Procs
  <2> QED
    BY <1>1, <2>1 DEF Stored, RenderedFromOpenStore
<1>3. CASE CloseLock(c)
  <2>1. /\ pc[c] = "locking" /\ UNCHANGED coordinator /\ server' = server \cup {"closed"}
        /\ pc'[c] = IF "closed" \in server THEN "releasing" ELSE "closing"
    BY <1>3, ZenonT(60) DEF CloseLock, Goto, TypeOK, Procs
  <2>2. \A d \in Closers : pc[d] \notin {"closing", "draining"}
    BY <2>1, <1>3 DEF CloseLock, Holders, CloserStates, TypeOK
  <2>3. "closed" \notin server => \A d \in Closers : pc[d] \notin {"releasing", "gone"}
    BY DEF Holders, CloserStates
  <2> QED
    BY <1>1, <2>1, <2>2, <2>3, Zenon DEF Stored, RenderedFromOpenStore
<1>4. CASE CloseAdmissions(c)
  <2>1. /\ pc[c] \in {"closing", "draining"} /\ pc'[c] = "draining"
        /\ UNCHANGED <<coordinator, server>>
    BY <1>4 DEF CloseAdmissions, Goto, TypeOK, Procs
  <2> QED
    BY <1>1, <2>1, SMTT(30) DEF Stored, RenderedFromOpenStore
<1>5. CASE ShutDown(c)
  <2>1. /\ pc[c] \in {"closing", "draining"} /\ pc'[c] = "releasing" /\ readers = 0
        /\ server' = server \ {"installed"} /\ coordinator' # "open"
    BY <1>5 DEF ShutDown, Goto, TypeOK, Procs
  <2>2. \A r \in Requests : pc'[r] # "rendering"
    BY <1>1, <2>1, InGateEmpty, SMTT(30) DEF Counted, InGate
  <2>3. \A d \in Closers \ {c} : pc'[d] \notin {"closing", "draining"}
    BY <1>1, <2>1 DEF Holders, CloserStates
  <2> QED
    BY <2>1, <2>2, <2>3, SMTT(30) DEF Stored, RenderedFromOpenStore
<1>6. CASE CloseRelease(c)
  <2>1. pc[c] = "releasing" /\ pc'[c] = "gone" /\ UNCHANGED <<coordinator, server>>
    BY <1>6 DEF CloseRelease, Goto, TypeOK, Procs
  <2> QED
    BY <1>1, <2>1, SMTT(30) DEF Stored, RenderedFromOpenStore
<1> QED
  BY <1>2, <1>3, <1>4, <1>5, <1>6 DEF CloserStep

\* Every step keeps the store open for whoever renders.
LEMMA StoredNext ==
  ASSUME TypeOK, Holders, Counted, Stored, [Next]_vars
  PROVE  Stored'
<1>1. ASSUME NEW p \in Procs, Cancel(p) PROVE Stored'
  BY <1>1 DEF Cancel, Stored, RenderedFromOpenStore
<1>2. ASSUME NEW r \in Requests, RequestStep(r) PROVE Stored'
  <2>1. /\ UNCHANGED <<coordinator, server>>
        /\ \A c \in Closers : pc'[c] = pc[c]
        /\ \A q \in Requests \ {r} : pc'[q] = pc[q]
    BY <1>2, RequestFrame, GatewayConstants, Zenon DEF Moved, Procs
  <2>2. pc'[r] = "rendering" => "installed" \in server
    BY <1>2, ZenonT(60) DEF RequestStep, Enter, EnterCancelled, Dispatch, Render, Leave, Goto, TypeOK, Procs
  <2> QED
    BY <2>1, <2>2 DEF Stored, RenderedFromOpenStore
<1>3. ASSUME NEW a \in Activators, ActivatorStep(a) PROVE Stored'
  <2>1. Moved(a)
    BY <1>3, ActivatorFrame
  <2>2. CASE ActivateOpen(a)
    BY <2>1, <2>2, EnsureRuntimeStored, ZenonT(60) DEF ActivateOpen
  <2>3. CASE UNCHANGED <<coordinator, server>>
    BY <2>1, <2>3, GatewayConstants DEF Moved, Procs, Stored, RenderedFromOpenStore
  <2> QED
    BY <1>3, <2>2, <2>3, Zenon DEF ActivatorStep, ActivateStart, ActivateTake, ActivateLock, CompileFails,
       BeginPromotion, DrainReaders, LockRuntime, Promote, EndPromotion, ActivateRelease
<1>4. ASSUME NEW o \in Openers, OpenerStep(o) PROVE Stored'
  <2>1. Moved(o)
    BY <1>4, OpenerFrame, Zenon
  <2>2. CASE RecoverLock(o)
    BY <2>1, <2>2, GatewayConstants DEF RecoverLock, Moved, Procs, Stored, RenderedFromOpenStore
  <2>3. CASE Recover(o)
    BY <2>1, <2>3, EnsureRuntimeStored DEF Recover
  <2> QED
    BY <1>4, <2>2, <2>3 DEF OpenerStep
<1>5. CASE UNCHANGED vars
  BY <1>5 DEF vars, Stored, RenderedFromOpenStore
<1> QED
  BY <1>1, <1>2, <1>3, <1>4, <1>5, CloserStored, SMTT(30) DEF Next, Finished

-------------------------------------------------------------------------------
\* The inductive invariant and the theorems

\* A new server satisfies the invariant.
LEMMA InitInv == Init => Inv
<1> SUFFICES ASSUME Init PROVE Inv
  OBVIOUS
<1>1. /\ \A p \in Procs : pc[p] = "start"
      /\ readers = 0 /\ gate = {} /\ server = {} /\ coordinator = "none"
  BY DEF Init
<1>2. TypeOK
  BY DEF Init, TypeOK, RequestStates, ActivatorStates, OpenerStates, CloserStates, Procs
<1>3. Holders
  BY <1>1 DEF Holders, ActivatorStates, OpenerStates, CloserStates, Procs
<1>4. InGate = {} /\ Promoters = {}
  BY <1>1 DEF InGate, Promoters, Procs
<1>5. Counted /\ Flagged /\ Drained
  BY <1>1, <1>4, FS_EmptySet DEF Counted, Flagged, Drained, Procs
<1>6. Stored
  BY <1>1 DEF Stored, RenderedFromOpenStore, Procs
<1> QED
  BY <1>2, <1>3, <1>5, <1>6 DEF Inv

\* The invariant is inductive.
LEMMA InvNext == Inv /\ [Next]_vars => Inv'
BY TypeNext, HoldersNext, CountedNext, FlaggedNext, StoredNext DEF Inv

\* The invariant holds in every reachable state.
LEMMA InvHolds == Spec => []Inv
BY InitInv, InvNext, PTL DEF Spec

\* The counter and the flags of the gate, the holders of the slot and of both mutexes, and the
\* place of every goroutine stay in their types.
THEOREM GatewayTypeCorrect == Spec => []TypeOK
<1>1. Inv => TypeOK
  BY DEF Inv
<1> QED
  BY <1>1, InvHolds, PTL

\* Whatever the number of requests and activations, gate.readers counts the admitted requests
\* and gate.promoting is set exactly while one activation promotes: leave and endPromotion
\* never panic, and beginPromotion never finds another promotion.
THEOREM GateExact == Spec => []GateIsExact
<1>1. Inv => GateIsExact
  BY DEF Inv, GateIsExact, Counted, Flagged, Holders, Promoters, ActivatorStates
<1> QED
  BY <1>1, InvHolds, PTL

\* No promotion publishes a table while a request is between enter and leave.
THEOREM RoutesStable == Spec => RoutesStableWhileServing
<1>1. Inv /\ [Next]_vars => [version' # version => InGate = {}]_vars
  <2> SUFFICES ASSUME Inv, Next, version' # version PROVE InGate = {}
    BY SMTT(30) DEF vars
  <2>1. PICK a \in Activators : Promote(a)
    BY RequestFrame, OpenerFrame, CloserFrame, Zenon DEF Inv, Next, Finished, vars, Cancel, ActivatorStep,
       ActivateStart, ActivateTake, ActivateLock, ActivateOpen, EnsureRuntime, CompileFails,
       BeginPromotion, DrainReaders, LockRuntime, EndPromotion, ActivateRelease
  <2>2. readers = 0
    BY <2>1 DEF Promote, Inv, Drained
  <2> QED
    BY <2>2, InGateEmpty DEF Inv, Counted
<1> QED
  BY <1>1, InvHolds, PTL DEF Spec, RoutesStableWhileServing

\* A request the delegate renders has the coordinator's store open under it until it answers.
THEOREM RenderedOpen == Spec => []RenderedFromOpenStore
<1>1. Inv => RenderedFromOpenStore
  BY DEF Inv, Stored
<1> QED
  BY <1>1, InvHolds, PTL

\* Once a Close has returned, no Activate or Recover opens the store again.
THEOREM ClosedStaysClosed == Spec => []ClosedForGood
<1>1. Inv => ClosedForGood
  BY DEF Inv, Stored, Holders, ClosedForGood, CloserStates
<1> QED
  BY <1>1, InvHolds, PTL
================================================================================
